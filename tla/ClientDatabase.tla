--------------------------- MODULE ClientDatabase ---------------------------
(***************************************************************************)
(* The client's Database (src/src/client/database/Database.cpp), the       *)
(* torrent files and the database file on the disk, and the choices of the *)
(* menu (src/src/client/main.cpp) that use it.                             *)
(*                                                                         *)
(* A File is told by its torrent, and a torrent by the path of its file.   *)
(* saveToFile is called by the repository's test only; the menu loads.     *)
(***************************************************************************)
EXTENDS Integers, Sequences

CONSTANTS
    Torrents,       \* torrents of which there may be a torrent file
    Blank,          \* none of them: a torrent made without arguments
    MaxFiles        \* bound: files in the database

VARIABLES
    status,         \* the process: "running", "crashed", "terminated", "quit"
    files,          \* Database::files
    torrentFiles,   \* the torrents that are on the disk
    saved,          \* the database file
    added,          \* history: the torrents of the Files handed to addFile
    savedAdded,     \* history: those at the last saveToFile
    expected        \* history: those that the last load could find

disk == <<torrentFiles, saved>>
history == <<added, savedAdded, expected>>
vars == <<status, files, disk, history>>

NoDatabase == [count |-> -1, paths |-> <<>>]

Init ==
    /\ status = "running"
    /\ files = <<>>
    /\ torrentFiles \in SUBSET Torrents
    /\ saved = NoDatabase
    /\ added = {}
    /\ savedAdded = {}
    /\ expected = {}

\* addFile takes a File by value: File's copy constructor copies nothing.
CopyOf(t) == Blank

\* Torrent(torrentFilename); of a file that is missing, a blank one.
ReadTorrent(t) == IF t \in torrentFiles THEN t ELSE Blank

AddFile(t) ==
    /\ t \in torrentFiles
    /\ Len(files) < MaxFiles
    /\ files' = Append(files, CopyOf(t))
    /\ added' = added \cup {t}
    /\ UNCHANGED <<status, disk, savedAdded, expected>>

\* saveToFile counts every file and writes the paths of those that have one.
SaveToFile ==
    /\ saved' = [count |-> Len(files),
                 paths |-> SelectSeq(files, LAMBDA t : t # Blank)]
    /\ savedAdded' = added
    /\ UNCHANGED <<status, files, torrentFiles, added, expected>>

OnDisk(t) == t \in torrentFiles

\* loadFromFile (choice 1): torrents that are missing are skipped.  Behind the last
\* path, nameSize keeps what the stack had there: a string of that size is not the
\* name of a file, or is too long to be made.
LoadFromFile ==
    /\ saved # NoDatabase
    /\ \/ LET found == SelectSeq(saved.paths, OnDisk)
          IN  /\ files' = [i \in 1 .. Len(found) |-> CopyOf(found[i])]
              /\ added' = savedAdded \cap torrentFiles
              /\ expected' = added'
              /\ UNCHANGED status
       \/ /\ saved.count > Len(saved.paths)
          /\ status' = "crashed"
          /\ UNCHANGED <<files, added, expected>>
    /\ UNCHANGED <<disk, savedAdded>>

\* The user makes or removes a torrent file.
ChangesTorrentFile(t) ==
    /\ torrentFiles' \in {torrentFiles \cup {t}, torrentFiles \ {t}}
    /\ UNCHANGED <<status, files, saved, history>>

IsFileInDatabase(t) == \E i \in 1 .. Len(files) : files[i] = t

\* Choice 3: a file that is found is given to a DownloadManager, whose thread is
\* still joinable when the block ends (see CallerReturns of DownloadManager).
RequestsDownload(t) ==
    /\ status' = IF IsFileInDatabase(ReadTorrent(t)) THEN "terminated" ELSE status
    /\ UNCHANGED <<files, disk, history>>

\* Choice 5.
Quits ==
    /\ status' = "quit"
    /\ UNCHANGED <<files, disk, history>>

Next ==
    /\ status = "running"
    /\ \/ \E t \in Torrents :
            AddFile(t) \/ ChangesTorrentFile(t) \/ RequestsDownload(t)
       \/ SaveToFile \/ LoadFromFile \/ Quits

Spec == Init /\ [][Next]_vars

-----------------------------------------------------------------------------
(* Property                                                                 *)

\* src/src/client/tests/tests_main.cpp:29: a File that was added, and whose database was
\* saved and loaded, is found with its torrent as it was.
SavedIsLoaded ==
    \A t \in expected : IsFileInDatabase(t)
=============================================================================
