--------------------------- MODULE SegmentDownload ---------------------------
(***************************************************************************)
(* The download of one File (src/src/client/file/File.cpp) by concurrent   *)
(* DownloadWorkers (src/src/client/download/DownloadWorker.cpp), one per   *)
(* peer, and what it leaves on the disk.                                   *)
(*                                                                         *)
(* A worker asks its peer once which fragments it has and then walks over  *)
(* that list once.  Nothing is checked about the list: a number may be in  *)
(* it twice, or be that of no segment.  Each File method is one step under *)
(* fileMutex; between two of them the other workers, the manager that      *)
(* polls isComplete, and the menu that (re)creates the local file can come *)
(* in.  storeSegmentToFile is one step here: module FileManager shows that *)
(* stores return and take a write lock each.                               *)
(*                                                                         *)
(* The File is one made from a torrent.  Nothing of it outlives the        *)
(* process: what the Database hands out after a restart, or after addFile, *)
(* is another one, without segments (module ClientDatabase); the instances *)
(* with Segments = {} are about it.                                        *)
(***************************************************************************)
EXTENDS Integers, FiniteSets

CONSTANTS
    Workers,        \* the workers, one per peer
    Segments,       \* the segments of the file
    Others,         \* numbers a peer may send that are not those of a segment
    NoSegment,      \* "no claim"
    Lists,          \* the lists a peer may send: how often each number is in it
    MayRecreate     \* whether the user creates the local file a second time

Numbers == Segments \cup Others

ASSUME OthersAssumption == Segments \cap Others = {}
ASSUME NoSegmentAssumption == NoSegment \notin Numbers
ASSUME ListsAssumption == Lists \subseteq [Numbers -> Nat]
ASSUME MayRecreateAssumption == MayRecreate \in BOOLEAN

VARIABLES
    alive,          \* FALSE once undefined behaviour ended the process
    segState,       \* File::segments[s].state
    isCompleted,    \* File's cached answer of isComplete
    disk,           \* what the local file holds at the place of a segment
    pc,             \* where each worker is in work()
    todo,           \* what of its list a worker has yet to look at
    cur,            \* the fragment it has claimed
    answer,         \* its peer's answer for that fragment
    announced,      \* history: the segments in the list its peer sent
    failed,         \* history: requests of its that ended in F_ERROR
    tainted         \* history: segments stored without the peer's bytes

file == <<segState, isCompleted>>
workers == <<pc, todo, cur, answer>>
history == <<announced, failed, tainted>>
vars == <<alive, file, disk, workers, history>>

\* "bytes": the fragment; "none": any file code but F_ERROR without the (whole)
\* fragment, as F_NO_FILE; "error": F_ERROR, which is also what requestFragment
\* makes of a time-out, a closed connection and an answer of another kind.
Answers == {"bytes", "none", "error"}

\* "absent": there is no local file; "zero": as createLocalFile left it;
\* "junk": 8000 bytes from behind a fragment that was not that long.
Contents == {"absent", "zero", "data", "junk"}

SegmentStates == {"FREE", "DOWNLOADING", "COMPLETE"}

\* The places between a worker's claim and its release or completion.
ClaimPcs == {"request", "answered", "stored"}
PCs == {"idle", "connect", "list", "loop", "finished"} \cup ClaimPcs

Goto(w, label) == pc' = [pc EXCEPT ![w] = label]

EachWorker(x) == [w \in Workers |-> x]

\* The File constructor: every segment is FREE, whatever the disk holds.
NewSegments == [s \in Segments |-> "FREE"]

\* A list in which nothing is left, and what an error leaves of one.
EmptyList == [n \in Numbers |-> 0]

Init ==
    /\ alive = TRUE
    /\ segState = NewSegments
    /\ isCompleted = FALSE
    /\ pc = EachWorker("idle")
    /\ todo = EachWorker(EmptyList)
    /\ cur = EachWorker(NoSegment)
    /\ answer = EachWorker("error")
    /\ announced = EachWorker({})
    /\ failed = EachWorker({})
    /\ \E c \in {"absent", "zero"} : disk = [s \in Segments |-> c]
    /\ tainted = {}

-----------------------------------------------------------------------------
(* File                                                                     *)

\* segments[n] becomes x.  What a number that is not a segment's writes behind the
\* vector is not in the model.
Writes(n, x) ==
    /\ segState' = [s \in Segments |-> IF s = n THEN x ELSE segState[s]]
    /\ UNCHANGED isCompleted

\* Mutant: a segment another worker is downloading is claimed as well.
Mut_ClaimsTwice(n) ==
    /\ n \in Segments => segState[n] # "COMPLETE"
    /\ Writes(n, "DOWNLOADING")

\* Mutant: a segment that is already there is claimed as well.
Mut_ClaimsComplete(n) ==
    /\ n \in Segments => segState[n] # "DOWNLOADING"
    /\ Writes(n, "DOWNLOADING")

\* tryToSetStateSegmentStateToDownload succeeds: segments[n] is FREE, or n is not a
\* segment's number and what lies behind the vector reads as FREE.
TryToSetToDownload(n) ==
    /\ n \in Segments => segState[n] = "FREE"
    /\ Writes(n, "DOWNLOADING")

SetSegmentState(n, newState) == Writes(n, newState)

\* Mutant: the search stops at the first COMPLETE segment.
Mut_IsCompleteAny ==
    /\ isCompleted' = (isCompleted \/ \E s \in Segments : segState[s] = "COMPLETE")
    /\ UNCHANGED <<alive, segState, disk, workers, history>>

\* The manager (or anyone) asks isComplete; the answer is cached.
IsComplete ==
    /\ isCompleted' = (isCompleted \/ \A s \in Segments : segState[s] = "COMPLETE")
    /\ UNCHANGED <<alive, segState, disk, workers, history>>

-----------------------------------------------------------------------------
(* DownloadWorker::work                                                     *)

\* The manager starts the worker.
StartWorker(w) ==
    /\ pc[w] = "idle"
    /\ Goto(w, "connect")
    /\ UNCHANGED <<alive, file, disk, todo, cur, answer, history>>

\* A peer without an address or one that cannot be reached: nothing is done.
ConnectFails(w) ==
    /\ pc[w] = "connect"
    /\ Goto(w, "finished")
    /\ UNCHANGED <<alive, file, disk, todo, cur, answer, history>>

Connects(w) ==
    /\ pc[w] = "connect"
    /\ Goto(w, "list")
    /\ UNCHANGED <<alive, file, disk, todo, cur, answer, history>>

\* The list of the peer's fragments, as the peer sent it.
ReceivesList(w, list) ==
    /\ pc[w] = "list"
    /\ todo' = [todo EXCEPT ![w] = list]
    /\ announced' = [announced EXCEPT ![w] = {s \in Segments : list[s] > 0}]
    /\ Goto(w, "loop")
    /\ UNCHANGED <<alive, file, disk, cur, answer, failed, tainted>>

\* The loop of work() comes to the number n.
Takes(w, n) ==
    /\ pc[w] = "loop"
    /\ todo[w][n] > 0
    /\ todo' = [todo EXCEPT ![w][n] = @ - 1]

\* The next fragment of the list is FREE and the worker claims it.
Claims(w, n) ==
    /\ Takes(w, n)
    /\ TryToSetToDownload(n)
    /\ cur' = [cur EXCEPT ![w] = n]
    /\ Goto(w, "request")
    /\ UNCHANGED <<alive, disk, answer, history>>

\* Mutant: a fragment may be passed over whatever its state.
Mut_SkipsFree(w, n) ==
    /\ Takes(w, n)
    /\ UNCHANGED <<alive, file, disk, pc, cur, answer, history>>

\* Mutant: the loop goes on behind the last number of the list.
Mut_SkipsPastEnd(w, n) ==
    /\ pc[w] = "loop"
    /\ n \in Segments => segState[n] # "FREE"
    /\ todo[w][n] >= 0
    /\ todo' = [todo EXCEPT ![w][n] = @ - 1]
    /\ UNCHANGED <<alive, file, disk, pc, cur, answer, history>>

\* It is not: the worker goes on to the next one, and comes back only if the number
\* is in the list again.
Skips(w, n) ==
    /\ Takes(w, n)
    /\ n \in Segments => segState[n] # "FREE"
    /\ UNCHANGED <<alive, file, disk, pc, cur, answer, history>>

\* Behind the vector there may also be nothing to read: the process ends.
Faults(w, n) ==
    /\ Takes(w, n)
    /\ n \in Others
    /\ alive' = FALSE
    /\ UNCHANGED <<file, disk, pc, cur, answer, history>>

\* Mutant: the segment is made COMPLETE before it is stored.
Mut_CompleteBeforeStore(w, a) ==
    /\ pc[w] = "request"
    /\ answer' = [answer EXCEPT ![w] = a]
    /\ failed' = [failed EXCEPT ![w] = IF a = "error" THEN @ \cup {cur[w]} ELSE @]
    /\ IF a = "error" THEN UNCHANGED file ELSE SetSegmentState(cur[w], "COMPLETE")
    /\ Goto(w, "answered")
    /\ UNCHANGED <<alive, disk, todo, cur, announced, tainted>>

ReceivesFragment(w, a) ==
    /\ pc[w] = "request"
    /\ answer' = [answer EXCEPT ![w] = a]
    /\ failed' = [failed EXCEPT ![w] = IF a = "error" THEN @ \cup {cur[w]} ELSE @]
    /\ Goto(w, "answered")
    /\ UNCHANGED <<alive, file, disk, todo, cur, announced, tainted>>

\* Mutant: the claim is not given back.
Mut_KeepsClaim(w) ==
    /\ pc[w] = "answered"
    /\ answer[w] = "error"
    /\ cur' = [cur EXCEPT ![w] = NoSegment]
    /\ Goto(w, "loop")
    /\ UNCHANGED <<alive, file, disk, todo, answer, history>>

\* Mutant: the fragment is asked for again until the peer sends it.
Mut_RetriesForEver(w) ==
    /\ pc[w] = "answered"
    /\ answer[w] = "error"
    /\ SetSegmentState(cur[w], "FREE")
    /\ todo' = [todo EXCEPT ![w][cur[w]] = @ + 1]
    /\ cur' = [cur EXCEPT ![w] = NoSegment]
    /\ Goto(w, "loop")
    /\ UNCHANGED <<alive, disk, answer, history>>

\* F_ERROR: the claim is given back.
Releases(w) ==
    /\ pc[w] = "answered"
    /\ answer[w] = "error"
    /\ SetSegmentState(cur[w], "FREE")
    /\ cur' = [cur EXCEPT ![w] = NoSegment]
    /\ Goto(w, "loop")
    /\ UNCHANGED <<alive, disk, todo, answer, history>>

\* Any other answer is stored; storeSegmentToFile cannot tell that it failed.  The
\* place of a number that is not a segment's is outside of the file, unless the int
\* product segmentId * 8000 overflows: then it is anywhere.
Stores(w) ==
    /\ pc[w] = "answered"
    /\ answer[w] # "error"
    /\ \E opened \in BOOLEAN, hit \in SUBSET Segments :
        /\ opened => \A s \in Segments : disk[s] # "absent"
        /\ cur[w] \in Segments => hit = {cur[w]}
        /\ cur[w] \in Others /\ ~opened => hit = {}
        /\ LET good == IF opened /\ answer[w] = "bytes" THEN {cur[w]} ELSE {}
           IN  /\ disk' = [s \in Segments |->
                             IF ~opened \/ s \notin hit THEN disk[s]
                             ELSE IF s \in good THEN "data" ELSE "junk"]
               /\ tainted' = (tainted \cup hit) \ good
    /\ Goto(w, "stored")
    /\ UNCHANGED <<alive, file, todo, cur, answer, announced, failed>>

Completes(w) ==
    /\ pc[w] = "stored"
    /\ SetSegmentState(cur[w], "COMPLETE")
    /\ cur' = [cur EXCEPT ![w] = NoSegment]
    /\ Goto(w, "loop")
    /\ UNCHANGED <<alive, disk, todo, answer, history>>

\* The list is exhausted: finished = true.
Finishes(w) ==
    /\ pc[w] = "loop"
    /\ todo[w] = EmptyList
    /\ Goto(w, "finished")
    /\ UNCHANGED <<alive, file, disk, todo, cur, answer, history>>

-----------------------------------------------------------------------------
(* The menu                                                                 *)

\* createLocalFile truncates an existing file and fills it with zeros.
CreateLocalFile ==
    /\ MayRecreate \/ \A s \in Segments : disk[s] = "absent"
    /\ disk' = [s \in Segments |-> "zero"]
    /\ tainted' = Segments
    /\ UNCHANGED <<alive, file, workers, announced, failed>>

-----------------------------------------------------------------------------
\* What a worker does once it has been started.
Step(w) ==
    \/ ConnectFails(w) \/ Connects(w)
    \/ \E list \in Lists \cup {EmptyList} : ReceivesList(w, list)
    \/ \E n \in Numbers : Claims(w, n) \/ Skips(w, n) \/ Faults(w, n)
    \/ \E a \in Answers : ReceivesFragment(w, a)
    \/ Releases(w) \/ Stores(w) \/ Completes(w)
    \/ Finishes(w)

Next ==
    /\ alive
    /\ \/ \E w \in Workers : StartWorker(w) \/ Step(w)
       \/ IsComplete
       \/ CreateLocalFile

Spec == Init /\ [][Next]_vars

\* A running worker gets on: connect, send and the bounded receive return, and
\* so does storeSegmentToFile.  No worker has to be started.
Fairness == \A w \in Workers : WF_vars(alive /\ Step(w))

FairSpec == Spec /\ Fairness

-----------------------------------------------------------------------------
(* Properties                                                               *)

\* Every variable has its type.
TypeOK ==
    /\ alive \in BOOLEAN
    /\ segState \in [Segments -> SegmentStates]
    /\ isCompleted \in BOOLEAN
    /\ disk \in [Segments -> Contents]
    /\ pc \in [Workers -> PCs]
    /\ todo \in [Workers -> [Numbers -> Nat]]
    /\ cur \in [Workers -> Numbers \cup {NoSegment}]
    /\ answer \in [Workers -> Answers]
    /\ announced \in [Workers -> SUBSET Segments]
    /\ failed \in [Workers -> SUBSET Numbers]
    /\ tainted \subseteq Segments

Holds(w, s) == pc[w] \in ClaimPcs /\ cur[w] = s

\* Two workers never download the same segment at the same time, whatever their
\* lists have in common.
ExclusiveClaim ==
    \A v, w \in Workers, s \in Segments :
        Holds(v, s) /\ Holds(w, s) => v = w

\* A segment is DOWNLOADING exactly while some worker is at it: no path of work()
\* leaves a claim behind, and none releases or completes another worker's.
ClaimsMatch ==
    \A s \in Segments :
        segState[s] = "DOWNLOADING" <=> \E w \in Workers : Holds(w, s)

\* The cached answer of isComplete, on which the manager ends the download, is
\* never stale: what it was computed from cannot change any more.
CompletedIsFinal ==
    isCompleted => \A s \in Segments : segState[s] = "COMPLETE"

\* A COMPLETE segment holds the peer's bytes unless its store went wrong in one
\* of the ways that work() overlooks.
CompleteIsStored ==
    \A s \in Segments :
        segState[s] = "COMPLETE" /\ s \notin tainted => disk[s] = "data"

\* The fragments on the disk survive everything but createLocalFile: no worker writes
\* over a segment that another one has stored, however late it is, with one
\* exception: the product for a number that is not a segment's has overflowed.
StoredBytesKept ==
    [][\A s \in Segments :
          disk[s] = "data" /\ disk'[s] # "data" =>
            \/ CreateLocalFile
            \/ \E w \in Workers : Stores(w) /\ cur[w] \in Others]_vars

\* Every worker that was started ends, whatever list its peer sends, unless a number
\* in it ends the process.
WorkersFinish ==
    \A w \in Workers : pc[w] = "connect" ~> (pc[w] = "finished" \/ ~alive)

\* The File seen by all workers together is a SegmentLedger.
Ledger == INSTANCE SegmentLedger WITH
    Segments <- Segments, segState <- segState, isCompleted <- isCompleted,
    running <- alive

ImplementsLedger == Ledger!LedgerSpec

\* A fragment that is still missing when a worker ends, although its peer announced
\* it, was asked of some peer in vain: skipping the fragments that others are at
\* (DownloadWorker.cpp:36) loses none that nobody has tried.  (Not every peer is
\* tried: a worker that skips a fragment does not come back to it.)
MissingWasTried ==
    \A w \in Workers : \A s \in announced[w] :
        pc[w] = "finished" /\ segState[s] = "FREE" =>
            \E v \in Workers : s \in failed[v]
=============================================================================
