----------------------------- MODULE FileLayout -----------------------------
(***************************************************************************)
(* The arithmetic of one file: how File (src/src/client/file/File.cpp)     *)
(* divides a torrent's size into segments, where FileManager               *)
(* (src/src/client/file/FileManager.cpp) writes a segment, and how long    *)
(* the local file gets.  A torrent's size is an unsigned integer, every    *)
(* other number an int of the same width.                                  *)
(***************************************************************************)
EXTENDS Integers

CONSTANTS
    IntLimit,       \* one more than the largest int (2^31)
    SegmentSize     \* DEFAULTSEGMENTSIZE (8000)

ASSUME SegmentSizeAssumption == SegmentSize \in Nat \ {0}
ASSUME IntLimitAssumption == IntLimit \in Nat /\ SegmentSize <= IntLimit

VARIABLES
    torrentSize,    \* Torrent::size
    numOfSegments,  \* File::numOfSegments
    complete,       \* the segments that are COMPLETE
    isCompleted,    \* File's cached answer
    length          \* of the local file; NoFile: there is none

vars == <<torrentSize, numOfSegments, complete, isCompleted, length>>

NoFile == -1

\* A number as an int holds it.
ToInt(x) == ((x + IntLimit) % (2 * IntLimit)) - IntLimit

\* Mutant: File::size holds whatever a torrent's size is.
Mut_Unsigned(size) == size

\* File::size
IntSize(size) == ToInt(size)

\* / and % of C++, which round towards zero.
Quotient(x) ==
    IF x >= 0 THEN x \div SegmentSize ELSE -((-x) \div SegmentSize)

Divides(x) == Quotient(x) * SegmentSize = x

\* The count that generateSegments computes.
Count(size) == IF Divides(size) THEN Quotient(size) ELSE Quotient(size) + 1

\* Mutant: the count is kept as it was computed.
Mut_KeepsCount(size) == Count(size)

\* The constructor of File: as many segments as its loop made.
Generated(size) == IF Count(size) > 0 THEN Count(size) ELSE 0

Segments == 0 .. numOfSegments - 1

\* Every size but that of a torrent file that is missing (Torrent.cpp:62: -1)
\* comes from a torrent file.
Init ==
    /\ torrentSize \in 0 .. 2 * IntLimit - 1
    /\ numOfSegments = Generated(IntSize(torrentSize))
    /\ complete = {}
    /\ isCompleted = FALSE
    /\ length = NoFile

\* createLocalFile: an existing file is cut off, and torrentSize zeros are written.
CreateLocalFile ==
    /\ length' = torrentSize
    /\ UNCHANGED <<torrentSize, numOfSegments, complete, isCompleted>>

\* The position that storeSegmentToFile seeks.
Offset(s) == ToInt(s * SegmentSize)

\* Mutant: the stream appends.
Mut_Appends(s) ==
    /\ s \notin complete
    /\ complete' = complete \cup {s}
    /\ length' = IF length = NoFile THEN length ELSE length + SegmentSize
    /\ UNCHANGED <<torrentSize, numOfSegments, isCompleted>>

\* A worker stores a segment and makes it COMPLETE.  SegmentSize bytes are
\* written, unless there is no file or seekp fails.
StoreSegment(s) ==
    /\ s \notin complete
    /\ complete' = complete \cup {s}
    /\ length' = IF length # NoFile /\ Offset(s) >= 0
                    /\ Offset(s) + SegmentSize > length
                 THEN Offset(s) + SegmentSize ELSE length
    /\ UNCHANGED <<torrentSize, numOfSegments, isCompleted>>

\* Mutant: the loop ends one segment early.
Mut_IsCompleteButLast ==
    /\ isCompleted' = (isCompleted \/ \A s \in 0 .. numOfSegments - 2 : s \in complete)
    /\ UNCHANGED <<torrentSize, numOfSegments, complete, length>>

IsComplete ==
    /\ isCompleted' = (isCompleted \/ \A s \in Segments : s \in complete)
    /\ UNCHANGED <<torrentSize, numOfSegments, complete, length>>

Next ==
    \/ CreateLocalFile
    \/ \E s \in Segments : StoreSegment(s)
    \/ IsComplete

Spec == Init /\ [][Next]_vars

-----------------------------------------------------------------------------
(* Properties                                                               *)

\* Every variable has its type.
TypeOK ==
    /\ torrentSize \in 0 .. 2 * IntLimit - 1
    /\ numOfSegments \in Nat
    /\ complete \subseteq Segments
    /\ isCompleted \in BOOLEAN
    /\ length \in Int

\* The bytes that belong to a segment.
InSegment(b, s) == s * SegmentSize <= b /\ b < (s + 1) * SegmentSize

\* The offset of a segment (FileManager.cpp:69) never overflows, whatever the size
\* of the torrent, and no segment begins behind the end of the file.
OffsetsInFile ==
    \A s \in Segments :
        Offset(s) = s * SegmentSize /\ Offset(s) < torrentSize

\* The local file is at least as long as its torrent says, and the last segment, which
\* is stored with all SegmentSize bytes, makes it longer by less than a segment.
LengthFits ==
    length # NoFile => /\ torrentSize <= length
                       /\ length < torrentSize + SegmentSize

\* A file announced as complete has every one of its bytes in a COMPLETE segment, if
\* its size is an int.  (Of a larger one it does not: module FileLayoutProofs,
\* NoCoverFromLimit.)
CompletedIsCovered ==
    isCompleted /\ torrentSize < IntLimit =>
        \A b \in 0 .. torrentSize - 1 : \E s \in complete : InSegment(b, s)
=============================================================================
