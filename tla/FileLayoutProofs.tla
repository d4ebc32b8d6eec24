--------------------------- MODULE FileLayoutProofs ---------------------------
(***************************************************************************)
(* Theorems about FileLayout, for every width of an int and every size of  *)
(* a segment; IntLimit = 2^31 and SegmentSize = 8000 are those of the      *)
(* program.                                                                *)
(***************************************************************************)
EXTENDS FileLayout, TLAPS

-----------------------------------------------------------------------------
(* Arithmetic                                                               *)

\* What a quotient by the size of a segment is.
LEMMA Division ==
    ASSUME NEW a \in Nat, NEW b \in Nat \ {0}
    PROVE  a \div b \in Nat /\ (a \div b) * b <= a /\ a < (a \div b + 1) * b
OBVIOUS

\* Multiples of the size of a segment are ordered as their factors.
LEMMA Multiples ==
    ASSUME NEW i \in Nat, NEW j \in Nat, NEW b \in Nat \ {0}
    PROVE  /\ i <= j => i * b <= j * b
           /\ i * b < j * b => i < j
           /\ (i + 1) * b = i * b + b
           /\ i * b \in Nat
OBVIOUS

\* A number that is an int stays what it is; the others up to twice as large are
\* negative.
LEMMA IntOf ==
    ASSUME NEW x \in 0 .. 2 * IntLimit - 1
    PROVE  ToInt(x) = IF x < IntLimit THEN x ELSE x - 2 * IntLimit
<1> DEFINE w == 2 * IntLimit
<1>1. w \in Nat \ {0} /\ x \in Nat /\ IntLimit \in Nat
  BY IntLimitAssumption, SegmentSizeAssumption
<1>2. CASE x < IntLimit
  <2>1. x + IntLimit \in Nat /\ x + IntLimit < w
    BY <1>1, <1>2
  <2> HIDE DEF w
  <2>2. (x + IntLimit) % w = x + IntLimit
    BY <1>1, <2>1
  <2> QED
    BY <1>1, <1>2, <2>2 DEF ToInt, w
<1>3. CASE x >= IntLimit
  <2>1. x + IntLimit = (x - IntLimit) + w /\ x - IntLimit \in Nat /\ x - IntLimit < w
    BY <1>1, <1>3
  <2> HIDE DEF w
  <2>2. (x + IntLimit) % w = x - IntLimit
    BY <1>1, <2>1
  <2> QED
    BY <1>1, <1>3, <2>2 DEF ToInt, w
<1> QED
  BY <1>1, <1>2, <1>3

\* What generateSegments makes of a torrent's size.
LEMMA GeneratedSegments ==
    ASSUME NEW t \in 0 .. 2 * IntLimit - 1, NEW n, n = Generated(IntSize(t))
    PROVE  /\ n \in Nat
           /\ t < IntLimit => t <= n * SegmentSize /\ n * SegmentSize < t + SegmentSize
           /\ t >= IntLimit => n = 0 \/ (n = 1 /\ t > 2 * IntLimit - SegmentSize)
<1> USE SegmentSizeAssumption, IntLimitAssumption
<1>1. CASE t < IntLimit
  <2> DEFINE q == t \div SegmentSize
  <2>1. IntSize(t) = t /\ Quotient(t) = q
    BY <1>1, IntOf DEF IntSize, Quotient
  <2>2. q \in Nat /\ q * SegmentSize <= t /\ t < (q + 1) * SegmentSize
    BY Division
  <2> HIDE DEF q
  <2>3. (q + 1) * SegmentSize = q * SegmentSize + SegmentSize /\ q * SegmentSize \in Nat
    BY <2>2, Multiples
  <2>4. CASE q * SegmentSize = t
    <3>1. n = q
      BY <2>1, <2>2, <2>4 DEF Generated, Count, Divides
    <3> QED
      BY <1>1, <2>2, <2>3, <2>4, <3>1
  <2>5. CASE q * SegmentSize # t
    <3>1. n = q + 1
      BY <2>1, <2>2, <2>5 DEF Generated, Count, Divides
    <3> QED
      BY <1>1, <2>2, <2>3, <2>5, <3>1
  <2> QED
    BY <2>4, <2>5
<1>2. CASE t >= IntLimit
  <2> DEFINE m == 2 * IntLimit - t
             p == m \div SegmentSize
  <2>1. m \in Nat \ {0} /\ IntSize(t) = -m
    BY <1>2, IntOf DEF IntSize
  <2>2. p \in Nat /\ p * SegmentSize <= m /\ m < (p + 1) * SegmentSize
    BY <2>1, Division
  <2> HIDE DEF m
  <2>3. Quotient(-m) = -p
    BY <2>1 DEF Quotient
  <2> HIDE DEF p
  <2>4. Count(-m) \in {-p, 1 - p} /\ (Count(-m) = 1 - p => ~Divides(-m))
    BY <2>2, <2>3 DEF Count
  <2>5. CASE p = 0
    <3>1. m < SegmentSize
      BY <2>2, <2>5
    <3> QED
      BY <1>2, <2>1, <2>4, <2>5, <3>1 DEF Generated, m
  <2>6. CASE p > 0
    <3>1. n = 0
      BY <2>1, <2>2, <2>4, <2>6 DEF Generated
    <3> QED
      BY <1>2, <3>1
  <2> QED
    BY <2>2, <2>5, <2>6
<1> QED
  BY <1>1, <1>2

-----------------------------------------------------------------------------
(* The invariant                                                            *)

\* The count is that of the torrent's size, and what has been announced as
\* complete is so.
LayoutInv ==
    /\ TypeOK
    /\ numOfSegments = Generated(IntSize(torrentSize))
    /\ isCompleted => complete = Segments
    /\ LengthFits

\* The constructor of File establishes the invariant.
LEMMA InitLayout == Init => LayoutInv
<1> SUFFICES ASSUME Init PROVE LayoutInv
  OBVIOUS
<1>1. numOfSegments \in Nat
  BY GeneratedSegments DEF Init
<1>2. complete \subseteq Segments /\ length \in Int
  BY DEF Init, NoFile
<1>3. isCompleted \in BOOLEAN
  BY DEF Init
<1>4. TypeOK
  BY <1>1, <1>2, <1>3 DEF Init, TypeOK
<1> QED
  BY <1>4 DEF Init, LayoutInv, LengthFits

\* The invariant bounds every product of seekp.
LEMMA LayoutOffsets == LayoutInv => OffsetsInFile
<1> SUFFICES ASSUME LayoutInv, NEW s \in Segments
             PROVE  Offset(s) = s * SegmentSize /\ Offset(s) < torrentSize
  BY DEF OffsetsInFile
<1> USE SegmentSizeAssumption, IntLimitAssumption
<1>1. /\ torrentSize \in 0 .. 2 * IntLimit - 1 /\ numOfSegments \in Nat
      /\ s \in Nat /\ s + 1 <= numOfSegments
      /\ numOfSegments = Generated(IntSize(torrentSize))
  BY DEF LayoutInv, TypeOK, Segments
<1>2. (s + 1) * SegmentSize = s * SegmentSize + SegmentSize /\ s * SegmentSize \in Nat
  BY <1>1, Multiples
<1>3. s * SegmentSize < torrentSize /\ s * SegmentSize < IntLimit
  <2>1. CASE torrentSize < IntLimit
    <3>1. numOfSegments * SegmentSize < torrentSize + SegmentSize
      BY <1>1, <2>1, GeneratedSegments
    <3>2. (s + 1) * SegmentSize <= numOfSegments * SegmentSize
      BY <1>1, Multiples
    <3>3. numOfSegments * SegmentSize \in Nat
      BY <1>1, Multiples
    <3> QED
      BY <1>1, <1>2, <2>1, <3>1, <3>2, <3>3
  <2>2. CASE torrentSize >= IntLimit
    <3>1. numOfSegments = 0 \/ numOfSegments = 1
      BY <1>1, <2>2, GeneratedSegments
    <3>2. s = 0
      BY <1>1, <3>1
    <3> QED
      BY <1>1, <2>2, <3>2
  <2> QED
    BY <1>1, <2>1, <2>2
<1>4. ToInt(s * SegmentSize) = s * SegmentSize
  <2> DEFINE x == s * SegmentSize
  <2>1. x \in 0 .. 2 * IntLimit - 1 /\ x < IntLimit
    BY <1>2, <1>3
  <2> HIDE DEF x
  <2>2. ToInt(x) = x
    BY <2>1, IntOf
  <2> QED
    BY <2>2 DEF x
<1> QED
  BY <1>3, <1>4 DEF Offset

Covered(b) == \E s \in Segments : InSegment(b, s)

\* The invariant says which bytes have a segment.
LEMMA LayoutCovers ==
  ASSUME LayoutInv
  PROVE  /\ torrentSize < IntLimit => \A b \in 0 .. torrentSize - 1 : Covered(b)
         /\ torrentSize >= IntLimit => \E b \in 0 .. torrentSize - 1 : ~Covered(b)
<1> USE SegmentSizeAssumption, IntLimitAssumption DEF Covered
<1>1. /\ torrentSize \in 0 .. 2 * IntLimit - 1 /\ numOfSegments \in Nat
      /\ numOfSegments = Generated(IntSize(torrentSize))
  BY DEF LayoutInv, TypeOK
<1>2. ASSUME torrentSize < IntLimit, NEW b \in 0 .. torrentSize - 1
      PROVE  \E s \in Segments : InSegment(b, s)
  <2> DEFINE s == b \div SegmentSize
  <2>1. s \in Nat /\ s * SegmentSize <= b /\ b < (s + 1) * SegmentSize
    BY <1>1, Division
  <2> HIDE DEF s
  <2>2. torrentSize <= numOfSegments * SegmentSize
    BY <1>1, <1>2, GeneratedSegments
  <2>3. s * SegmentSize \in Nat /\ numOfSegments * SegmentSize \in Nat
    BY <1>1, <2>1, Multiples
  <2>4. s * SegmentSize < numOfSegments * SegmentSize
    BY <1>1, <2>1, <2>2, <2>3
  <2>5. s < numOfSegments
    BY <1>1, <2>1, <2>4, Multiples
  <2> QED
    BY <1>1, <2>1, <2>5 DEF Segments, InSegment
<1>3. ASSUME torrentSize >= IntLimit
      PROVE  \E b \in 0 .. torrentSize - 1 : \A s \in Segments : ~InSegment(b, s)
  <2>1. \/ numOfSegments = 0
        \/ numOfSegments = 1 /\ torrentSize > 2 * IntLimit - SegmentSize
    BY <1>1, <1>3, GeneratedSegments
  <2>2. CASE numOfSegments = 0
    <3>1. 0 \in 0 .. torrentSize - 1 /\ Segments = {}
      BY <1>1, <1>3, <2>2 DEF Segments
    <3> QED
      BY <3>1
  <2>3. CASE numOfSegments = 1 /\ torrentSize > 2 * IntLimit - SegmentSize
    <3>1. SegmentSize \in 0 .. torrentSize - 1 /\ \A s \in Segments : s = 0
      BY <1>1, <2>3 DEF Segments
    <3>2. ~InSegment(SegmentSize, 0)
      BY DEF InSegment
    <3> QED
      BY <3>1, <3>2
  <2> QED
    BY <2>1, <2>2, <2>3
<1> QED
  BY <1>1, <1>2, <1>3

\* Stores, re-creations and isComplete keep the invariant.
LEMMA NextLayout == LayoutInv /\ [Next]_vars => LayoutInv'
<1> SUFFICES ASSUME LayoutInv, [Next]_vars PROVE LayoutInv'
  OBVIOUS
<1> USE SegmentSizeAssumption, IntLimitAssumption
    DEF LayoutInv, TypeOK, LengthFits, Segments, NoFile
<1>1. CASE CreateLocalFile
  BY <1>1 DEF CreateLocalFile
<1>2. ASSUME NEW s \in Segments, StoreSegment(s)
      PROVE  LayoutInv'
  <2>1. Offset(s) \in Int /\ Offset(s) < torrentSize
    <3>1. Offset(s) = s * SegmentSize /\ Offset(s) < torrentSize
      BY LayoutOffsets DEF OffsetsInFile
    <3> QED
      BY <3>1
  <2>2. /\ complete' = complete \cup {s}
        /\ length' = length \/ (length # -1 /\ length' = Offset(s) + SegmentSize
                                 /\ length' > length)
        /\ UNCHANGED <<torrentSize, numOfSegments, isCompleted>>
    BY <1>2 DEF StoreSegment
  <2>3. complete' \subseteq Segments'
    BY <1>2, <2>2
  <2>4. isCompleted' => complete' = Segments'
    BY <1>2, <2>2
  <2>5. length' \in Int /\ LengthFits'
    BY <2>1, <2>2
  <2> QED
    BY <2>2, <2>3, <2>4, <2>5
<1>3. CASE IsComplete
  BY <1>3 DEF IsComplete
<1>4. CASE UNCHANGED vars
  BY <1>4 DEF vars
<1> QED
  BY <1>1, <1>2, <1>3, <1>4 DEF Next

\* The invariant holds in every reachable state.
LEMMA LayoutAlways == Spec => []LayoutInv
BY InitLayout, NextLayout, PTL DEF Spec

-----------------------------------------------------------------------------
\* Every variable has its type in every reachable state: no size makes the count of
\* segments negative.
THEOREM TypeCorrect == Spec => []TypeOK
<1>1. LayoutInv => TypeOK
  BY DEF LayoutInv
<1> QED
  BY LayoutAlways, <1>1, PTL

\* The product in storeSegmentToFile does not overflow for any segment of any file.
THEOREM OffsetsCorrect == Spec => []OffsetsInFile
BY LayoutAlways, LayoutOffsets, PTL

\* generateSegments leaves no byte of a file of less than 2^31 bytes out: rounding the
\* count up where it does not divide covers the rest.
THEOREM CoverCorrect ==
  Spec => [](torrentSize < IntLimit => \A b \in 0 .. torrentSize - 1 : Covered(b))
BY LayoutAlways, LayoutCovers, PTL

\* Of a larger file it always leaves some out (IntSize, File.cpp:73), although "32 bits =
\* ~4GB max file size" (Torrent.h:18).
THEOREM NoCoverFromLimit ==
  Spec => [](torrentSize >= IntLimit => \E b \in 0 .. torrentSize - 1 : ~Covered(b))
BY LayoutAlways, LayoutCovers, PTL

\* The local file is never shorter than its torrent says, nor longer by a segment
\* (createLocalFile, storeSegmentToFile).
THEOREM LengthCorrect == Spec => []LengthFits
<1>1. LayoutInv => LengthFits
  BY DEF LayoutInv
<1> QED
  BY LayoutAlways, <1>1, PTL

\* A file that isComplete announces has each byte in a COMPLETE segment.
THEOREM CompletedCorrect == Spec => []CompletedIsCovered
<1>1. LayoutInv => CompletedIsCovered
  BY LayoutCovers DEF LayoutInv, Covered, CompletedIsCovered
<1> QED
  BY LayoutAlways, <1>1, PTL
=============================================================================
