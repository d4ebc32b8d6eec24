-------------------------- MODULE MCSegmentDownload --------------------------
(* Instances of SegmentDownload for TLC. *)
EXTENDS SegmentDownload

CONSTANTS s1, s2, x

Once(numbers) == [n \in Numbers |-> IF n \in numbers THEN 1 ELSE 0]

\* Both segments, one of them twice, and one with a number that is no segment's.
SomeLists ==
    {Once({s1, s2}), [Once({s1, s2}) EXCEPT ![s1] = 2], Once({s2, x})}
=============================================================================
