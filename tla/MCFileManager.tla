---------------------------- MODULE MCFileManager ----------------------------
(* Instances of FileManager for TLC. *)
EXTENDS FileManager

\* Threads with the same role are interchangeable, and so are the files as long
\* as only safety is checked: the argument a thread has before its first call is
\* never read.
Symmetry ==
    Permutations(Readers) \cup Permutations(Writers) \cup Permutations(Files)
=============================================================================
