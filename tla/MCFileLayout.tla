---------------------------- MODULE MCFileLayout ----------------------------
(* Instances of FileLayout for TLC. *)
EXTENDS FileLayout
=============================================================================
