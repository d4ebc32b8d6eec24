-------------------------- MODULE MCClientDatabase --------------------------
(* Instances of ClientDatabase for TLC. *)
EXTENDS ClientDatabase
=============================================================================
