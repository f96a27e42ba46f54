-------------------------- MODULE MCInterruptQueue --------------------------
(* Instances of InterruptQueue for TLC. *)
EXTENDS InterruptQueue

CONSTANTS edge, level
=============================================================================
