---------------------------- MODULE MCRoundRobin ----------------------------
(* Instances of RoundRobin for TLC. *)
EXTENDS RoundRobin

CONSTANTS t1, t2, t3, SystemHighest

(* GetQuantumDebit *)
PowersOfTwo == [p \in Priority |-> 2 ^ (SystemHighest - p)]
=============================================================================
