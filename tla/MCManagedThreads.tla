-------------------------- MODULE MCManagedThreads --------------------------
(* Instances of ManagedThreads for TLC. *)
EXTENDS ManagedThreads, TLC

CONSTANTS t1, t2, t3, obj1, obj2, auto, manual

NoWaits == {}
BothEvents == {<<auto>>, <<manual, auto>>}
AutoAndJoin == {<<auto>>, <<t2>>}
ThreadSymmetry == Permutations({t1, t2, t3})
ObjectSymmetry == Permutations({obj1, obj2})
=============================================================================
