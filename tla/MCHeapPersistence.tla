------------------------- MODULE MCHeapPersistence -------------------------
(* An instance of HeapPersistence for TLC: two objects of different         *)
(* priority, and a bank with room for both and a little more.              *)
EXTENDS HeapPersistence

CONSTANTS o1, o2, v1

MCBursts == [v \in Value |-> 1]
DistinctPriority == [o \in Object |-> IF o = o1 THEN 2 ELSE 1]
=============================================================================
