-------------------------- MODULE MCHalCompletions --------------------------
(* HalCompletions for TLC: two completions, c1 run in the interrupt handler *)
(* and c2 as a continuation, a clock of a few ticks and a SysTick that      *)
(* counts fewer of them, so that long delays take several interrupts.       *)
EXTENDS HalCompletions

CONSTANTS c1, c2
=============================================================================
