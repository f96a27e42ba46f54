----------------------------- MODULE EventQueue -----------------------------
(***************************************************************************)
(* What the dispatching of interrupts promises: events are handled one     *)
(* after the other, in the order in which they came and each at most once. *)
(* An event that makes room for a new one is older than all but the last   *)
(* Capacity; one is discarded only where the discarding is accounted for.  *)
(***************************************************************************)
EXTENDS DblLinkedList

CONSTANT Capacity

VARIABLES
  waiting,    \* the events that wait, oldest first
  handling,   \* the event that is handled, 0 if none is
  newest,     \* the number of the last event
  discarded   \* the events that were discarded

vars == <<waiting, handling, newest, discarded>>

Init == waiting = <<>> /\ handling = 0 /\ newest = 0 /\ discarded = {}

Raise == /\ newest' = newest + 1
         /\ waiting' = Append(waiting, newest')
         /\ UNCHANGED <<handling, discarded>>

RaiseOverOldest ==
  /\ Len(waiting) >= Capacity
  /\ newest' = newest + 1
  /\ LET oldest == Len(waiting) - Capacity + 1
     IN /\ waiting' = Append(RemoveAt(waiting, oldest), newest')
        /\ discarded' = discarded \cup {waiting[oldest]}
  /\ UNCHANGED handling

Without(s, S) == Keep(s, {i \in 1..Len(s) : s[i] \notin S})

(* Events are discarded, and the next one is handled if none is.           *)
Discard(S) == /\ waiting' = Without(waiting, S)
              /\ discarded' = discarded \cup S
              /\ UNCHANGED <<handling, newest>>

Handle(S) == LET left == Without(waiting, S)
             IN /\ handling = 0 /\ left # <<>>
                /\ handling' = Head(left) /\ waiting' = Tail(left)
                /\ discarded' = discarded \cup S
                /\ UNCHANGED newest

(* The next event is handled as soon as one has been.                      *)
FinishAndHandle(S) ==
  LET left == Without(waiting, S)
  IN /\ handling # 0 /\ left # <<>>
     /\ handling' = Head(left) /\ waiting' = Tail(left)
     /\ discarded' = discarded \cup S
     /\ UNCHANGED newest

Finish(S) == /\ handling # 0 /\ handling' = 0
             /\ waiting' = Without(waiting, S)
             /\ discarded' = discarded \cup S
             /\ UNCHANGED newest

Next == \/ Raise \/ RaiseOverOldest
        \/ \E S \in SUBSET ToSet(waiting) :
             Discard(S) \/ Handle(S) \/ Finish(S) \/ FinishAndHandle(S)

Spec == Init /\ [][Next]_vars
=============================================================================
