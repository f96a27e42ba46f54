----------------------------- MODULE LossyLink -----------------------------
(***************************************************************************)
(* What the framing of the wire protocol promises: messages arrive in the  *)
(* order they were sent and no more often than they were sent.  A fault of *)
(* the line damages at most the message it hits, and may make the receiver *)
(* spoil one more; otherwise a message is lost only when there is no       *)
(* memory for it.  A damaged message may still arrive, made whole with     *)
(* cells of another sending of it; that costs a fault as well.             *)
(***************************************************************************)
EXTENDS Naturals, Sequences, FiniteSets

CONSTANTS Message, NoMessage

VARIABLES
  queue,     \* the messages on their way, as [msg, whole], damaged ones too
  credit,    \* how many more may be spoilt because of faults
  received   \* the last message received; odd changes with every message

vars == <<queue, credit, received>>

Init == /\ queue = <<>> /\ credit = 0
        /\ received = [msg |-> NoMessage, odd |-> FALSE]

Send(m) == /\ queue' = Append(queue, [msg |-> m, whole |-> TRUE])
           /\ UNCHANGED <<credit, received>>

(* The messages at the places P are whole no more.                         *)
Spoilt(P) ==
  queue' = [i \in DOMAIN queue |-> [queue[i] EXCEPT !.whole = @ /\ i \notin P]]

Damage == /\ UNCHANGED queue \/ \E i \in DOMAIN queue : Spoilt({i})
          /\ credit' = credit + 1
          /\ UNCHANGED received

(* The first messages are taken for what is missing of damaged ones.       *)
Swallow == \E n \in DOMAIN queue :
             LET cost == Cardinality({i \in 1..n : queue[i].whole})
             IN /\ Spoilt(1..n)
                /\ cost <= credit /\ credit' = credit - cost
                /\ UNCHANGED received

(* There is no memory for the first message that is whole.                 *)
Refuse == \E n \in DOMAIN queue :
            /\ queue[n].whole /\ \A i \in 1..n - 1 : ~queue[i].whole
            /\ Spoilt({n})
            /\ UNCHANGED <<credit, received>>

(* A message arrives.  It passes damaged ones only, which never arrive.    *)
Receive == \E n \in DOMAIN queue :
             /\ \A i \in 1..n - 1 : ~queue[i].whole
             /\ received' = [msg |-> queue[n].msg, odd |-> ~received.odd]
             /\ queue' = SubSeq(queue, n + 1, Len(queue))
             /\ IF queue[n].whole THEN UNCHANGED credit
                                  ELSE credit > 0 /\ credit' = credit - 1

Next == Damage \/ Swallow \/ Refuse \/ Receive \/ \E m \in Message : Send(m)

Spec == Init /\ [][Next]_vars
=============================================================================
