-------------------------- MODULE SurvivingObjects --------------------------
(***************************************************************************)
(* What extended weak references promise a program: every object has a     *)
(* value, and at any time either that value or nothing at all is what the  *)
(* program will find after a power loss.  A value the program has replaced *)
(* never comes back.                                                       *)
(***************************************************************************)
CONSTANTS Object, Value, NoValue

VARIABLES
  value,    \* what the program last gave every object
  stored    \* what would be found after a power loss

vars == <<value, stored>>

Init == /\ value = [o \in Object |-> NoValue]
        /\ stored = value

(* The program replaces the value, or drops the object: what was stored is *)
(* gone at once, the new value is stored later.                            *)
Set(o, v) ==
  /\ value' = [value EXCEPT ![o] = v]
  /\ stored' = [stored EXCEPT ![o] = NoValue]

(* The value is written in the background.                                 *)
Store(o) ==
  /\ value[o] # NoValue
  /\ stored' = [stored EXCEPT ![o] = value[o]]
  /\ UNCHANGED value

(* The storage is full, and an object has to give up its place.            *)
Discard(o) ==
  /\ stored' = [stored EXCEPT ![o] = NoValue]
  /\ UNCHANGED value

PowerLoss == value' = stored /\ UNCHANGED stored

Next == \/ PowerLoss
        \/ \E o \in Object : \/ Store(o) \/ Discard(o)
                             \/ \E v \in Value \cup {NoValue} : Set(o, v)

Spec == Init /\ [][Next]_vars
=============================================================================
