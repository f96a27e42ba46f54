--------------------------- MODULE DblLinkedList ---------------------------
(***************************************************************************)
(* The intrusive doubly linked list shared by the PAL and the CLR          *)
(* (HAL_DblLinkedList in tinyhal.h, CLR_RT_DblLinkedList in                *)
(* TinyCLR_Runtime__HeapBlock.h).  A list is the sequence of its nodes.    *)
(* A node carries one pair of links, so it is in at most one list, and at  *)
(* most once: every operation that links a node first removes it from      *)
(* wherever it is (RemoveFromList).                                        *)
(***************************************************************************)
EXTENDS Integers, Sequences, FiniteSets, SequencesExt

(* The nodes of list s, and what it means that s holds each node once.     *)
Nodes(s) == {s[i] : i \in 1 .. Len(s)}
Distinct(s) == \A i, j \in 1 .. Len(s) : s[i] = s[j] => i = j

(* The place of node e of s. *)
PosOf(s, e) == CHOOSE i \in 1 .. Len(s) : s[i] = e

(* HAL_DblLinkedNode::Unlink seen from list s: a node that is elsewhere,   *)
(* or in no list, leaves s as it is.                                       *)
Unlink(s, e) == IF e \in Nodes(s) THEN RemoveAt(s, PosOf(s, e)) ELSE s

(* LinkAtBack and LinkAtFront, for a node that may already be linked in s. *)
LinkAtBack(s, e) == Append(Unlink(s, e), e)
LinkAtFront(s, e) == <<e>> \o Unlink(s, e)

(* InsertBeforeNode, for a node e that is not linked: the new node takes   *)
(* place p, the node that was there and its successors move one place on;  *)
(* p = Len(s) + 1 is the tail sentinel.                                    *)
InsertBefore(s, p, e) == InsertAt(s, p, e)

(* What is left of s when an enumeration unlinks all nodes but those at    *)
(* the places P.                                                           *)
Keep(s, P) ==
  [k \in 1 .. Cardinality(P) |->
     s[CHOOSE i \in P : Cardinality({j \in P : j <= i}) = k]]

(* The nodes of s stand in the order of their keys. *)
OrderedBy(s, key) == \A i, j \in 1 .. Len(s) : i < j => key[s[i]] <= key[s[j]]
=============================================================================
