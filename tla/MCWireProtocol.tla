--------------------------- MODULE MCWireProtocol ---------------------------
(* An instance of WireProtocol for TLC. *)
EXTENDS WireProtocol

CONSTANTS short, long

(* Two cells tell apart the first bytes of a signature and the rest.       *)
SigA == <<<<"sig", 0>>, <<"sig", 1>>>>
SigB == <<<<"sig", 0>>, <<"sig", 2>>>>

MCSignatures == {SigA, SigB}
MCSignature == [m \in Message |-> IF m = short THEN SigB ELSE SigA]

(* One message has no payload, the other has one of two cells.             *)
PlainPayload ==
  [m \in Message |-> IF m = short THEN <<>> ELSE <<<<"data", 1>>, <<"data", 2>>>>]

(* The hypothesis of the refinement's proof holds here.                    *)
ASSUME ToldApart == CellsTold
=============================================================================
