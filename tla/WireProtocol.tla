---------------------------- MODULE WireProtocol ----------------------------
(***************************************************************************)
(* The receiver of the wire protocol (Support/WireProtocol/WireProtocol.cpp*)
(* and its port functions in CLR/Messaging/Messaging.cpp): the state       *)
(* machine of WP_Message::Process under bytes that are lost or damaged on  *)
(* the line.                                                               *)
(*                                                                         *)
(* A message is a row of cells: the signature, the rest of its header and  *)
(* its payload.  A cell stands for a few bytes that are compared together. *)
(* Both checksums are taken to be perfect: a header or payload verifies    *)
(* when its cells are those of a message.  Every cell also tells from      *)
(* which sending of which message it is, and its place in it; the receiver *)
(* never looks at that.                                                    *)
(*                                                                         *)
(* The answer to a bad packet is itself a message, in the other direction, *)
(* and changes nothing here.                                               *)
(***************************************************************************)
EXTENDS DblLinkedList

CONSTANTS
  Message, NoMessage,
  Signatures,      \* MARKER_DEBUGGER_V1 and MARKER_PACKET_V1, rows of cells
  Signature,       \* [Message -> Signatures]
  HeaderCells,     \* the cells of a header, its signature among them
  Payload,         \* [Message -> Seq(cells)]
  MaxLine,         \* bound of the cells on the line
  Transmissions,   \* 0..n: the numbers of sendings, used in turn; every fault
                   \* may keep two of them until the next message is received
  MaxFaults,       \* bound of the faults of line and memory
  Timeout,         \* c_PayloadTimeout, in ticks
  OtherPorts       \* whether the events of other ports call Process as well

SignatureCells == Len(CHOOSE s \in Signatures : TRUE)

ASSUME WireAssumption ==
  /\ Signatures # {} /\ SignatureCells \in Nat \ {0}
  /\ \A s \in Signatures : s \in Seq(Nodes(s)) /\ Len(s) = SignatureCells
  /\ NoMessage \notin Message
  /\ Signature \in [Message -> Signatures]
  /\ \A m \in Message : Payload[m] \in Seq(Nodes(Payload[m]))
  /\ HeaderCells \in Nat /\ HeaderCells > SignatureCells
  /\ IsFiniteSet(Transmissions) /\ Transmissions # {}
  /\ Transmissions = 0..Cardinality(Transmissions) - 1
  /\ MaxLine \in Nat /\ MaxFaults \in Nat /\ Timeout \in Nat \ {0}
  /\ OtherPorts \in BOOLEAN

Noise == <<"noise", 0>>

Header(m) ==
  Signature[m] \o [i \in 1..HeaderCells - SignatureCells |-> <<m, i>>]

Frame(m) == Header(m) \o Payload[m]

VARIABLES
  line,      \* the cells on their way, as [val, msg, of, at]
  sent,      \* the number of the last transmission
  rxState,   \* m_rxState
  header,    \* what m_header holds: the cells before m_pos
  payload,   \* what m_payload holds
  elapsed,   \* the ticks since m_payloadTicks
  faults,    \* how often the line or the memory has failed
  received,  \* the last message given to ProcessPayload
  transit,   \* the sendings since the last one received, as [msg, of, whole]
  credit     \* the cells lost or damaged, less the messages they spoilt

rest == <<sent, faults, received>>
link == <<transit, credit>>
vars == <<line, sent, rxState, header, payload, elapsed, faults, received, link>>

States == {"Initialize", "WaitingForHeader", "ReadingHeader", "CompleteHeader",
           "ReadingPayload", "CompletePayload"}

Values(s) == [i \in DOMAIN s |-> s[i].val]

(* A row of cells that may be the beginning of a message.                  *)
Starts(s) ==
  \E sig \in Signatures :
    \A i \in 1..Len(s) : i <= SignatureCells => s[i].val = sig[i]

DroppedTogether(s) == IF Starts(s) THEN s ELSE <<>>

(* The loop that drops cells from the front until what is left may be the  *)
(* beginning of a message; nothing at all is left at worst.                *)
Synched(s) ==
  LET from == CHOOSE i \in 1..Len(s) + 1 :
                /\ Starts(SubSeq(s, i, Len(s)))
                /\ \A j \in 1..i - 1 : ~Starts(SubSeq(s, j, Len(s)))
  IN SubSeq(s, from, Len(s))

(* The message whose header has been received, NoMessage when the header   *)
(* does not verify.                                                        *)
Verified(h) ==
  IF \E m \in Message : Values(h) = Header(m)
  THEN CHOOSE m \in Message : Values(h) = Header(m)
  ELSE NoMessage

Taken(n) == n <= Len(line) /\ line' = SubSeq(line, n + 1, Len(line))

ReadAll(wanted, n) == n > 0 /\ Taken(n)

(* Phy_ReceiveBytes reads what is there, at most what is wanted.  It       *)
(* succeeds when it has read something, or nothing was wanted.             *)
Read(wanted, n) == n <= wanted /\ (n = 0 <=> wanted = 0) /\ Taken(n)

Cells(n) == SubSeq(line, 1, n)

----------------------------------------------------------------------------
(* The sendings that lose a cell with the row s are whole no more.         *)
Touched(s) == {i \in DOMAIN transit : \E c \in Nodes(s) : c.of = transit[i].of}

Gone(s) ==
  transit' = [i \in DOMAIN transit |->
                [transit[i] EXCEPT !.whole = @ /\ i \notin Touched(s)]]

(* A message that was whole until then is one that another, damaged one    *)
(* has taken along.  A credit below zero is not counted further.           *)
Charge(n) == credit' = IF n > credit THEN -1 ELSE credit - n

Discard(s) == Gone(s) /\ Charge(Cardinality({i \in Touched(s) : transit[i].whole}))

(* The place in transit of the sending that the cell c is from.            *)
Place(c) ==
  CHOOSE n \in 0..Len(transit) :
    IF n = 0 THEN \A i \in DOMAIN transit : transit[i].of # c.of
             ELSE transit[n].of = c.of

(* The sending of cell c has arrived.                                      *)
Arrived(c) ==
  /\ transit' = SubSeq(transit, Place(c) + 1, Len(transit))
  /\ Charge(IF \E i \in DOMAIN transit : i = Place(c) /\ transit[i].whole THEN 0 ELSE 1)

Initialize ==
  /\ rxState = "Initialize" /\ rxState' = "WaitingForHeader"
  /\ header' = <<>> /\ payload' = <<>>
  /\ UNCHANGED <<rest, line, elapsed, link>>

WaitingForHeader ==
  /\ rxState = "WaitingForHeader"
  /\ \E n \in 0..HeaderCells :
       LET got == header \o Cells(n)
       IN /\ Read(HeaderCells - Len(header), n)
          /\ header' = Synched(got)
          /\ Discard(SubSeq(got, 1, Len(got) - Len(Synched(got))))
  /\ rxState' = IF Len(header') >= SignatureCells THEN "ReadingHeader" ELSE rxState
  /\ UNCHANGED <<rest, payload, elapsed>>

ReadingHeader ==
  /\ rxState = "ReadingHeader"
  /\ \E n \in 0..HeaderCells :
       /\ Read(HeaderCells - Len(header), n)
       /\ header' = header \o Cells(n)
  /\ rxState' = IF Len(header') = HeaderCells THEN "CompleteHeader" ELSE rxState
  /\ UNCHANGED <<rest, payload, elapsed, link>>

(* App_ProcessHeader has failed to get memory for the payload.             *)
Refuse ==
  /\ rxState = "CompleteHeader" /\ rxState' = "Initialize"
  /\ Verified(header) # NoMessage /\ Payload[Verified(header)] # <<>>
  /\ faults < MaxFaults /\ faults' = faults + 1
  /\ Gone(header)
  /\ UNCHANGED <<line, sent, header, payload, elapsed, received, credit>>

CompleteHeader ==
  /\ rxState = "CompleteHeader"
  /\ LET m == Verified(header)
     IN rxState' = IF m = NoMessage THEN "Initialize"
              ELSE IF Payload[m] = <<>> THEN "CompletePayload" ELSE "ReadingPayload"
  /\ elapsed' = 0
  /\ Discard(IF Verified(header) = NoMessage THEN header ELSE <<>>)
  /\ UNCHANGED <<line, sent, header, payload, faults, received>>

ReadingPayload ==
  /\ rxState = "ReadingPayload" /\ elapsed < Timeout
  /\ LET wanted == Len(Payload[Verified(header)]) - Len(payload)
     IN \E n \in 0..wanted :
          /\ Read(wanted, n)
          /\ payload' = payload \o Cells(n)
          /\ rxState' = IF n = wanted THEN "CompletePayload" ELSE rxState
  /\ elapsed' = 0
  /\ UNCHANGED <<sent, header, faults, received, link>>

(* Process finds nothing to read: the event was another port's.            *)
Poll ==
  /\ OtherPorts
  /\ rxState = "ReadingPayload" /\ elapsed < Timeout /\ line = <<>>
  /\ elapsed' = 0
  /\ UNCHANGED <<rest, line, rxState, header, payload, link>>

PayloadTimeout ==
  /\ rxState = "ReadingPayload" /\ elapsed >= Timeout
  /\ rxState' = "Initialize"
  /\ Discard(header \o payload)
  /\ UNCHANGED <<rest, line, header, payload, elapsed>>

VerifyPayload == Values(payload) = Payload[Verified(header)]

Deliver ==
  /\ rxState = "CompletePayload" /\ rxState' = "Initialize"
  /\ VerifyPayload
  /\ received' = [msg |-> Verified(header), odd |-> ~received.odd]
  /\ Arrived(header[HeaderCells])
  /\ UNCHANGED <<line, sent, header, payload, elapsed, faults>>

BadPayloadStays ==
  /\ rxState = "CompletePayload" /\ rxState' = "WaitingForHeader"
  /\ ~VerifyPayload
  /\ Discard(header \o payload)
  /\ UNCHANGED <<rest, line, header, payload, elapsed>>

BadPayload ==
  /\ rxState = "CompletePayload" /\ rxState' = "Initialize"
  /\ ~VerifyPayload
  /\ Discard(header \o payload)
  /\ UNCHANGED <<rest, line, header, payload, elapsed>>

(* One turn of the loop of Process.                                        *)
Process ==
  \/ Initialize \/ WaitingForHeader \/ ReadingHeader \/ CompleteHeader \/ Refuse
  \/ ReadingPayload \/ Poll \/ PayloadTimeout \/ Deliver \/ BadPayload

----------------------------------------------------------------------------
(* The cells of the message m, sent as number t.                           *)
Sending(m, t) ==
  [i \in DOMAIN Frame(m) |-> [val |-> Frame(m)[i], msg |-> m, of |-> t, at |-> i]]

(* The host sends a message, for the first time or again.                  *)
Send(m) ==
  LET t == (sent + 1) % Cardinality(Transmissions)
  IN /\ Len(line) + Len(Frame(m)) <= MaxLine
     /\ \A i \in DOMAIN transit : transit[i].of # t
     /\ line' = line \o Sending(m, t)
     /\ sent' = t
     /\ transit' = Append(transit, [msg |-> m, of |-> t, whole |-> TRUE])
     /\ UNCHANGED <<rxState, header, payload, elapsed, faults, received, credit>>

(* A cell is lost or damaged.                                              *)
Fault ==
  /\ faults < MaxFaults /\ faults' = faults + 1
  /\ \E i \in DOMAIN line :
       /\ line' \in {RemoveAt(line, i), [line EXCEPT ![i].val = Noise]}
       /\ Gone(<<line[i]>>)
  /\ credit' = credit + 1
  /\ UNCHANGED <<sent, rxState, header, payload, elapsed, received>>

(* Time passes while nothing arrives.  It matters between two cells of a   *)
(* payload.                                                                *)
Tick ==
  /\ rxState = "ReadingPayload" /\ line = <<>> /\ elapsed < Timeout
  /\ elapsed' = elapsed + 1
  /\ UNCHANGED <<line, sent, rxState, header, payload, faults, received, link>>

Init ==
  /\ line = <<>> /\ sent = 0
  /\ rxState = "Initialize" /\ header = <<>> /\ payload = <<>>
  /\ elapsed = 0 /\ faults = 0
  /\ transit = <<>> /\ credit = 0
  /\ received = [msg |-> NoMessage, odd |-> FALSE]

Next == Process \/ Fault \/ Tick \/ \E m \in Message : Send(m)

(* Bytes that wait raise an event, and the event runs Process.             *)
Fairness == WF_vars(Process)

Spec == Init /\ [][Next]_vars /\ Fairness

----------------------------------------------------------------------------
Cell == [val : {Noise} \cup UNION {Nodes(Frame(m)) : m \in Message},
         msg : Message, of : Transmissions, at : Nat]

(* What every buffer holds is bounded by the size it was given.            *)
TypeOK ==
  /\ line \in Seq(Cell) /\ header \in Seq(Cell) /\ payload \in Seq(Cell)
  /\ rxState \in States
  /\ Len(header) <= HeaderCells
  /\ rxState \in {"CompleteHeader", "ReadingPayload", "CompletePayload"} =>
       Len(header) = HeaderCells
  /\ rxState \in {"ReadingPayload", "CompletePayload"} =>
       /\ Verified(header) # NoMessage
       /\ Len(payload) <= Len(Payload[Verified(header)])
  /\ elapsed \in 0..Timeout
  /\ faults \in 0..MaxFaults
  /\ received \in [msg : Message \cup {NoMessage}, odd : BOOLEAN]
  /\ sent \in Transmissions /\ credit \in Nat \cup {-1}
  /\ transit \in Seq([msg : Message, of : Transmissions, whole : BOOLEAN])

(* No cell can be taken for one of another place: only the first cell of a *)
(* message is the first cell of a signature, only a header has the cells   *)
(* of a header, and noise is none of them.                                 *)
CellsTold ==
  /\ \A sig \in Signatures : sig[1] # Noise
  /\ \A m \in Message : \A i \in 1..Len(Frame(m)) :
       /\ Frame(m)[i] # Noise
       /\ \A sig \in Signatures : Frame(m)[i] = sig[1] => i = 1
       /\ \A n \in Message, k \in 1..HeaderCells - SignatureCells :
            Frame(m)[i] = <<n, k>> => m = n /\ i = SignatureCells + k

(* What is on its way, for LossyLink.                                      *)
InTransit ==
  [i \in DOMAIN transit |-> [msg |-> transit[i].msg, whole |-> transit[i].whole]]

Link == INSTANCE LossyLink WITH queue <- InTransit

(* The receiver implements the lossy link: no message arrives damaged,     *)
(* twice or out of order, and a message that is whole is lost only for a   *)
(* cell that was lost or damaged before it, one message for one cell.      *)
ImplementsLink == Link!Spec

(* The receiver finds the beginning of a message again: while bytes keep   *)
(* coming and the line is clean, messages keep arriving.                   *)
ReceivedAgain ==
  <>[][~Fault /\ ~Refuse]_vars /\ []<>(line # <<>>) => []<><<Deliver>>_vars
=============================================================================
