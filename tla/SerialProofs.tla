---------------------------- MODULE SerialProofs ----------------------------
(***************************************************************************)
(* The serial line of the debugger and the protocol over it, for any       *)
(* messages, queues and numbers of faults.                                 *)
(*                                                                         *)
(* WireProtocol: the buffers of the receiver never hold more than they     *)
(* were made for, and when no cell can be taken for one of another place,  *)
(* the receiver implements LossyLink.  The stream, what the receiver holds *)
(* and what is on the line together, is a thinned row of the sendings in   *)
(* transit; every cell that is missing in it was paid for by a fault.      *)
(*                                                                         *)
(* Usart: data in the receive queue is always announced, the two sides     *)
(* agree on who may send, and no character is lost.                        *)
(***************************************************************************)
EXTENDS WireProtocol, Usart, DblLinkedListProofs

(* A function from the first places is a row. *)
LEMMA Rows ==
  ASSUME NEW C, NEW n \in Nat, NEW f \in [1..n -> C]
  PROVE  f \in Seq(C) /\ Len(f) = n
OBVIOUS

(* The front of a row of cells, and the rest.                              *)
LEMMA Pieces ==
  ASSUME NEW C, NEW s \in Seq(C), NEW n \in 0..Len(s)
  PROVE  /\ SubSeq(s, 1, n) \in Seq(C) /\ Len(SubSeq(s, 1, n)) = n
         /\ \A i \in 1..n : SubSeq(s, 1, n)[i] = s[i]
         /\ SubSeq(s, n + 1, Len(s)) \in Seq(C)
         /\ Len(SubSeq(s, n + 1, Len(s))) = Len(s) - n
         /\ \A i \in 1..Len(s) - n : SubSeq(s, n + 1, Len(s))[i] = s[n + i]
<1>1. Len(s) \in Nat /\ n \in Int /\ n + 1 \in Int /\ \A i \in 1..Len(s) : s[i] \in C
  OBVIOUS
<1>2. \A i \in 1..n : s[i] \in C
  BY <1>1
<1>3. /\ SubSeq(s, 1, n) \in Seq(C)
      /\ Len(SubSeq(s, 1, n)) = IF 1 <= n THEN n - 1 + 1 ELSE 0
      /\ \A i \in 1..n - 1 + 1 : SubSeq(s, 1, n)[i] = s[1 + i - 1]
  BY <1>1, <1>2, SubSeqProperties
<1>4. \A i \in n + 1..Len(s) : s[i] \in C
  BY <1>1
<1>5. /\ SubSeq(s, n + 1, Len(s)) \in Seq(C)
      /\ Len(SubSeq(s, n + 1, Len(s))) = IF n + 1 <= Len(s) THEN Len(s) - (n + 1) + 1 ELSE 0
      /\ \A i \in 1..Len(s) - (n + 1) + 1 : SubSeq(s, n + 1, Len(s))[i] = s[n + 1 + i - 1]
  BY <1>1, <1>4, SubSeqProperties
<1>6. QED
  BY <1>1, <1>3, <1>5

(* A header has as many cells as it should, whatever the message.          *)
LEMMA Frames ==
  ASSUME NEW m \in Message
  PROVE  /\ Len(Header(m)) = HeaderCells /\ Payload[m] \in Seq(Nodes(Payload[m]))
         /\ Frame(m) \in Seq(Nodes(Frame(m)))
         /\ Len(Payload[m]) \in Nat /\ Len(Frame(m)) = HeaderCells + Len(Payload[m])
         /\ DOMAIN Frame(m) = 1..Len(Frame(m))
         /\ \A i \in 1..HeaderCells : Frame(m)[i] = Header(m)[i]
         /\ \A i \in 1..Len(Payload[m]) : Frame(m)[HeaderCells + i] = Payload[m][i]
         /\ \A i \in 1..SignatureCells : Header(m)[i] = Signature[m][i]
         /\ \A i \in 1..HeaderCells - SignatureCells : Header(m)[SignatureCells + i] = <<m, i>>
         /\ Header(m) = [k \in 1..HeaderCells |-> Header(m)[k]]
<1> DEFINE sig == Signature[m]
           own == [i \in 1..HeaderCells - SignatureCells |-> <<m, i>>]
           O == {own[i] : i \in 1..HeaderCells - SignatureCells}
           A == Nodes(sig) \cup O
           p == Payload[m]
           B == A \cup Nodes(p)
<1>1. /\ SignatureCells \in Nat \ {0} /\ HeaderCells \in Nat /\ HeaderCells > SignatureCells
      /\ sig \in Seq(Nodes(sig)) /\ Len(sig) = SignatureCells
      /\ p \in Seq(Nodes(p))
  BY WireAssumption
<1>2. own \in Seq(O) /\ Len(own) = HeaderCells - SignatureCells
  <2>1. HeaderCells - SignatureCells \in Nat
    BY <1>1
  <2>2. own \in [1..HeaderCells - SignatureCells -> O]
    OBVIOUS
  <2>3. QED
    BY <2>1, <2>2, Rows
<1>3. sig \in Seq(A) /\ own \in Seq(A)
  <2>1. Nodes(sig) \subseteq A /\ O \subseteq A
    OBVIOUS
  <2> HIDE DEF A, O, own, sig
  <2>2. QED
    BY <1>1, <1>2, <2>1, SeqMonotonic
<1>4. \A i \in 1..HeaderCells - SignatureCells : own[i] = <<m, i>>
  OBVIOUS
<1> HIDE DEF own, sig, A, O, p
<1>5. /\ sig \o own \in Seq(A) /\ Len(sig \o own) = Len(sig) + Len(own)
      /\ \A i \in 1..Len(sig) + Len(own) :
           (sig \o own)[i] = IF i <= Len(sig) THEN sig[i] ELSE own[i - Len(sig)]
  BY <1>3, ConcatProperties
<1>6. Header(m) = sig \o own
  BY DEF Header, sig, own
<1>7. /\ Header(m) \in Seq(A) /\ Len(Header(m)) = HeaderCells
      /\ \A i \in 1..SignatureCells : Header(m)[i] = sig[i]
      /\ \A i \in 1..HeaderCells - SignatureCells : Header(m)[SignatureCells + i] = own[i]
  BY <1>1, <1>2, <1>5, <1>6
<1>8. Header(m) \in Seq(B) /\ p \in Seq(B)
  <2>1. A \subseteq B /\ Nodes(p) \subseteq B
    OBVIOUS
  <2> HIDE DEF B
  <2>2. QED
    BY <1>1, <1>7, <2>1, SeqMonotonic
<1> HIDE DEF B
<1>9. Frame(m) = Header(m) \o p
  BY DEF Frame, p
<1>10. /\ Frame(m) \in Seq(B) /\ Len(Frame(m)) = Len(Header(m)) + Len(p)
       /\ \A i \in 1..Len(Header(m)) + Len(p) :
            Frame(m)[i] = IF i <= Len(Header(m)) THEN Header(m)[i] ELSE p[i - Len(Header(m))]
  BY <1>8, <1>9, ConcatProperties
<1>11. Len(p) \in Nat
  BY <1>1
<1>12. Frame(m) \in Seq(Nodes(Frame(m))) /\ DOMAIN Frame(m) = 1..Len(Frame(m))
  <2>1. /\ Len(Frame(m)) \in Nat /\ DOMAIN Frame(m) = 1..Len(Frame(m))
        /\ Frame(m) = [i \in 1..Len(Frame(m)) |-> Frame(m)[i]]
    BY <1>10
  <2>2. Frame(m) \in [1..Len(Frame(m)) -> Nodes(Frame(m))]
    BY <2>1 DEF Nodes
  <2>3. QED
    BY <2>1, <2>2
<1>13. /\ \A i \in 1..HeaderCells : Frame(m)[i] = Header(m)[i]
       /\ \A i \in 1..Len(p) : Frame(m)[HeaderCells + i] = p[i]
       /\ Len(Frame(m)) = HeaderCells + Len(p)
  BY <1>1, <1>7, <1>10, <1>11
<1>14. Header(m) = [k \in 1..HeaderCells |-> Header(m)[k]]
  BY <1>7
<1>15. QED
  BY <1>1, <1>7, <1>4, <1>11, <1>12, <1>13, <1>14 DEF p, sig

(* No message is shorter than its header.                                  *)
LEMMA FrameLength ==
  \A m \in Message : /\ Len(Frame(m)) \in Nat /\ HeaderCells <= Len(Frame(m))
                     /\ 1 <= Len(Frame(m)) /\ HeaderCells \in Nat \ {0}
<1> SUFFICES ASSUME NEW m \in Message
             PROVE  /\ Len(Frame(m)) \in Nat /\ HeaderCells <= Len(Frame(m))
                    /\ 1 <= Len(Frame(m)) /\ HeaderCells \in Nat \ {0}
  OBVIOUS
<1>1. HeaderCells \in Nat \ {0}
  BY WireAssumption
<1>2. Len(Payload[m]) \in Nat /\ Len(Frame(m)) = HeaderCells + Len(Payload[m])
  BY Frames
<1>3. QED
  BY <1>1, <1>2

(* What a cell tells.                                                      *)
LEMMA CellFields ==
  /\ \A c \in Cell : c.msg \in Message /\ c.of \in Transmissions /\ c.at \in Nat
  /\ \A m \in Message, t \in Transmissions :
       /\ Sending(m, t) \in Seq(Cell) /\ Len(Sending(m, t)) = Len(Frame(m))
       /\ \A i \in 1..Len(Frame(m)) :
            /\ Sending(m, t)[i] \in Cell
            /\ Sending(m, t)[i] = [val |-> Frame(m)[i], msg |-> m, of |-> t, at |-> i]
  /\ \A c \in Cell : [c EXCEPT !.val = Noise] \in Cell
<1>1. \A c \in Cell : c.msg \in Message /\ c.of \in Transmissions /\ c.at \in Nat
  BY DEF Cell
<1>2. ASSUME NEW m \in Message, NEW t \in Transmissions
      PROVE  /\ Sending(m, t) \in Seq(Cell) /\ Len(Sending(m, t)) = Len(Frame(m))
             /\ \A i \in 1..Len(Frame(m)) :
                  /\ Sending(m, t)[i] \in Cell
                  /\ Sending(m, t)[i] = [val |-> Frame(m)[i], msg |-> m, of |-> t, at |-> i]
  <2>1. DOMAIN Frame(m) = 1..Len(Frame(m)) /\ Len(Frame(m)) \in Nat
    <3>1. HeaderCells \in Nat
      BY WireAssumption
    <3>2. QED
      BY <3>1, Frames
  <2>2. \A i \in 1..Len(Frame(m)) : [val |-> Frame(m)[i], msg |-> m, of |-> t, at |-> i] \in Cell
    <3> SUFFICES ASSUME NEW i \in 1..Len(Frame(m))
                 PROVE  [val |-> Frame(m)[i], msg |-> m, of |-> t, at |-> i] \in Cell
      OBVIOUS
    <3>1. Frame(m)[i] \in UNION {Nodes(Frame(n)) : n \in Message}
      BY DEF Nodes
    <3>2. i \in Nat
      BY <2>1
    <3>3. QED
      BY <3>1, <3>2 DEF Cell
  <2>3. /\ DOMAIN Sending(m, t) = 1..Len(Frame(m))
        /\ \A i \in 1..Len(Frame(m)) :
             Sending(m, t)[i] = [val |-> Frame(m)[i], msg |-> m, of |-> t, at |-> i]
    BY <2>1 DEF Sending
  <2>4. Sending(m, t) \in [1..Len(Frame(m)) -> Cell]
    BY <2>1, <2>2 DEF Sending
  <2>5. Sending(m, t) \in Seq(Cell) /\ Len(Sending(m, t)) = Len(Frame(m))
    BY <2>1, <2>4, Rows
  <2>6. QED
    BY <2>2, <2>3, <2>5
<1>3. \A c \in Cell : [c EXCEPT !.val = Noise] \in Cell
  BY DEF Cell
<1>4. QED
  BY <1>1, <1>2, <1>3

----------------------------------------------------------------------------
Item == [msg : Message, of : Transmissions, whole : BOOLEAN]

(* The loop that looks for a signature drops nothing after the first       *)
(* beginning of a message.                                                 *)
LEMMA SynchedIs ==
  ASSUME NEW s \in Seq(Cell)
  PROVE  \E d \in 0..Len(s) :
           /\ Synched(s) = SubSeq(s, d + 1, Len(s)) /\ Starts(Synched(s))
           /\ Synched(s) \in Seq(Cell) /\ Len(Synched(s)) = Len(s) - d
           /\ \A j \in 1..d : ~Starts(SubSeq(s, j, Len(s)))
<1> DEFINE n == Len(s)
           P == {i \in 1..n + 1 : Starts(SubSeq(s, i, n))}
           Right(i) == /\ Starts(SubSeq(s, i, n))
                       /\ \A j \in 1..i - 1 : ~Starts(SubSeq(s, j, n))
<1>1. n \in Nat
  OBVIOUS
<1>2. n + 1 \in P
  <2>1. Len(SubSeq(s, n + 1, n)) = 0
    BY <1>1, Pieces
  <2>2. PICK sig \in Signatures : TRUE
    BY WireAssumption
  <2>3. \A i \in 1..Len(SubSeq(s, n + 1, n)) : FALSE
    BY <2>1
  <2>4. Starts(SubSeq(s, n + 1, n))
    BY <2>2, <2>3 DEF Starts
  <2>5. QED
    BY <1>1, <2>4
<1>3. PICK f \in P : \A i \in P : f <= i
  <2>1. P \in SUBSET Nat /\ P # {}
    BY <1>1, <1>2
  <2> HIDE DEF P
  <2>2. QED
    BY <2>1, LeastPosition
<1>4. f \in 1..n + 1 /\ Right(f)
  BY <1>1, <1>3
<1> DEFINE from == CHOOSE i \in 1..n + 1 : Right(i)
<1>5. from \in 1..n + 1 /\ Right(from)
  <2> HIDE DEF Right
  <2>1. QED
    BY <1>4
<1>6. Synched(s) = SubSeq(s, from, n)
  BY DEF Synched
<1> HIDE DEF from
<1>7. PICK d \in 0..n : from = d + 1
  BY <1>1, <1>5
<1>8. Starts(SubSeq(s, d + 1, n)) /\ \A j \in 1..d : ~Starts(SubSeq(s, j, n))
  BY <1>5, <1>7
<1>9. QED
  BY <1>6, <1>7, <1>8, Pieces

(* Phy_ReceiveBytes takes the cells from the front of the line.            *)
LEMMA ReadTakes ==
  ASSUME line \in Seq(Cell), NEW w, NEW n \in Nat, Read(w, n)
  PROVE  /\ n \in 0..Len(line) /\ n <= w /\ (n = 0 <=> w = 0)
         /\ Cells(n) \in Seq(Cell) /\ Len(Cells(n)) = n
         /\ \A i \in 1..n : Cells(n)[i] = line[i]
         /\ line' \in Seq(Cell) /\ Len(line') = Len(line) - n
         /\ \A i \in 1..Len(line) - n : line'[i] = line[n + i]
<1>1. /\ n <= Len(line) /\ line' = SubSeq(line, n + 1, Len(line))
      /\ n <= w /\ (n = 0 <=> w = 0)
  BY DEF Read, Taken
<1>2. n \in 0..Len(line)
  BY <1>1
<1>3. QED
  BY <1>1, <1>2, Pieces DEF Cells

(* A header verifies when it is the one of a message.                      *)
LEMMA VerifiedIs ==
  ASSUME NEW h
  PROVE  /\ Verified(h) # NoMessage => Verified(h) \in Message /\ Values(h) = Header(Verified(h))
         /\ \A m \in Message : Values(h) = Header(m) => Verified(h) # NoMessage
<1>1. NoMessage \notin Message
  BY WireAssumption
<1>2. CASE \E m \in Message : Values(h) = Header(m)
  <2> DEFINE v == CHOOSE m \in Message : Values(h) = Header(m)
  <2>1. v \in Message /\ Values(h) = Header(v)
    BY <1>2
  <2>2. Verified(h) = v
    BY <1>2 DEF Verified
  <2>3. QED
    BY <1>1, <2>1, <2>2
<1>3. CASE ~\E m \in Message : Values(h) = Header(m)
  BY <1>3 DEF Verified
<1>4. QED
  BY <1>2, <1>3

----------------------------------------------------------------------------
(* What becomes of the sendings in transit, and of the credit.             *)
Marked(T, U, P) ==
  /\ U \in Seq(Item) /\ Len(U) = Len(T)
  /\ \A i \in 1..Len(T) : /\ U[i].msg = T[i].msg /\ U[i].of = T[i].of
                          /\ U[i].whole = (T[i].whole /\ i \notin P)

(* Gone changes nothing of the sendings but whether they are whole.        *)
LEMMA GoneMarks ==
  ASSUME transit \in Seq(Item), NEW s, Gone(s)
  PROVE  /\ Marked(transit, transit', Touched(s))
         /\ Touched(s) \subseteq 1..Len(transit)
<1> DEFINE n == Len(transit)
           mark(i) == [transit[i] EXCEPT !.whole = @ /\ i \notin Touched(s)]
<1>1. n \in Nat /\ DOMAIN transit = 1..n /\ \A i \in 1..n : transit[i] \in Item
  OBVIOUS
<1>2. Touched(s) \subseteq 1..n
  BY <1>1 DEF Touched
<1>3. transit' = [i \in 1..n |-> mark(i)]
  BY <1>1 DEF Gone
<1>4. ASSUME NEW i \in 1..n
      PROVE  /\ mark(i) \in Item /\ mark(i).msg = transit[i].msg /\ mark(i).of = transit[i].of
             /\ mark(i).whole = (transit[i].whole /\ i \notin Touched(s))
  BY <1>1, <1>4 DEF Item
<1> HIDE DEF mark
<1>5. transit' \in [1..n -> Item] /\ \A i \in 1..n : transit'[i] = mark(i)
  BY <1>3, <1>4
<1>6. transit' \in Seq(Item) /\ Len(transit') = n
  BY <1>1, <1>5, Rows
<1>7. QED
  BY <1>2, <1>4, <1>5, <1>6 DEF Marked

(* What Charge leaves of the credit.                                       *)
LEMMA Charged ==
  ASSUME NEW n \in Nat, credit \in Nat \cup {-1}, Charge(n)
  PROVE  credit' \in Nat \cup {-1} /\ (n <= credit => credit' = credit - n)
BY DEF Charge

(* The number of messages that are spoilt is a number.                     *)
LEMMA Costs ==
  ASSUME NEW n \in Nat, NEW P \in SUBSET (1..n)
  PROVE  IsFiniteSet(P) /\ Cardinality(P) \in 0..n
<1>1. IsFiniteSet(1..n) /\ Cardinality(1..n) = n
  BY FS_Interval
<1>2. IsFiniteSet(P) /\ Cardinality(P) <= n /\ Cardinality(P) \in Nat
  BY <1>1, FS_Subset, FS_CardinalityType
<1>3. QED
  BY <1>2

(* Discarding cells keeps the types of what is in transit.                 *)
LEMMA DiscardTypes ==
  ASSUME transit \in Seq(Item), credit \in Nat \cup {-1}, NEW s, Discard(s)
  PROVE  transit' \in Seq(Item) /\ credit' \in Nat \cup {-1}
<1> DEFINE P == {i \in Touched(s) : transit[i].whole}
<1>1. Len(transit) \in Nat
  OBVIOUS
<1>2. Gone(s) /\ Charge(Cardinality(P))
  BY DEF Discard
<1>3. transit' \in Seq(Item) /\ P \in SUBSET (1..Len(transit))
  BY <1>2, GoneMarks DEF Marked
<1> HIDE DEF P
<1>4. Cardinality(P) \in Nat
  BY <1>1, <1>3, Costs
<1>5. QED
  BY <1>2, <1>3, <1>4, Charged

(* The place of a sending is found, if it is in transit.                   *)
LEMMA PlaceIs ==
  ASSUME transit \in Seq(Item), NEW c
  PROVE  /\ Place(c) \in 0..Len(transit)
         /\ Place(c) # 0 => transit[Place(c)].of = c.of
         /\ Place(c) = 0 => \A i \in 1..Len(transit) : transit[i].of # c.of
<1> DEFINE Right(n) == IF n = 0 THEN \A i \in DOMAIN transit : transit[i].of # c.of
                                ELSE transit[n].of = c.of
<1>1. Len(transit) \in Nat /\ DOMAIN transit = 1..Len(transit)
  OBVIOUS
<1>2. \E n \in 0..Len(transit) : Right(n)
  <2>1. CASE \E n \in 1..Len(transit) : transit[n].of = c.of
    <3>1. PICK n \in 1..Len(transit) : transit[n].of = c.of
      BY <2>1
    <3>2. n \in 0..Len(transit) /\ n # 0
      BY <1>1
    <3>3. QED
      BY <3>1, <3>2
  <2>2. CASE \A n \in 1..Len(transit) : transit[n].of # c.of
    <3>1. 0 \in 0..Len(transit)
      BY <1>1
    <3>2. QED
      BY <1>1, <2>2, <3>1
  <2>3. QED
    BY <2>1, <2>2
<1>3. Place(c) \in 0..Len(transit) /\ Right(Place(c))
  <2>1. Place(c) = CHOOSE n \in 0..Len(transit) : Right(n)
    BY DEF Place
  <2> HIDE DEF Right
  <2>2. QED
    BY <1>2, <2>1
<1>4. QED
  BY <1>1, <1>3

(* So does an arrival, which takes sendings off the front.                 *)
LEMMA ArrivedTypes ==
  ASSUME transit \in Seq(Item), credit \in Nat \cup {-1}, NEW c, Arrived(c)
  PROVE  /\ Place(c) \in 0..Len(transit)
         /\ transit' \in Seq(Item) /\ Len(transit') = Len(transit) - Place(c)
         /\ \A i \in 1..Len(transit) - Place(c) : transit'[i] = transit[Place(c) + i]
         /\ credit' \in Nat \cup {-1}
<1>1. Place(c) \in 0..Len(transit)
  BY PlaceIs
<1>2. /\ transit' = SubSeq(transit, Place(c) + 1, Len(transit))
      /\ Charge(IF \E i \in DOMAIN transit : i = Place(c) /\ transit[i].whole THEN 0 ELSE 1)
  BY DEF Arrived
<1>3. PICK n \in 0..1 : Charge(n)
  BY <1>2
<1>4. credit' \in Nat \cup {-1}
  BY <1>3, Charged
<1>5. QED
  BY <1>1, <1>2, <1>4, Pieces

----------------------------------------------------------------------------
(* What the buffers hold in the states of the receiver.                    *)
Phases ==
  /\ rxState \in {"WaitingForHeader", "ReadingHeader", "CompleteHeader"} => payload = <<>>
  /\ rxState # "Initialize" => Starts(header)
  /\ rxState = "ReadingHeader" => SignatureCells <= Len(header)
  /\ rxState = "ReadingPayload" => Len(payload) < Len(Payload[Verified(header)])
  /\ rxState = "CompletePayload" => Len(payload) = Len(Payload[Verified(header)])

(* TypeOK in parts: the line, what has been received, and the rest.        *)
LineType == line \in Seq(Cell)

BufferTypes ==
  /\ header \in Seq(Cell) /\ payload \in Seq(Cell)
  /\ rxState \in States
  /\ Len(header) <= HeaderCells
  /\ rxState \in {"CompleteHeader", "ReadingPayload", "CompletePayload"} =>
       Len(header) = HeaderCells
  /\ rxState \in {"ReadingPayload", "CompletePayload"} => Verified(header) # NoMessage

CounterTypes ==
  /\ elapsed \in 0..Timeout /\ faults \in 0..MaxFaults
  /\ received \in [msg : Message \cup {NoMessage}, odd : BOOLEAN]
  /\ sent \in Transmissions

LinkTypes == credit \in Nat \cup {-1} /\ transit \in Seq(Item)

Types == LineType /\ BufferTypes /\ CounterTypes /\ LinkTypes /\ Phases

(* The parts are what TypeOK says.                                         *)
LEMMA TypesImply == Types => TypeOK
<1> SUFFICES ASSUME Types PROVE TypeOK
  OBVIOUS
<1>1. /\ line \in Seq(Cell) /\ header \in Seq(Cell) /\ payload \in Seq(Cell) /\ rxState \in States
      /\ Len(header) <= HeaderCells
      /\ rxState \in {"CompleteHeader", "ReadingPayload", "CompletePayload"} =>
       Len(header) = HeaderCells
  BY DEF Types, LineType, BufferTypes
<1>2. rxState \in {"ReadingPayload", "CompletePayload"} =>
        /\ Verified(header) # NoMessage /\ Len(payload) <= Len(Payload[Verified(header)])
  <2> SUFFICES ASSUME rxState \in {"ReadingPayload", "CompletePayload"}
               PROVE  /\ Verified(header) # NoMessage
                      /\ Len(payload) <= Len(Payload[Verified(header)])
    OBVIOUS
  <2>1. Verified(header) # NoMessage /\ Len(payload) \in Nat
    BY DEF Types, BufferTypes
  <2>2. Len(Payload[Verified(header)]) \in Nat
    BY <2>1, VerifiedIs, Frames
  <2>3. \/ Len(payload) < Len(Payload[Verified(header)])
        \/ Len(payload) = Len(Payload[Verified(header)])
    BY DEF Types, Phases
  <2>4. QED
    BY <2>1, <2>2, <2>3
<1>3. /\ elapsed \in 0..Timeout /\ faults \in 0..MaxFaults
      /\ received \in [msg : Message \cup {NoMessage}, odd : BOOLEAN]
      /\ sent \in Transmissions /\ credit \in Nat \cup {-1}
      /\ transit \in Seq([msg : Message, of : Transmissions, whole : BOOLEAN])
  BY DEF Types, CounterTypes, LinkTypes, Item
<1>4. QED
  BY <1>1, <1>2, <1>3 DEF TypeOK

(* More cells behind a whole signature do not change it.                   *)
LEMMA StartsStay ==
  ASSUME NEW s \in Seq(Cell), NEW r \in Seq(Cell), Starts(s), SignatureCells <= Len(s)
  PROVE  Starts(s \o r)
<1>1. PICK sig \in Signatures : \A i \in 1..Len(s) : i <= SignatureCells => s[i].val = sig[i]
  BY DEF Starts
<1>2. /\ Len(s \o r) = Len(s) + Len(r) /\ Len(s) \in Nat /\ Len(r) \in Nat
      /\ \A i \in 1..Len(s) + Len(r) : (s \o r)[i] = IF i <= Len(s) THEN s[i] ELSE r[i - Len(s)]
  BY ConcatProperties
<1>3. SignatureCells \in Nat
  BY WireAssumption
<1>4. ASSUME NEW i \in 1..Len(s \o r), i <= SignatureCells
      PROVE  (s \o r)[i].val = sig[i]
  <2>1. i \in 1..Len(s) /\ (s \o r)[i] = s[i]
    BY <1>2, <1>3, <1>4
  <2>2. QED
    BY <1>1, <1>4, <2>1
<1>5. QED
  BY <1>4 DEF Starts

(* Nothing at all may be the beginning of a message.                       *)
LEMMA NothingStarts == Starts(<<>>) /\ <<>> \in Seq(Cell)
<1>1. PICK sig \in Signatures : TRUE
  BY WireAssumption
<1>2. QED
  BY <1>1 DEF Starts

(* WaitingForHeader never holds more than a header.                        *)
LEMMA ResyncTypes == Types /\ WaitingForHeader => Types'
<1> SUFFICES ASSUME Types, WaitingForHeader PROVE Types'
  OBVIOUS
<1>1. /\ line \in Seq(Cell) /\ header \in Seq(Cell) /\ payload = <<>>
      /\ Len(header) <= HeaderCells /\ HeaderCells \in Nat /\ SignatureCells \in Nat
  BY WireAssumption DEF Types, LineType, BufferTypes, Phases, WaitingForHeader
<1>2. PICK n \in 0..HeaderCells :
        /\ Read(HeaderCells - Len(header), n)
        /\ header' = Synched(header \o Cells(n))
        /\ Discard(SubSeq(header \o Cells(n), 1,
                          Len(header \o Cells(n)) - Len(Synched(header \o Cells(n)))))
  BY DEF WaitingForHeader
<1>3. /\ Cells(n) \in Seq(Cell) /\ Len(Cells(n)) = n /\ n <= HeaderCells - Len(header)
      /\ line' \in Seq(Cell)
  BY <1>1, <1>2, ReadTakes
<1>4. header \o Cells(n) \in Seq(Cell) /\ Len(header \o Cells(n)) = Len(header) + n
  BY <1>1, <1>3, ConcatProperties
<1>5. PICK d \in 0..Len(header \o Cells(n)) :
        /\ Starts(header') /\ header' \in Seq(Cell)
        /\ Len(header') = Len(header \o Cells(n)) - d
  BY <1>2, <1>4, SynchedIs
<1>6. Len(header') <= HeaderCells /\ Len(header) \in Nat
  BY <1>1, <1>3, <1>4, <1>5
<1>7. LinkTypes'
  BY <1>2, DiscardTypes DEF Types, LinkTypes
<1>8. /\ rxState' = IF Len(header') >= SignatureCells THEN "ReadingHeader" ELSE "WaitingForHeader"
      /\ UNCHANGED <<sent, faults, received, payload, elapsed>>
  BY DEF WaitingForHeader, rest
<1>9. CounterTypes'
  BY <1>8 DEF Types, CounterTypes
<1>10. BufferTypes'
  <2>1. payload' \in Seq(Cell)
    BY <1>8 DEF Types, BufferTypes
  <2>2. QED
    BY <1>5, <1>6, <1>8, <2>1 DEF BufferTypes, States
<1>11. Phases'
  <2>1. payload' = <<>>
    BY <1>1, <1>8
  <2>2. QED
    BY <1>1, <1>5, <1>8, <2>1 DEF Phases
<1>12. QED
  BY <1>3, <1>7, <1>9, <1>10, <1>11 DEF Types, LineType

(* Nor does ReadingHeader, which is done when it has one.                  *)
LEMMA HeaderTypes == Types /\ ReadingHeader => Types'
<1> SUFFICES ASSUME Types, ReadingHeader PROVE Types'
  OBVIOUS
<1>1. /\ line \in Seq(Cell) /\ header \in Seq(Cell) /\ payload = <<>>
      /\ Len(header) <= HeaderCells /\ HeaderCells \in Nat /\ SignatureCells \in Nat
      /\ SignatureCells <= Len(header) /\ Starts(header) /\ Len(header) \in Nat
  BY WireAssumption DEF Types, LineType, BufferTypes, Phases, ReadingHeader
<1>2. PICK n \in 0..HeaderCells :
        Read(HeaderCells - Len(header), n) /\ header' = header \o Cells(n)
  BY DEF ReadingHeader
<1>3. /\ Cells(n) \in Seq(Cell) /\ Len(Cells(n)) = n /\ n <= HeaderCells - Len(header)
      /\ line' \in Seq(Cell)
  BY <1>1, <1>2, ReadTakes
<1>4. header' \in Seq(Cell) /\ Len(header') = Len(header) + n
  BY <1>1, <1>2, <1>3, ConcatProperties
<1>5. Starts(header')
  BY <1>1, <1>2, <1>3, StartsStay
<1>6. /\ rxState' = IF Len(header') = HeaderCells THEN "CompleteHeader" ELSE "ReadingHeader"
      /\ UNCHANGED <<sent, faults, received, payload, elapsed, transit, credit>>
  BY DEF ReadingHeader, rest, link
<1>7. CounterTypes' /\ LinkTypes'
  BY <1>6 DEF Types, CounterTypes, LinkTypes
<1>8. BufferTypes'
  <2>1. payload' \in Seq(Cell)
    BY <1>6 DEF Types, BufferTypes
  <2>2. QED
    BY <1>1, <1>3, <1>4, <1>6, <2>1 DEF BufferTypes, States
<1>9. Phases'
  <2>1. payload' = <<>> /\ SignatureCells <= Len(header')
    BY <1>1, <1>4, <1>6
  <2>2. QED
    BY <1>5, <1>6, <2>1 DEF Phases
<1>10. QED
  BY <1>3, <1>7, <1>8, <1>9 DEF Types, LineType

(* ReadingPayload never reads more than the header has announced.          *)
LEMMA PayloadTypes == Types /\ ReadingPayload => Types'
<1> SUFFICES ASSUME Types, ReadingPayload PROVE Types'
  OBVIOUS
<1> DEFINE v == Verified(header)
           l == Len(Payload[v])
<1>1. /\ line \in Seq(Cell) /\ header \in Seq(Cell) /\ payload \in Seq(Cell)
      /\ v # NoMessage /\ Len(payload) < l /\ Len(payload) \in Nat
      /\ Len(header) = HeaderCells /\ Starts(header) /\ Len(header) <= HeaderCells
  BY DEF Types, LineType, BufferTypes, Phases, ReadingPayload
<1>2. l \in Nat
  BY <1>1, VerifiedIs, Frames
<1> HIDE DEF l
<1>3. PICK n \in 0..l - Len(payload) :
        /\ Read(l - Len(payload), n) /\ payload' = payload \o Cells(n)
        /\ rxState' = IF n = l - Len(payload) THEN "CompletePayload" ELSE "ReadingPayload"
  BY DEF ReadingPayload, l
<1>4. UNCHANGED <<sent, header, faults, received, transit, credit>> /\ elapsed' = 0
  BY DEF ReadingPayload, link
<1>5. Cells(n) \in Seq(Cell) /\ Len(Cells(n)) = n /\ line' \in Seq(Cell) /\ n \in Nat
  <2>1. n \in Nat
    BY <1>1, <1>2
  <2>2. QED
    BY <1>1, <1>3, <2>1, ReadTakes
<1>6. payload' \in Seq(Cell) /\ Len(payload') = Len(payload) + n
  <2>1. payload \o Cells(n) \in Seq(Cell) /\ Len(payload \o Cells(n)) = Len(payload) + n
    <3>1. payload \in Seq(Cell)
      BY <1>1
    <3>2. QED
      BY <1>5, <3>1, ConcatProperties
  <2>2. QED
    BY <1>3, <2>1
<1>7. CounterTypes' /\ LinkTypes'
  BY <1>4, WireAssumption DEF Types, CounterTypes, LinkTypes
<1>8. v' = v /\ l' = l /\ header' = header
  BY <1>4 DEF l, Verified, Values
<1>9. BufferTypes'
  BY <1>1, <1>3, <1>6, <1>8 DEF BufferTypes, States
<1>10. Phases'
  <2>1. IF n = l - Len(payload) THEN Len(payload') = l ELSE Len(payload') < l
    <3>1. n <= l - Len(payload) /\ n \in Nat /\ Len(payload) \in Nat
      BY <1>1, <1>2, <1>5
    <3>2. QED
      BY <1>2, <1>6, <3>1
  <2>2. rxState' = "CompletePayload" => Len(payload') = l'
    BY <1>3, <1>8, <2>1
  <2>3. rxState' = "ReadingPayload" => Len(payload') < l'
    BY <1>3, <1>8, <2>1
  <2>4. Starts(header')
    BY <1>1, <1>8
  <2>5. rxState' \in {"CompletePayload", "ReadingPayload"}
    BY <1>3
  <2>6. QED
    BY <2>2, <2>3, <2>4, <2>5 DEF Phases, l
<1>11. QED
  BY <1>5, <1>7, <1>9, <1>10 DEF Types, LineType

(* The steps that only end a message or begin the next.                    *)
LEMMA EndTypes ==
  Types /\ (Initialize \/ Refuse \/ PayloadTimeout \/ Deliver \/ BadPayload) => Types'
<1> SUFFICES ASSUME Types, Initialize \/ Refuse \/ PayloadTimeout \/ Deliver \/ BadPayload
             PROVE  Types'
  OBVIOUS
<1>1. LineType' /\ line' = line
  BY DEF Types, LineType, Initialize, Refuse, PayloadTimeout, Deliver, BadPayload, rest
<1>2. CounterTypes'
  <2>1. CASE Deliver
    <3>1. /\ received' = [msg |-> Verified(header), odd |-> ~received.odd]
          /\ UNCHANGED <<sent, elapsed, faults>>
      BY <2>1 DEF Deliver
    <3>2. received' \in [msg : Message \cup {NoMessage}, odd : BOOLEAN]
      BY <3>1, VerifiedIs
    <3>3. QED
      BY <3>1, <3>2 DEF Types, CounterTypes
  <2>2. CASE Refuse
    <3>1. faults < MaxFaults /\ faults' = faults + 1 /\ UNCHANGED <<sent, elapsed, received>>
      BY <2>2 DEF Refuse
    <3>2. faults' \in 0..MaxFaults
      BY <3>1, WireAssumption DEF Types, CounterTypes
    <3>3. QED
      BY <3>1, <3>2 DEF Types, CounterTypes
  <2>3. CASE Initialize \/ PayloadTimeout \/ BadPayload
    BY <2>3 DEF Types, CounterTypes, Initialize, PayloadTimeout, BadPayload, rest
  <2>4. QED
    BY <2>1, <2>2, <2>3
<1>3. LinkTypes'
  <2>1. CASE Deliver
    BY <2>1, ArrivedTypes DEF Deliver, Types, LinkTypes
  <2>2. CASE Refuse
    <3>1. transit' \in Seq(Item)
      BY <2>2, GoneMarks DEF Refuse, Types, LinkTypes, Marked
    <3>2. QED
      BY <2>2, <3>1 DEF Refuse, Types, LinkTypes
  <2>3. CASE Initialize
    BY <2>3 DEF Initialize, link, Types, LinkTypes
  <2>4. CASE PayloadTimeout \/ BadPayload
    BY <2>4, DiscardTypes DEF PayloadTimeout, BadPayload, Types, LinkTypes
  <2>5. QED
    BY <2>1, <2>2, <2>3, <2>4
<1>4. CASE Initialize
  <2>1. rxState' = "WaitingForHeader" /\ header' = <<>> /\ payload' = <<>>
    BY <1>4 DEF Initialize
  <2>2. HeaderCells \in Nat
    BY WireAssumption
  <2>3. BufferTypes'
    BY <2>1, <2>2, NothingStarts DEF BufferTypes, States
  <2>4. Phases'
    BY <2>1, NothingStarts DEF Phases
  <2>5. QED
    BY <1>1, <1>2, <1>3, <2>3, <2>4 DEF Types
<1>5. CASE ~Initialize
  <2>1. rxState' = "Initialize" /\ UNCHANGED <<header, payload>>
    BY <1>5 DEF Refuse, PayloadTimeout, Deliver, BadPayload
  <2>2. BufferTypes'
    BY <2>1 DEF Types, BufferTypes, States
  <2>3. Phases'
    BY <2>1 DEF Phases
  <2>4. QED
    BY <1>1, <1>2, <1>3, <2>2, <2>3 DEF Types
<1>6. QED
  BY <1>4, <1>5

(* A header that verifies is one of a message, so its payload fits.        *)
LEMMA VerifyTypes == Types /\ CompleteHeader => Types'
<1> SUFFICES ASSUME Types, CompleteHeader PROVE Types'
  OBVIOUS
<1> DEFINE v == Verified(header)
<1>1. /\ rxState' = IF v = NoMessage THEN "Initialize"
               ELSE IF Payload[v] = <<>> THEN "CompletePayload" ELSE "ReadingPayload"
      /\ rxState = "CompleteHeader" /\ elapsed' = 0
      /\ UNCHANGED <<line, sent, header, payload, faults, received>>
      /\ \E s \in {header, <<>>} : Discard(s)
  BY DEF CompleteHeader
<1>2. LineType' /\ CounterTypes'
  BY <1>1, WireAssumption DEF Types, LineType, CounterTypes
<1>3. LinkTypes'
  BY <1>1, DiscardTypes DEF Types, LinkTypes
<1>4. payload' = <<>> /\ Starts(header) /\ Len(header) = HeaderCells
  BY <1>1 DEF Types, Phases, BufferTypes
<1>5. v' = v /\ header' = header
  BY <1>1 DEF Verified, Values
<1>6. BufferTypes'
  BY <1>1, <1>4, <1>5 DEF Types, BufferTypes, States
<1>7. Phases'
  <2>1. CASE v = NoMessage
    BY <1>1, <2>1 DEF Phases
  <2>2. CASE v # NoMessage
    <3>1. Len(Payload[v]) \in Nat /\ Payload[v] \in Seq(Nodes(Payload[v]))
      BY <2>2, VerifiedIs, Frames
    <3>2. IF Payload[v] = <<>> THEN rxState' = "CompletePayload" ELSE rxState' = "ReadingPayload"
      BY <1>1, <2>2
    <3>3. Len(payload') = 0
      BY <1>4
    <3>4. IF Payload[v] = <<>> THEN Len(Payload[v]) = 0 ELSE 0 < Len(Payload[v])
      BY <3>1
    <3>5. Starts(header')
      BY <1>4, <1>5
    <3> HIDE DEF v
    <3>6. /\ rxState' = "ReadingPayload" => Len(payload') < Len(Payload[v'])
          /\ rxState' = "CompletePayload" => Len(payload') = Len(Payload[v'])
          /\ rxState' \notin {"WaitingForHeader", "ReadingHeader", "CompleteHeader"}
      BY <1>5, <3>2, <3>3, <3>4
    <3>7. QED
      BY <3>5, <3>6 DEF Phases, v
  <2>3. QED
    BY <2>1, <2>2
<1>8. QED
  BY <1>2, <1>3, <1>6, <1>7 DEF Types

(* The steps that change the clock only.                                   *)
LEMMA WaitTypes == Types /\ (Poll \/ Tick \/ UNCHANGED vars) => Types'
<1> SUFFICES ASSUME Types, Poll \/ Tick \/ UNCHANGED vars PROVE Types'
  OBVIOUS
<1>1. UNCHANGED <<line, sent, rxState, header, payload, faults, received, transit, credit>>
  BY DEF Poll, Tick, vars, rest, link
<1>2. LineType' /\ BufferTypes' /\ LinkTypes' /\ Phases'
  BY <1>1 DEF Types, LineType, BufferTypes, LinkTypes, Phases, Verified, Values, Starts
<1>3. elapsed' \in 0..Timeout
  BY WireAssumption DEF Types, CounterTypes, Poll, Tick, vars
<1>4. QED
  BY <1>1, <1>2, <1>3 DEF Types, CounterTypes

(* A message is sent under the number that follows.                        *)
LEMMA NextNumber ==
  ASSUME sent \in Transmissions
  PROVE  (sent + 1) % Cardinality(Transmissions) \in Transmissions
<1> DEFINE c == Cardinality(Transmissions)
<1>1. Transmissions # {} /\ Transmissions = 0..c - 1
  BY WireAssumption
<1>2. IsFiniteSet(Transmissions)
  BY WireAssumption
<1>3. c \in Nat
  BY <1>2, FS_CardinalityType
<1> HIDE DEF c
<1>4. c > 0 /\ sent \in 0..c - 1
  BY <1>1, <1>3
<1>5. (sent + 1) % c \in 0..c - 1
  BY <1>3, <1>4
<1>6. QED
  BY <1>1, <1>5 DEF c

(* The steps of the line: a fault, and a message that is sent.             *)
LEMMA LineTypes ==
  Types /\ (Fault \/ \E m \in Message : Send(m)) => Types'
<1> SUFFICES ASSUME Types, Fault \/ \E m \in Message : Send(m) PROVE Types'
  OBVIOUS
<1>1. UNCHANGED <<rxState, header, payload, elapsed, received>>
  BY DEF Fault, Send
<1>2. BufferTypes' /\ Phases'
  BY <1>1 DEF Types, BufferTypes, Phases, Verified, Values, Starts
<1>3. line \in Seq(Cell)
  BY DEF Types, LineType
<1>4. CASE Fault
  <2>1. /\ faults < MaxFaults /\ faults' = faults + 1 /\ credit' = credit + 1 /\ sent' = sent
        /\ \E i \in DOMAIN line :
             /\ line' \in {RemoveAt(line, i), [line EXCEPT ![i].val = Noise]}
             /\ Gone(<<line[i]>>)
    BY <1>4 DEF Fault
  <2>2. PICK i \in DOMAIN line :
          /\ line' \in {RemoveAt(line, i), [line EXCEPT ![i].val = Noise]}
          /\ Gone(<<line[i]>>)
    BY <2>1
  <2>3. i \in 1..Len(line)
    BY <1>3
  <2>4. LineType'
    <3>1. RemoveAt(line, i) \in Seq(Cell)
      BY <1>3, <2>3, RemoveProperties
    <3>2. [line[i] EXCEPT !.val = Noise] \in Cell
      BY <1>3, <2>3, CellFields
    <3>3. [line EXCEPT ![i] = [line[i] EXCEPT !.val = Noise]] \in Seq(Cell)
      BY <1>3, <2>3, <3>2, ExceptSeq
    <3>4. [line EXCEPT ![i].val = Noise] = [line EXCEPT ![i] = [line[i] EXCEPT !.val = Noise]]
      OBVIOUS
    <3>5. QED
      BY <2>2, <3>1, <3>3, <3>4 DEF LineType
  <2>5. CounterTypes'
    BY <1>1, <2>1, WireAssumption DEF Types, CounterTypes
  <2>6. LinkTypes'
    <3>1. transit' \in Seq(Item)
      BY <2>2, GoneMarks DEF Types, LinkTypes, Marked
    <3>2. QED
      BY <2>1, <3>1 DEF Types, LinkTypes
  <2>7. QED
    BY <1>2, <2>4, <2>5, <2>6 DEF Types
<1>5. ASSUME NEW m \in Message, Send(m) PROVE Types'
  <2> DEFINE t == (sent + 1) % Cardinality(Transmissions)
  <2>1. /\ line' = line \o Sending(m, t) /\ sent' = t
        /\ transit' = Append(transit, [msg |-> m, of |-> t, whole |-> TRUE])
        /\ faults' = faults /\ credit' = credit
    BY <1>5 DEF Send
  <2>2. t \in Transmissions
    BY NextNumber DEF Types, CounterTypes
  <2> HIDE DEF t
  <2>3. line' \in Seq(Cell)
    BY <1>3, <2>1, <2>2, CellFields, ConcatProperties
  <2>4. transit' \in Seq(Item)
    <3>1. [msg |-> m, of |-> t, whole |-> TRUE] \in Item
      BY <2>2 DEF Item
    <3>2. QED
      BY <2>1, <3>1, AppendProperties DEF Types, LinkTypes
  <2>5. QED
    BY <1>1, <1>2, <2>1, <2>2, <2>3, <2>4 DEF Types, LineType, CounterTypes, LinkTypes
<1>6. QED
  BY <1>4, <1>5

(* The first state has the types.                                          *)
LEMMA FirstTypes == Init => Types
<1> SUFFICES ASSUME Init PROVE Types
  OBVIOUS
<1>1. HeaderCells \in Nat /\ MaxFaults \in Nat /\ Timeout \in Nat /\ 0 \in Transmissions
  <2>1. PICK t \in Transmissions : TRUE
    BY WireAssumption
  <2>2. IsFiniteSet(Transmissions) /\ Transmissions = 0..Cardinality(Transmissions) - 1
    BY WireAssumption
  <2>3. Cardinality(Transmissions) \in Nat
    BY <2>2, FS_CardinalityType
  <2>4. 0 \in Transmissions
    BY <2>1, <2>2, <2>3
  <2>5. QED
    BY <2>4, WireAssumption
<1>2. <<>> \in Seq(Cell) /\ <<>> \in Seq(Item) /\ Len(<<>>) = 0
  OBVIOUS
<1>3. LineType /\ LinkTypes /\ CounterTypes
  BY <1>1, <1>2 DEF Init, LineType, LinkTypes, CounterTypes
<1>4. BufferTypes /\ Phases
  BY <1>1, <1>2 DEF Init, BufferTypes, Phases, States
<1>5. QED
  BY <1>3, <1>4 DEF Types

(* Every step keeps them.                                                  *)
LEMMA TypesKept == Types /\ [Next]_vars => Types'
<1> SUFFICES ASSUME Types, [Next]_vars PROVE Types'
  OBVIOUS
<1>1. CASE WaitingForHeader
  BY <1>1, ResyncTypes
<1>2. CASE ReadingHeader
  BY <1>2, HeaderTypes
<1>3. CASE CompleteHeader
  BY <1>3, VerifyTypes
<1>4. CASE ReadingPayload
  BY <1>4, PayloadTypes
<1>5. CASE Initialize \/ Refuse \/ PayloadTimeout \/ Deliver \/ BadPayload
  BY <1>5, EndTypes
<1>6. CASE Poll \/ Tick \/ UNCHANGED vars
  BY <1>6, WaitTypes
<1>7. CASE Fault \/ \E m \in Message : Send(m)
  BY <1>7, LineTypes
<1>8. QED
  BY <1>1, <1>2, <1>3, <1>4, <1>5, <1>6, <1>7 DEF Next, Process

(* The receiver writes no further than to the end of its buffers, and      *)
(* reads a payload for a header that verifies only, whatever the line does *)
(* to the cells and for messages of any size.                              *)
THEOREM TypeCorrect == Spec => []TypeOK
BY FirstTypes, TypesKept, TypesImply, PTL DEF Spec

----------------------------------------------------------------------------
(* The cells the receiver has not done with, in their order.               *)
Stream == IF rxState = "Initialize" THEN line ELSE (header \o payload) \o line

(* A cell is as it was sent.                                               *)
Good(c) == c.val = Frame(c.msg)[c.at]

Size(c) == Len(Frame(c.msg))

Proper(S) ==
  \A i \in 1..Len(S) : S[i].at \in 1..Size(S[i]) /\ (Good(S[i]) \/ S[i].val = Noise)

(* Every cell is from a sending in transit.                                *)
Known(S, T) ==
  \A i \in 1..Len(S) : \E j \in 1..Len(T) : T[j].of = S[i].of /\ T[j].msg = S[i].msg

(* The sendings and their cells are in the order they were sent in.        *)
InOrder(S, T) ==
  \A i, j \in 1..Len(T) : i < j =>
    /\ T[i].of # T[j].of
    /\ \A a, b \in 1..Len(S) : S[a].of = T[i].of /\ S[b].of = T[j].of => a < b

Rising(S) == \A a, b \in 1..Len(S) : a < b /\ S[a].of = S[b].of => S[a].at < S[b].at

(* The sending w is in S, all of it, behind the first p cells.             *)
Stands(S, w, p) ==
  /\ p + Len(Frame(w.msg)) <= Len(S)
  /\ \A k \in 1..Len(Frame(w.msg)) :
       /\ S[p + k].of = w.of /\ S[p + k].msg = w.msg
       /\ S[p + k].at = k /\ Good(S[p + k])

Intact(S, T) == \A j \in 1..Len(T) : T[j].whole => \E p \in 0..Len(S) : Stands(S, T[j], p)

(* Cell k of the sending with number t is there, as it was sent.           *)
Has(S, t, k) == \E b \in 1..Len(S) : S[b].of = t /\ S[b].at = k /\ Good(S[b])

(* What is missing of a sending behind the first of its cells that is left.*)
MissingBehind(S, i) == {k \in 1..Size(S[i]) : S[i].at < k /\ ~Has(S, S[i].of, k)}

Missing(S) == UNION {{S[i].of} \X MissingBehind(S, i) : i \in 1..Len(S)}

(* Of a sending that is not whole something is missing, unless its         *)
(* beginning is.                                                           *)
Broken(S, T) ==
  \A a \in 1..Len(S), j \in 1..Len(T) :
    S[a].of = T[j].of /\ ~T[j].whole /\ S[a].at = 1 /\ Good(S[a])
      => \E k \in MissingBehind(S, a) : TRUE

Flow(S, T) ==
  /\ S \in Seq(Cell) /\ T \in Seq(Item)
  /\ Proper(S) /\ Known(S, T) /\ InOrder(S, T) /\ Rising(S)
  /\ Intact(S, T) /\ Broken(S, T)

(* There is a fault for everything that is missing.                        *)
Paid(S, n) == Cardinality(Missing(S)) <= n

(* The sending in the header is not whole when the payload is late.        *)
Late ==
  rxState = "ReadingPayload" /\ elapsed > 0 =>
    \A j \in 1..Len(transit) : transit[j].of = header[HeaderCells].of => ~transit[j].whole

----------------------------------------------------------------------------
(* What it is to be missing.                                               *)
LEMMA InMissing ==
  ASSUME NEW S
  PROVE  /\ \A i \in 1..Len(S) : \A k \in MissingBehind(S, i) : <<S[i].of, k>> \in Missing(S)
         /\ \A x \in Missing(S) :
              \E i \in 1..Len(S) : \E k \in MissingBehind(S, i) : x = <<S[i].of, k>>
<1>1. ASSUME NEW i \in 1..Len(S), NEW k \in MissingBehind(S, i)
      PROVE  <<S[i].of, k>> \in Missing(S)
  <2>1. <<S[i].of, k>> \in {S[i].of} \X MissingBehind(S, i)
    OBVIOUS
  <2>2. QED
    BY <2>1 DEF Missing
<1>2. ASSUME NEW x \in Missing(S)
      PROVE  \E i \in 1..Len(S) : \E k \in MissingBehind(S, i) : x = <<S[i].of, k>>
  <2>1. PICK i \in 1..Len(S) : x \in {S[i].of} \X MissingBehind(S, i)
    BY DEF Missing
  <2>2. QED
    BY <2>1
<1>3. QED
  BY <1>1, <1>2

(* There are finitely many missing cells.                                  *)
LEMMA MissingFinite ==
  ASSUME NEW S \in Seq(Cell)
  PROVE  IsFiniteSet(Missing(S)) /\ Cardinality(Missing(S)) \in Nat
<1> DEFINE n == Len(S)
           part(i) == {S[i].of} \X MissingBehind(S, i)
           f == [i \in 1..n |-> part(i)]
           F == {part(i) : i \in 1..n}
<1>1. n \in Nat /\ IsFiniteSet(1..n)
  <2>1. n \in Nat
    OBVIOUS
  <2>2. QED
    BY <2>1, FS_Interval
<1>2. ASSUME NEW i \in 1..n PROVE IsFiniteSet(part(i))
  <2>1. S[i].msg \in Message
    BY CellFields
  <2>2. Size(S[i]) \in Nat
    <3>1. HeaderCells \in Nat
      BY WireAssumption
    <3>2. QED
      BY <2>1, <3>1, Frames DEF Size
  <2>3. IsFiniteSet(1..Size(S[i]))
    BY <2>2, FS_Interval
  <2>4. IsFiniteSet(MissingBehind(S, i))
    <3>1. MissingBehind(S, i) \in SUBSET (1..Size(S[i]))
      BY DEF MissingBehind
    <3>2. QED
      BY <2>3, <3>1, FS_Subset
  <2>5. IsFiniteSet({S[i].of})
    BY FS_Singleton
  <2>6. QED
    BY <2>4, <2>5, FS_Product
<1> HIDE DEF part
<1>3. f \in Surjection(1..n, F)
  BY DEF Surjection
<1>4. IsFiniteSet(F)
  BY <1>1, <1>3, FS_Surjection
<1>5. \A T \in F : IsFiniteSet(T)
  BY <1>2
<1>6. Missing(S) = UNION F
  BY DEF Missing, part
<1> HIDE DEF F
<1>7. IsFiniteSet(Missing(S))
  BY <1>4, <1>5, <1>6, FS_UNION
<1>8. QED
  BY <1>7, FS_CardinalityType

(* A cell is from one sending.                                             *)
LEMMA OneOwner ==
  ASSUME NEW S, NEW T, Flow(S, T)
  PROVE  /\ \A i \in 1..Len(S) : /\ S[i] \in Cell /\ S[i].msg \in Message
                                 /\ Size(S[i]) \in Nat /\ S[i].at \in 1..Size(S[i])
                                 /\ HeaderCells <= Size(S[i])
         /\ \A i, j \in 1..Len(T) : T[i].of = T[j].of => i = j
         /\ \A i, j \in 1..Len(S) : S[i].of = S[j].of => S[i].msg = S[j].msg
         /\ \A j \in 1..Len(T) : T[j].msg \in Message /\ T[j].whole \in BOOLEAN
         /\ \A i \in 1..Len(S), j \in 1..Len(T) : S[i].of = T[j].of => S[i].msg = T[j].msg
         /\ Len(S) \in Nat /\ Len(T) \in Nat
<1>1. /\ S \in Seq(Cell) /\ T \in Seq(Item) /\ Len(S) \in Nat /\ Len(T) \in Nat
      /\ Proper(S) /\ Known(S, T) /\ InOrder(S, T)
  BY DEF Flow
<1>2. ASSUME NEW i \in 1..Len(S)
      PROVE  /\ S[i] \in Cell /\ S[i].msg \in Message /\ Size(S[i]) \in Nat
             /\ S[i].at \in 1..Size(S[i]) /\ HeaderCells <= Size(S[i])
  <2>1. S[i] \in Cell /\ S[i].msg \in Message
    BY <1>1, CellFields
  <2>2. HeaderCells \in Nat
    BY WireAssumption
  <2>3. QED
    BY <1>1, <2>1, <2>2, Frames DEF Size, Proper
<1>3. \A i, j \in 1..Len(T) : T[i].of = T[j].of => i = j
  BY <1>1 DEF InOrder
<1>4. \A i, j \in 1..Len(S) : S[i].of = S[j].of => S[i].msg = S[j].msg
  BY <1>1, <1>3 DEF Known
<1>5. \A j \in 1..Len(T) : T[j].msg \in Message /\ T[j].whole \in BOOLEAN
  <2>1. \A j \in 1..Len(T) : T[j] \in Item
    BY <1>1
  <2>2. QED
    BY <2>1 DEF Item
<1>6. \A i \in 1..Len(S), j \in 1..Len(T) : S[i].of = T[j].of => S[i].msg = T[j].msg
  BY <1>1, <1>3 DEF Known
<1>7. QED
  BY <1>1, <1>2, <1>3, <1>4, <1>5, <1>6

(* What cells lie between two of the same sending are from it as well.     *)
LEMMA Contiguous ==
  ASSUME NEW S, NEW T, Flow(S, T),
         NEW a \in 1..Len(S), NEW b \in 1..Len(S), NEW c \in 1..Len(S),
         a <= b, b <= c, S[a].of = S[c].of
  PROVE  S[b].of = S[a].of
<1>1. Len(S) \in Nat /\ Len(T) \in Nat /\ Known(S, T) /\ InOrder(S, T)
  BY OneOwner DEF Flow
<1>2. PICK i \in 1..Len(T) : T[i].of = S[a].of
  BY <1>1 DEF Known
<1>3. PICK j \in 1..Len(T) : T[j].of = S[b].of
  BY <1>1 DEF Known
<1>4. CASE i = j
  BY <1>2, <1>3, <1>4
<1>5. CASE i < j
  <2>1. c < b
    BY <1>1, <1>2, <1>3, <1>5 DEF InOrder
  <2>2. QED
    BY <1>1, <2>1
<1>6. CASE j < i
  <2>1. b < a
    BY <1>1, <1>2, <1>3, <1>6 DEF InOrder
  <2>2. QED
    BY <1>1, <2>1
<1>7. QED
  BY <1>1, <1>4, <1>5, <1>6

(* The cells of a sending rise by at least one from place to place.        *)
LEMMA RisesEach ==
  ASSUME NEW S, NEW T, Flow(S, T),
         NEW a \in 1..Len(S), NEW c \in 1..Len(S), a <= c, S[a].of = S[c].of
  PROVE  S[a].at + (c - a) <= S[c].at
<1>1. Len(S) \in Nat /\ Rising(S)
  BY OneOwner DEF Flow
<1>2. \A b \in a..c : b \in 1..Len(S) /\ S[b].of = S[a].of /\ S[b].at \in Nat
  <2> SUFFICES ASSUME NEW b \in a..c
               PROVE  b \in 1..Len(S) /\ S[b].of = S[a].of /\ S[b].at \in Nat
    OBVIOUS
  <2>1. b \in 1..Len(S) /\ a <= b /\ b <= c
    BY <1>1
  <2>2. S[b].of = S[a].of
    BY <2>1, Contiguous
  <2>3. S[b] \in Cell
    BY <2>1, OneOwner
  <2>4. S[b].at \in Nat
    BY <2>3, CellFields
  <2>5. QED
    BY <2>1, <2>2, <2>4
<1> DEFINE Bad == {b \in a..c : ~(S[a].at + (b - a) <= S[b].at)}
<1>3. ASSUME Bad # {} PROVE FALSE
  <2>1. Bad \in SUBSET Nat
    OBVIOUS
  <2>2. PICK b \in Bad : \A i \in Bad : b <= i
    <3> HIDE DEF Bad
    <3>1. QED
      BY <1>3, <2>1, LeastPosition
  <2>3. b \in a..c /\ ~(S[a].at + (b - a) <= S[b].at)
    OBVIOUS
  <2>4. b # a
    BY <1>1, <1>2, <2>3
  <2>5. b - 1 \in a..c /\ b - 1 < b
    BY <2>3, <2>4
  <2>6. b - 1 \notin Bad
    <3> HIDE DEF Bad
    <3>1. QED
      BY <2>1, <2>2, <2>3, <2>5
  <2>7. S[a].at + ((b - 1) - a) <= S[b - 1].at
    BY <2>5, <2>6
  <2>8. S[b - 1].at < S[b].at
    BY <1>1, <1>2, <2>3, <2>5 DEF Rising
  <2>9. S[a].at \in Nat /\ S[b - 1].at \in Nat /\ S[b].at \in Nat
    BY <1>1, <1>2, <2>3, <2>5
  <2>10. QED
    BY <2>3, <2>7, <2>8, <2>9
<1>4. c \in a..c
  BY <1>1
<1>5. QED
  BY <1>3, <1>4

----------------------------------------------------------------------------
(* Some cells of S are gone, and others may have become noise.             *)
Thinner(R, S, f) ==
  /\ f \in [1..Len(R) -> 1..Len(S)]
  /\ \A i, j \in 1..Len(R) : i < j => f[i] < f[j]
  /\ \A i \in 1..Len(R) :
       /\ R[i].of = S[f[i]].of /\ R[i].msg = S[f[i]].msg /\ R[i].at = S[f[i]].at
       /\ R[i].val = S[f[i]].val \/ R[i].val = Noise

(* Noise is no cell of a message.                                          *)
LEMMA GoodKept ==
  ASSUME CellsTold, NEW S, NEW T, Flow(S, T), NEW R \in Seq(Cell), NEW f, Thinner(R, S, f),
         NEW i \in 1..Len(R)
  PROVE  /\ f[i] \in 1..Len(S) /\ (Good(R[i]) => Good(S[f[i]]))
         /\ Size(R[i]) = Size(S[f[i]])
<1>1. /\ f[i] \in 1..Len(S) /\ R[i].msg = S[f[i]].msg /\ R[i].at = S[f[i]].at
      /\ R[i].val = S[f[i]].val \/ R[i].val = Noise
  BY DEF Thinner
<1>2. S[f[i]].msg \in Message /\ S[f[i]].at \in 1..Len(Frame(S[f[i]].msg))
  BY <1>1, OneOwner DEF Size
<1>3. Frame(S[f[i]].msg)[S[f[i]].at] # Noise
  BY <1>2 DEF CellsTold
<1>4. QED
  BY <1>1, <1>3 DEF Good, Size

(* A row that is thinner has no cell the other one has not.                *)
LEMMA ThinnerHas ==
  ASSUME CellsTold, NEW S, NEW T, Flow(S, T), NEW R \in Seq(Cell), NEW f, Thinner(R, S, f),
         NEW t, NEW k, Has(R, t, k)
  PROVE  Has(S, t, k)
<1>1. PICK b \in 1..Len(R) : R[b].of = t /\ R[b].at = k /\ Good(R[b])
  BY DEF Has
<1>2. f[b] \in 1..Len(S) /\ Good(S[f[b]])
  BY <1>1, GoodKept
<1>3. S[f[b]].of = t /\ S[f[b]].at = k
  BY <1>1 DEF Thinner
<1>4. QED
  BY <1>2, <1>3 DEF Has

(* It keeps the order of the sendings and of the cells in each.            *)
LEMMA ThinnerFlow ==
  ASSUME CellsTold, NEW S, NEW T, Flow(S, T), NEW R \in Seq(Cell), NEW f, Thinner(R, S, f),
         NEW U, NEW P, Marked(T, U, P)
  PROVE  Proper(R) /\ Known(R, U) /\ InOrder(R, U) /\ Rising(R)
<1>1. /\ Len(S) \in Nat /\ Len(T) \in Nat /\ Len(U) = Len(T) /\ Len(R) \in Nat
      /\ Proper(S) /\ Known(S, T) /\ InOrder(S, T) /\ Rising(S)
  BY OneOwner DEF Flow, Marked
<1>2. \A i \in 1..Len(R) :
        /\ f[i] \in 1..Len(S)
        /\ R[i].of = S[f[i]].of /\ R[i].msg = S[f[i]].msg /\ R[i].at = S[f[i]].at
        /\ R[i].val = S[f[i]].val \/ R[i].val = Noise
  BY DEF Thinner
<1>3. \A i, j \in 1..Len(R) : i < j => f[i] < f[j]
  BY DEF Thinner
<1>4. \A j \in 1..Len(T) : U[j].msg = T[j].msg /\ U[j].of = T[j].of
  BY DEF Marked
<1>5. Proper(R)
  <2> SUFFICES ASSUME NEW i \in 1..Len(R)
               PROVE  R[i].at \in 1..Size(R[i]) /\ (Good(R[i]) \/ R[i].val = Noise)
    BY DEF Proper
  <2>1. f[i] \in 1..Len(S)
    BY <1>2
  <2>2. S[f[i]].at \in 1..Size(S[f[i]]) /\ (Good(S[f[i]]) \/ S[f[i]].val = Noise)
    BY <1>1, <2>1 DEF Proper
  <2>3. QED
    BY <1>2, <2>2 DEF Size, Good
<1>6. Known(R, U)
  <2> SUFFICES ASSUME NEW i \in 1..Len(R)
               PROVE  \E j \in 1..Len(U) : U[j].of = R[i].of /\ U[j].msg = R[i].msg
    BY DEF Known
  <2>1. PICK j \in 1..Len(T) : T[j].of = S[f[i]].of /\ T[j].msg = S[f[i]].msg
    BY <1>1, <1>2 DEF Known
  <2>2. QED
    BY <1>1, <1>2, <1>4, <2>1
<1>7. InOrder(R, U)
  <2> SUFFICES ASSUME NEW i \in 1..Len(U), NEW j \in 1..Len(U), i < j
               PROVE  /\ U[i].of # U[j].of
                      /\ \A a, b \in 1..Len(R) : R[a].of = U[i].of /\ R[b].of = U[j].of => a < b
    BY DEF InOrder
  <2>1. i \in 1..Len(T) /\ j \in 1..Len(T) /\ U[i].of = T[i].of /\ U[j].of = T[j].of
    BY <1>1, <1>4
  <2>2. T[i].of # T[j].of
    BY <1>1, <2>1 DEF InOrder
  <2>3. ASSUME NEW a \in 1..Len(R), NEW b \in 1..Len(R), R[a].of = U[i].of, R[b].of = U[j].of
        PROVE  a < b
    <3>1. f[a] \in 1..Len(S) /\ f[b] \in 1..Len(S) /\ S[f[a]].of = T[i].of /\ S[f[b]].of = T[j].of
      BY <1>2, <2>1, <2>3
    <3>2. f[a] < f[b]
      BY <1>1, <2>1, <3>1 DEF InOrder
    <3>3. ~(b < a) /\ a # b
      BY <1>3, <3>1, <3>2
    <3>4. QED
      BY <1>1, <3>3
  <2>4. QED
    BY <2>1, <2>2, <2>3
<1>8. Rising(R)
  <2> SUFFICES ASSUME NEW a \in 1..Len(R), NEW b \in 1..Len(R), a < b, R[a].of = R[b].of
               PROVE  R[a].at < R[b].at
    BY DEF Rising
  <2>1. f[a] \in 1..Len(S) /\ f[b] \in 1..Len(S) /\ f[a] < f[b] /\ S[f[a]].of = S[f[b]].of
    BY <1>2, <1>3
  <2>2. S[f[a]].at < S[f[b]].at
    BY <1>1, <2>1 DEF Rising
  <2>3. QED
    BY <1>2, <2>2
<1>9. QED
  BY <1>5, <1>6, <1>7, <1>8

(* The first d cells of S are done with; the sendings they are from are    *)
(* whole no more.                                                          *)
Behind(R, S, d) ==
  /\ R \in Seq(Cell) /\ Len(R) = Len(S) - d
  /\ \A i \in 1..Len(R) : R[i] = S[d + i]

TouchedBy(S, T, d) == {j \in 1..Len(T) : \E b \in 1..d : S[b].of = T[j].of}

(* What is behind the first d cells is a thinner row.                      *)
LEMMA BehindIsThinner ==
  ASSUME NEW S \in Seq(Cell), NEW d \in 0..Len(S), NEW R, Behind(R, S, d)
  PROVE  /\ Thinner(R, S, [i \in 1..Len(R) |-> d + i]) /\ R \in Seq(Cell)
         /\ Len(R) = Len(S) - d /\ Len(R) \in Nat /\ Len(S) \in Nat
         /\ \A i \in 1..Len(R) : d + i \in 1..Len(S) /\ R[i] = S[d + i]
<1>1. /\ Len(S) \in Nat /\ R \in Seq(Cell) /\ Len(R) = Len(S) - d
      /\ \A i \in 1..Len(R) : R[i] = S[d + i]
  BY DEF Behind
<1>2. Len(R) \in Nat /\ \A i \in 1..Len(R) : d + i \in 1..Len(S)
  BY <1>1
<1> DEFINE f == [i \in 1..Len(R) |-> d + i]
<1>3. f \in [1..Len(R) -> 1..Len(S)] /\ \A i \in 1..Len(R) : f[i] = d + i
  BY <1>2
<1> HIDE DEF f
<1>4. \A i, j \in 1..Len(R) : i < j => f[i] < f[j]
  BY <1>3
<1>5. Thinner(R, S, f)
  BY <1>1, <1>3, <1>4 DEF Thinner
<1>6. QED
  BY <1>1, <1>2, <1>5 DEF f

(* Behind a cell that is left, what was missing still is.                  *)
LEMMA BehindMissing ==
  ASSUME CellsTold, NEW S, NEW T, Flow(S, T), NEW d \in 0..Len(S), NEW R, Behind(R, S, d),
         NEW i \in 1..Len(R)
  PROVE  MissingBehind(R, i) = MissingBehind(S, d + i)
<1>1. /\ S \in Seq(Cell) /\ R \in Seq(Cell) /\ Len(S) \in Nat /\ Len(R) \in Nat
      /\ Thinner(R, S, [j \in 1..Len(R) |-> d + j])
      /\ Len(R) = Len(S) - d /\ Rising(S)
      /\ \A j \in 1..Len(R) : d + j \in 1..Len(S) /\ R[j] = S[d + j]
  BY BehindIsThinner DEF Flow
<1>2. R[i] = S[d + i] /\ d + i \in 1..Len(S)
  BY <1>1
<1> DEFINE t == S[d + i].of
<1>3. ASSUME NEW k \in 1..Size(R[i]), R[i].at < k
      PROVE  Has(R, t, k) <=> Has(S, t, k)
  <2>1. Has(R, t, k) => Has(S, t, k)
    BY <1>1, ThinnerHas
  <2>2. ASSUME Has(S, t, k) PROVE Has(R, t, k)
    <3>1. PICK b \in 1..Len(S) : S[b].of = t /\ S[b].at = k /\ Good(S[b])
      BY <2>2 DEF Has
    <3>2. ~(b < d + i)
      <4> SUFFICES ASSUME b < d + i PROVE FALSE
        OBVIOUS
      <4>1. S[b].at < S[d + i].at
        BY <1>1, <1>2, <3>1 DEF Rising
      <4>2. S[d + i].at \in Nat
        BY <1>1, <1>2, CellFields
      <4>3. k \in Int
        OBVIOUS
      <4>4. QED
        BY <1>2, <1>3, <3>1, <4>1, <4>2, <4>3
    <3>3. b - d \in 1..Len(R) /\ d + (b - d) = b
      BY <1>1, <3>2
    <3>4. R[b - d] = S[b]
      BY <1>1, <3>3
    <3>5. QED
      BY <3>1, <3>3, <3>4 DEF Has
  <2>3. QED
    BY <2>1, <2>2
<1>4. QED
  BY <1>2, <1>3 DEF MissingBehind

(* What is done with leaves the rest of the stream as it should be.        *)
LEMMA BehindFlow ==
  ASSUME CellsTold, NEW S, NEW T, Flow(S, T), NEW d \in 0..Len(S), NEW R, Behind(R, S, d),
         NEW U, Marked(T, U, TouchedBy(S, T, d))
  PROVE  Flow(R, U)
<1>1. /\ S \in Seq(Cell) /\ R \in Seq(Cell) /\ Len(S) \in Nat /\ Len(R) \in Nat
      /\ Thinner(R, S, [j \in 1..Len(R) |-> d + j])
      /\ Len(R) = Len(S) - d /\ Rising(S) /\ Intact(S, T) /\ Broken(S, T)
      /\ \A j \in 1..Len(R) : d + j \in 1..Len(S) /\ R[j] = S[d + j]
  BY BehindIsThinner DEF Flow
<1>2. /\ U \in Seq(Item) /\ Len(U) = Len(T)
      /\ \A j \in 1..Len(T) : /\ U[j].msg = T[j].msg /\ U[j].of = T[j].of
                              /\ U[j].whole = (T[j].whole /\ j \notin TouchedBy(S, T, d))
  BY DEF Marked
<1>3. Proper(R) /\ Known(R, U) /\ InOrder(R, U) /\ Rising(R)
  BY <1>1, ThinnerFlow
<1>4. Intact(R, U)
  <2> SUFFICES ASSUME NEW j \in 1..Len(U), U[j].whole
               PROVE  \E p \in 0..Len(R) : Stands(R, U[j], p)
    BY DEF Intact
  <2>1. /\ j \in 1..Len(T) /\ T[j].whole /\ j \notin TouchedBy(S, T, d)
        /\ U[j].msg = T[j].msg /\ U[j].of = T[j].of
    BY <1>2
  <2>2. PICK p \in 0..Len(S) : Stands(S, T[j], p)
    BY <1>1, <2>1 DEF Intact
  <2> DEFINE n == Len(Frame(T[j].msg))
  <2>3. n \in Nat /\ 1 <= n
    <3>1. T[j].msg \in Message
      BY <2>1, OneOwner
    <3>2. QED
      BY <3>1, FrameLength
  <2>4. /\ p + n <= Len(S)
        /\ \A k \in 1..n : /\ S[p + k].of = T[j].of /\ S[p + k].msg = T[j].msg
                           /\ S[p + k].at = k /\ Good(S[p + k])
    BY <2>2 DEF Stands
  <2> HIDE DEF n
  <2>5. ~(p + 1 \in 1..d)
    <3>1. S[p + 1].of = T[j].of
      BY <2>3, <2>4
    <3>2. QED
      BY <2>1, <3>1 DEF TouchedBy
  <2>6. p - d \in 0..Len(R)
    BY <1>1, <2>3, <2>4, <2>5
  <2>7. ASSUME NEW k \in 1..n
        PROVE  (p - d) + k \in 1..Len(R) /\ R[(p - d) + k] = S[p + k]
    <3>1. (p - d) + k \in 1..Len(R) /\ d + ((p - d) + k) = p + k
      BY <1>1, <2>3, <2>4, <2>6
    <3>2. QED
      BY <1>1, <3>1
  <2>8. (p - d) + n <= Len(R)
    BY <1>1, <2>3, <2>4
  <2>9. Stands(R, U[j], p - d)
    BY <2>1, <2>4, <2>7, <2>8 DEF Stands, n
  <2>10. QED
    BY <2>6, <2>9
<1>5. Broken(R, U)
  <2> SUFFICES ASSUME NEW a \in 1..Len(R), NEW j \in 1..Len(U),
                      R[a].of = U[j].of, ~U[j].whole, R[a].at = 1, Good(R[a])
               PROVE  \E k \in MissingBehind(R, a) : TRUE
    BY DEF Broken
  <2>1. /\ j \in 1..Len(T) /\ d + a \in 1..Len(S) /\ R[a] = S[d + a]
        /\ S[d + a].of = T[j].of /\ T[j].whole \in BOOLEAN
    BY <1>1, <1>2, OneOwner
  <2>2. ASSUME T[j].whole PROVE FALSE
    <3>1. PICK b \in 1..d : S[b].of = T[j].of
      BY <1>2, <2>1, <2>2 DEF TouchedBy
    <3>2. b \in 1..Len(S) /\ b < d + a
      BY <1>1
    <3>3. S[b].at < S[d + a].at
      BY <1>1, <2>1, <3>1, <3>2 DEF Rising
    <3>4. S[b].at \in 1..Size(S[b]) /\ Size(S[b]) \in Nat
      BY <3>2, OneOwner
    <3>5. QED
      BY <2>1, <3>3, <3>4
  <2>3. PICK k \in MissingBehind(S, d + a) : TRUE
    BY <1>1, <2>1, <2>2 DEF Broken
  <2>4. QED
    BY <2>3, BehindMissing
<1>6. QED
  BY <1>1, <1>2, <1>3, <1>4, <1>5 DEF Flow

(* What is missing behind the first d cells was missing before, and is of a *)
(* sending that has a cell there.                                          *)
LEMMA BehindMissingAll ==
  ASSUME CellsTold, NEW S, NEW T, Flow(S, T), NEW d \in 0..Len(S), NEW R, Behind(R, S, d)
  PROVE  /\ Missing(R) \subseteq Missing(S)
         /\ \A x \in Missing(R) : \E i \in d + 1..Len(S) : x[1] = S[i].of
<1> SUFFICES ASSUME NEW x \in Missing(R)
             PROVE  x \in Missing(S) /\ \E i \in d + 1..Len(S) : x[1] = S[i].of
  OBVIOUS
<1>1. PICK i \in 1..Len(R) : \E k \in MissingBehind(R, i) : x = <<R[i].of, k>>
  BY InMissing
<1>2. PICK k \in MissingBehind(R, i) : x = <<R[i].of, k>>
  BY <1>1
<1>3. d + i \in 1..Len(S) /\ R[i] = S[d + i] /\ Len(S) \in Nat
  BY BehindIsThinner DEF Flow
<1>4. k \in MissingBehind(S, d + i)
  BY <1>2, BehindMissing
<1>5. <<S[d + i].of, k>> \in Missing(S)
  BY <1>3, <1>4, InMissing
<1>6. d + i \in d + 1..Len(S)
  BY <1>3
<1>7. QED
  BY <1>2, <1>3, <1>5, <1>6

----------------------------------------------------------------------------
(* A message is sent: all of it is there, and it is the last.              *)
LEMMA SentFlow ==
  ASSUME NEW S, NEW T, Flow(S, T), NEW m \in Message, NEW t \in Transmissions,
         \A j \in 1..Len(T) : T[j].of # t
  PROVE  /\ Flow(S \o Sending(m, t), Append(T, [msg |-> m, of |-> t, whole |-> TRUE]))
         /\ Missing(S \o Sending(m, t)) \subseteq Missing(S)
<1> DEFINE s == Len(S)
           n == Len(Frame(m))
           e == Len(T)
           R == S \o Sending(m, t)
           new == [msg |-> m, of |-> t, whole |-> TRUE]
           U == Append(T, new)
<1>1. /\ S \in Seq(Cell) /\ T \in Seq(Item) /\ s \in Nat /\ e \in Nat
      /\ Proper(S) /\ Known(S, T) /\ InOrder(S, T) /\ Rising(S) /\ Intact(S, T) /\ Broken(S, T)
  BY OneOwner DEF Flow
<1>2. n \in Nat
  <2>1. HeaderCells \in Nat
    BY WireAssumption
  <2>2. QED
    BY <2>1, Frames
<1>3. /\ Sending(m, t) \in Seq(Cell) /\ Len(Sending(m, t)) = n
      /\ \A i \in 1..n : Sending(m, t)[i] = [val |-> Frame(m)[i], msg |-> m, of |-> t, at |-> i]
  BY CellFields
<1>4. /\ R \in Seq(Cell) /\ Len(R) = s + n
      /\ \A i \in 1..s + n : R[i] = IF i <= s THEN S[i] ELSE Sending(m, t)[i - s]
  <2>1. S \in Seq(Cell) /\ Sending(m, t) \in Seq(Cell) /\ Len(Sending(m, t)) = n
    BY <1>1, <1>3
  <2> HIDE DEF n
  <2>2. QED
    BY <2>1, ConcatProperties
<1>5. new \in Item /\ new.msg = m /\ new.of = t /\ new.whole
  BY DEF Item
<1> HIDE DEF new, R
<1>6. /\ U \in Seq(Item) /\ Len(U) = e + 1 /\ U[e + 1] = new
      /\ \A j \in 1..e : U[j] = T[j]
  BY <1>1, <1>5, AppendProperties
<1> HIDE DEF U, e
<1>7. \A i \in 1..s : R[i] = S[i] /\ i \in 1..Len(R) /\ R[i].of # t
  <2> SUFFICES ASSUME NEW i \in 1..s PROVE R[i] = S[i] /\ i \in 1..Len(R) /\ R[i].of # t
    OBVIOUS
  <2>1. R[i] = S[i] /\ i \in 1..Len(R)
    BY <1>1, <1>2, <1>4
  <2>2. PICK j \in 1..e : T[j].of = S[i].of
    BY <1>1 DEF Known, e
  <2>3. QED
    BY <2>1, <2>2 DEF e
<1>8. \A k \in 1..n : /\ s + k \in 1..Len(R) /\ R[s + k].of = t /\ R[s + k].msg = m
                      /\ R[s + k].at = k /\ Good(R[s + k]) /\ Size(R[s + k]) = n
  <2> SUFFICES ASSUME NEW k \in 1..n
               PROVE  /\ s + k \in 1..Len(R) /\ R[s + k].of = t /\ R[s + k].msg = m
                      /\ R[s + k].at = k /\ Good(R[s + k]) /\ Size(R[s + k]) = n
    OBVIOUS
  <2>1. s + k \in 1..s + n /\ ~(s + k <= s) /\ (s + k) - s = k
    BY <1>1, <1>2
  <2>2. R[s + k] = [val |-> Frame(m)[k], msg |-> m, of |-> t, at |-> k]
    BY <1>3, <1>4, <2>1
  <2>3. QED
    BY <1>4, <2>1, <2>2 DEF Good, Size
<1>9. \A i \in 1..Len(R) : i \in 1..s \/ \E k \in 1..n : i = s + k
  <2> SUFFICES ASSUME NEW i \in 1..Len(R), i \notin 1..s PROVE \E k \in 1..n : i = s + k
    OBVIOUS
  <2>1. i - s \in 1..n /\ i = s + (i - s)
    BY <1>1, <1>2, <1>4
  <2>2. QED
    BY <2>1
<1>10. \A j \in 1..Len(U) : j \in 1..e \/ j = e + 1
  BY <1>1, <1>6 DEF e
<1>11. \A i \in 1..Len(R) : i \notin 1..s =>
          /\ R[i].of = t /\ R[i].msg = m /\ R[i].at \in 1..n /\ Good(R[i]) /\ Size(R[i]) = n
  <2> SUFFICES ASSUME NEW i \in 1..Len(R), i \notin 1..s
               PROVE  /\ R[i].of = t /\ R[i].msg = m /\ R[i].at \in 1..n
                      /\ Good(R[i]) /\ Size(R[i]) = n
    OBVIOUS
  <2>1. PICK k \in 1..n : i = s + k
    BY <1>9
  <2>2. QED
    BY <1>8, <2>1
<1>12. \A i \in 1..Len(R) : R[i].of = t <=> i \notin 1..s
  <2> SUFFICES ASSUME NEW i \in 1..Len(R) PROVE R[i].of = t <=> i \notin 1..s
    OBVIOUS
  <2>1. CASE i \in 1..s
    BY <1>7, <2>1
  <2>2. CASE i \notin 1..s
    BY <1>11, <2>2
  <2>3. QED
    BY <2>1, <2>2
<1>13. Proper(R)
  <2> SUFFICES ASSUME NEW i \in 1..Len(R)
               PROVE  R[i].at \in 1..Size(R[i]) /\ (Good(R[i]) \/ R[i].val = Noise)
    BY DEF Proper
  <2>1. CASE i \in 1..s
    BY <1>1, <1>7, <2>1 DEF Proper
  <2>2. CASE i \notin 1..s
    BY <1>11, <2>2
  <2>3. QED
    BY <2>1, <2>2
<1>14. Known(R, U)
  <2> SUFFICES ASSUME NEW i \in 1..Len(R)
               PROVE  \E j \in 1..Len(U) : U[j].of = R[i].of /\ U[j].msg = R[i].msg
    BY DEF Known
  <2>1. CASE i \in 1..s
    <3>1. PICK j \in 1..e : T[j].of = S[i].of /\ T[j].msg = S[i].msg
      BY <1>1, <2>1 DEF Known, e
    <3>2. j \in 1..Len(U) /\ U[j] = T[j] /\ R[i] = S[i]
      BY <1>1, <1>6, <1>7, <2>1 DEF e
    <3>3. QED
      BY <3>1, <3>2
  <2>2. CASE i \notin 1..s
    <3>1. R[i].of = t /\ R[i].msg = m
      BY <1>11, <2>2
    <3>2. e + 1 \in 1..Len(U)
      BY <1>1, <1>6 DEF e
    <3>3. QED
      BY <1>5, <1>6, <3>1, <3>2
  <2>3. QED
    BY <2>1, <2>2
<1>15. InOrder(R, U)
  <2> SUFFICES ASSUME NEW i \in 1..Len(U), NEW j \in 1..Len(U), i < j
               PROVE  /\ U[i].of # U[j].of
                      /\ \A a, b \in 1..Len(R) : R[a].of = U[i].of /\ R[b].of = U[j].of => a < b
    BY DEF InOrder
  <2>1. i \in 1..e /\ U[i] = T[i] /\ T[i].of # t /\ i # e + 1
    BY <1>1, <1>6, <1>10 DEF e
  <2>2. CASE j \in 1..e
    <3>1. U[j] = T[j] /\ T[j].of # t
      BY <1>6, <2>2 DEF e
    <3>2. T[i].of # T[j].of
      BY <1>1, <2>1, <2>2 DEF InOrder, e
    <3>3. ASSUME NEW a \in 1..Len(R), NEW b \in 1..Len(R), R[a].of = U[i].of, R[b].of = U[j].of
          PROVE  a < b
      <4>1. a \in 1..s /\ b \in 1..s
        BY <1>12, <2>1, <3>1, <3>3
      <4>2. S[a].of = T[i].of /\ S[b].of = T[j].of
        BY <1>7, <2>1, <3>1, <3>3, <4>1
      <4>3. QED
        BY <1>1, <2>1, <2>2, <4>1, <4>2 DEF InOrder, e
    <3>4. QED
      BY <2>1, <3>1, <3>2, <3>3
  <2>3. CASE j = e + 1
    <3>1. U[j].of = t
      BY <1>5, <1>6, <2>3
    <3>2. ASSUME NEW a \in 1..Len(R), NEW b \in 1..Len(R), R[a].of = U[i].of, R[b].of = U[j].of
          PROVE  a < b
      <4>1. a \in 1..s /\ b \notin 1..s
        BY <1>12, <2>1, <3>1, <3>2
      <4>2. QED
        BY <1>1, <4>1
    <3>3. QED
      BY <2>1, <3>1, <3>2
  <2>4. QED
    BY <1>10, <2>2, <2>3
<1>16. Rising(R)
  <2> SUFFICES ASSUME NEW a \in 1..Len(R), NEW b \in 1..Len(R), a < b, R[a].of = R[b].of
               PROVE  R[a].at < R[b].at
    BY DEF Rising
  <2>1. CASE a \in 1..s
    <3>1. b \in 1..s
      BY <1>12, <2>1
    <3>2. QED
      BY <1>1, <1>7, <2>1, <3>1 DEF Rising
  <2>2. CASE a \notin 1..s
    <3>1. b \notin 1..s
      BY <1>12, <2>2
    <3>2. PICK k \in 1..n : a = s + k
      BY <1>9, <2>2
    <3>3. PICK l \in 1..n : b = s + l
      BY <1>9, <3>1
    <3>4. R[a].at = k /\ R[b].at = l
      BY <1>8, <3>2, <3>3
    <3>5. QED
      BY <1>1, <1>2, <3>2, <3>3, <3>4
  <2>3. QED
    BY <2>1, <2>2
<1>17. Intact(R, U)
  <2> SUFFICES ASSUME NEW j \in 1..Len(U), U[j].whole
               PROVE  \E p \in 0..Len(R) : Stands(R, U[j], p)
    BY DEF Intact
  <2>1. CASE j \in 1..e
    <3>1. U[j] = T[j] /\ T[j].msg \in Message
      BY <1>6, <2>1, OneOwner DEF e
    <3>2. PICK p \in 0..s : Stands(S, T[j], p)
      BY <1>1, <2>1, <3>1 DEF Intact, e
    <3> DEFINE l == Len(Frame(T[j].msg))
    <3>3. l \in Nat
      <4>1. HeaderCells \in Nat
        BY WireAssumption
      <4>2. QED
        BY <3>1, <4>1, Frames
    <3>4. /\ p + l <= s
          /\ \A k \in 1..l : /\ S[p + k].of = T[j].of /\ S[p + k].msg = T[j].msg
                             /\ S[p + k].at = k /\ Good(S[p + k])
      BY <3>2 DEF Stands
    <3> HIDE DEF l
    <3>5. \A k \in 1..l : p + k \in 1..s
      BY <1>1, <3>3, <3>4
    <3>6. \A k \in 1..l : R[p + k] = S[p + k]
      BY <1>7, <3>5
    <3>7. p + l <= Len(R) /\ p \in 0..Len(R)
      BY <1>1, <1>2, <1>4, <3>3, <3>4
    <3>8. Stands(R, U[j], p)
      BY <3>1, <3>4, <3>6, <3>7 DEF Stands, l
    <3>9. QED
      BY <3>7, <3>8
  <2>2. CASE j = e + 1
    <3>1. U[j].of = t /\ U[j].msg = m
      BY <1>5, <1>6, <2>2
    <3>2. s + n <= Len(R) /\ s \in 0..Len(R)
      BY <1>1, <1>2, <1>4
    <3> HIDE DEF s
    <3>3. Stands(R, U[j], s)
      BY <1>8, <3>1, <3>2 DEF Stands
    <3>4. QED
      BY <3>2, <3>3
  <2>3. QED
    BY <1>10, <2>1, <2>2
<1>18. ASSUME NEW a \in 1..s PROVE MissingBehind(R, a) = MissingBehind(S, a)
  <2>1. R[a] = S[a] /\ S[a].of # t
    BY <1>7
  <2>2. ASSUME NEW k PROVE Has(R, S[a].of, k) <=> Has(S, S[a].of, k)
    <3>1. ASSUME NEW b \in 1..Len(R), R[b].of = S[a].of
          PROVE  b \in 1..s /\ R[b] = S[b]
      BY <1>7, <1>12, <2>1, <3>1
    <3>2. QED
      BY <1>7, <3>1 DEF Has
  <2>3. QED
    BY <2>1, <2>2 DEF MissingBehind
<1>19. ASSUME NEW a \in 1..Len(R), a \notin 1..s, NEW k \in MissingBehind(R, a) PROVE FALSE
  <2>1. Size(R[a]) = n /\ R[a].of = t
    BY <1>19, <1>11
  <2>2. k \in 1..n /\ ~Has(R, t, k)
    BY <2>1 DEF MissingBehind
  <2>3. QED
    BY <1>8, <2>2 DEF Has
<1>20. Broken(R, U)
  <2> SUFFICES ASSUME NEW a \in 1..Len(R), NEW j \in 1..Len(U),
                      R[a].of = U[j].of, ~U[j].whole, R[a].at = 1, Good(R[a])
               PROVE  \E k \in MissingBehind(R, a) : TRUE
    BY DEF Broken
  <2>1. j \in 1..e /\ U[j] = T[j] /\ T[j].of # t
    BY <1>5, <1>6, <1>10 DEF e
  <2>2. a \in 1..s /\ R[a] = S[a]
    BY <1>7, <1>12, <2>1
  <2>3. PICK k \in MissingBehind(S, a) : TRUE
    BY <1>1, <2>1, <2>2 DEF Broken, e
  <2>4. QED
    BY <1>18, <2>2, <2>3
<1>21. Missing(R) \subseteq Missing(S)
  <2> SUFFICES ASSUME NEW x \in Missing(R) PROVE x \in Missing(S)
    OBVIOUS
  <2>1. PICK i \in 1..Len(R) : \E k \in MissingBehind(R, i) : x = <<R[i].of, k>>
    BY InMissing
  <2>2. PICK k \in MissingBehind(R, i) : x = <<R[i].of, k>>
    BY <2>1
  <2>3. i \in 1..s
    BY <1>19, <2>2
  <2>4. R[i] = S[i] /\ k \in MissingBehind(S, i)
    BY <1>7, <1>18, <2>2, <2>3
  <2>5. QED
    BY <2>2, <2>3, <2>4, InMissing
<1>22. Flow(R, U)
  BY <1>4, <1>6, <1>13, <1>14, <1>15, <1>16, <1>17, <1>20 DEF Flow
<1>23. QED
  BY <1>21, <1>22 DEF R, U, new


----------------------------------------------------------------------------
(* Cell i of S is lost (o = 1) or has become noise (o = 0).                *)
Hit(R, S, i, o) ==
  /\ R \in Seq(Cell) /\ o \in {0, 1} /\ Len(R) = Len(S) - o
  /\ \A b \in 1..Len(S) : b < i => R[b] = S[b]
  /\ \A b \in 1..Len(S) : b > i => R[b - o] = S[b]
  /\ o = 0 => /\ R[i].of = S[i].of /\ R[i].msg = S[i].msg /\ R[i].at = S[i].at
              /\ R[i].val = Noise

HitFrom(R, i, o) == [c \in 1..Len(R) |-> IF c < i THEN c ELSE c + o]

(* A row with a cell lost or damaged is a thinner one.                     *)
LEMMA HitIsThinner ==
  ASSUME NEW S \in Seq(Cell), NEW i \in 1..Len(S), NEW o, NEW R, Hit(R, S, i, o)
  PROVE  /\ Thinner(R, S, HitFrom(R, i, o)) /\ Len(R) \in Nat /\ Len(S) \in Nat /\ R \in Seq(Cell)
         /\ \A c \in 1..Len(R) :
              /\ HitFrom(R, i, o)[c] = IF c < i THEN c ELSE c + o
              /\ HitFrom(R, i, o)[c] \in 1..Len(S)
              /\ HitFrom(R, i, o)[c] = i => R[c].val = Noise
<1>1. /\ Len(S) \in Nat /\ R \in Seq(Cell) /\ o \in {0, 1} /\ Len(R) = Len(S) - o
      /\ \A b \in 1..Len(S) : b < i => R[b] = S[b]
      /\ \A b \in 1..Len(S) : b > i => R[b - o] = S[b]
      /\ o = 0 => /\ R[i].of = S[i].of /\ R[i].msg = S[i].msg /\ R[i].at = S[i].at
                  /\ R[i].val = Noise
  BY DEF Hit
<1>2. Len(R) \in Nat
  BY <1>1
<1> DEFINE f == HitFrom(R, i, o)
<1>3. \A c \in 1..Len(R) : f[c] = IF c < i THEN c ELSE c + o
  BY DEF HitFrom
<1>4. \A c \in 1..Len(R) : f[c] \in 1..Len(S)
  BY <1>1, <1>2, <1>3
<1>5. f \in [1..Len(R) -> 1..Len(S)]
  <2>1. f = [c \in 1..Len(R) |-> f[c]]
    BY DEF HitFrom
  <2> HIDE DEF f
  <2>2. QED
    BY <1>4, <2>1
<1> HIDE DEF f
<1>6. \A c, d \in 1..Len(R) : c < d => f[c] < f[d]
  <2> SUFFICES ASSUME NEW c \in 1..Len(R), NEW d \in 1..Len(R), c < d PROVE f[c] < f[d]
    OBVIOUS
  <2>1. /\ c \in Nat /\ d \in Nat /\ i \in Nat /\ o \in {0, 1}
        /\ f[c] = (IF c < i THEN c ELSE c + o) /\ f[d] = (IF d < i THEN d ELSE d + o)
    BY <1>1, <1>2, <1>3
  <2>2. QED
    BY <2>1
<1>7. ASSUME NEW c \in 1..Len(R)
      PROVE  /\ R[c].of = S[f[c]].of /\ R[c].msg = S[f[c]].msg /\ R[c].at = S[f[c]].at
             /\ R[c].val = S[f[c]].val \/ R[c].val = Noise
             /\ f[c] = i => R[c].val = Noise
  <2>1. f[c] \in 1..Len(S) /\ c \in Nat /\ i \in Nat
    BY <1>2, <1>4
  <2>2. CASE c < i
    <3>1. f[c] = c /\ f[c] # i
      BY <1>3, <2>1, <2>2
    <3>2. R[c] = S[c]
      BY <1>1, <2>1, <2>2, <3>1
    <3>3. QED
      BY <3>1, <3>2
  <2>3. CASE ~(c < i) /\ c + o > i
    <3>1. f[c] = c + o /\ (c + o) - o = c /\ f[c] # i
      BY <1>1, <1>3, <2>1, <2>3
    <3>2. R[(c + o) - o] = S[c + o]
      BY <1>1, <2>1, <2>3, <3>1
    <3>3. QED
      BY <3>1, <3>2
  <2>4. CASE ~(c < i) /\ ~(c + o > i)
    <3>1. o = 0 /\ c = i /\ f[c] = i
      BY <1>1, <1>3, <2>1, <2>4
    <3>2. QED
      BY <1>1, <3>1
  <2>5. QED
    BY <2>2, <2>3, <2>4
<1>8. Thinner(R, S, f)
  BY <1>5, <1>6, <1>7 DEF Thinner
<1>9. QED
  BY <1>1, <1>2, <1>3, <1>4, <1>7, <1>8 DEF f

(* Only the cell that is hit goes missing.                                 *)
LEMMA HitHas ==
  ASSUME NEW S \in Seq(Cell), NEW i \in 1..Len(S), NEW o, NEW R, Hit(R, S, i, o),
         NEW t, NEW k, Has(S, t, k), ~(t = S[i].of /\ k = S[i].at)
  PROVE  Has(R, t, k)
<1>1. PICK b \in 1..Len(S) : S[b].of = t /\ S[b].at = k /\ Good(S[b])
  BY DEF Has
<1>2. b # i
  BY <1>1
<1>3. Len(S) \in Nat /\ o \in {0, 1} /\ Len(R) = Len(S) - o
  BY DEF Hit
<1>4. CASE b < i
  <2>1. b \in 1..Len(R)
    BY <1>3, <1>4
  <2>2. R[b] = S[b]
    BY <1>4 DEF Hit
  <2>3. QED
    BY <1>1, <2>1, <2>2 DEF Has
<1>5. CASE b > i
  <2>1. b - o \in 1..Len(R)
    BY <1>3, <1>5
  <2>2. R[b - o] = S[b]
    BY <1>5 DEF Hit
  <2>3. QED
    BY <1>1, <2>1, <2>2 DEF Has
<1>6. QED
  BY <1>2, <1>3, <1>4, <1>5

(* A fault leaves a flow, and a cell more may be missing.                  *)
LEMMA HitMissing ==
  ASSUME CellsTold, NEW S, NEW T, Flow(S, T), NEW i \in 1..Len(S), NEW o, NEW R, Hit(R, S, i, o)
  PROVE  Missing(R) \subseteq Missing(S) \cup {<<S[i].of, S[i].at>>}
<1> DEFINE f == HitFrom(R, i, o)
<1>1. S \in Seq(Cell)
  BY DEF Flow
<1>2. Thinner(R, S, f) /\ R \in Seq(Cell)
  BY <1>1, HitIsThinner
<1> SUFFICES ASSUME NEW x \in Missing(R), x # <<S[i].of, S[i].at>> PROVE x \in Missing(S)
  OBVIOUS
<1> HIDE DEF f
<1>3. PICK a \in 1..Len(R) : \E k \in MissingBehind(R, a) : x = <<R[a].of, k>>
  BY InMissing
<1>4. PICK k \in MissingBehind(R, a) : x = <<R[a].of, k>>
  BY <1>3
<1>5. k \in 1..Size(R[a]) /\ R[a].at < k /\ ~Has(R, R[a].of, k)
  BY DEF MissingBehind
<1>6. /\ f[a] \in 1..Len(S) /\ Size(R[a]) = Size(S[f[a]])
      /\ R[a].of = S[f[a]].of /\ R[a].at = S[f[a]].at
  BY <1>2, GoodKept DEF Thinner
<1>7. ~Has(S, S[f[a]].of, k)
  BY <1>1, <1>4, <1>5, <1>6, HitHas
<1>8. k \in MissingBehind(S, f[a])
  BY <1>5, <1>6, <1>7 DEF MissingBehind
<1>9. QED
  BY <1>4, <1>6, <1>8, InMissing

(* What a fault leaves of the flow.                                        *)
LEMMA HitFlow ==
  ASSUME CellsTold, NEW S, NEW T, Flow(S, T), NEW i \in 1..Len(S), NEW o,
         NEW R, Hit(R, S, i, o), NEW U, NEW P, P = {j \in 1..Len(T) : T[j].of = S[i].of}, Marked(T, U, P)
  PROVE  Flow(R, U)
<1> DEFINE f == HitFrom(R, i, o)
<1>1. /\ S \in Seq(Cell) /\ Rising(S) /\ Intact(S, T) /\ Broken(S, T)
  BY DEF Flow
<1>2. /\ Thinner(R, S, f) /\ R \in Seq(Cell) /\ Len(R) \in Nat /\ Len(S) \in Nat
      /\ \A c \in 1..Len(R) : f[c] \in 1..Len(S) /\ (f[c] = i => R[c].val = Noise)
  BY <1>1, HitIsThinner
<1> HIDE DEF f
<1>3. /\ U \in Seq(Item) /\ Len(U) = Len(T)
      /\ \A j \in 1..Len(T) : /\ U[j].msg = T[j].msg /\ U[j].of = T[j].of
                              /\ U[j].whole = (T[j].whole /\ j \notin P)
  BY DEF Marked
<1>4. Proper(R) /\ Known(R, U) /\ InOrder(R, U) /\ Rising(R)
  BY <1>2, ThinnerFlow
<1>5. ASSUME NEW c \in 1..Len(R), Good(R[c]) PROVE f[c] # i
  <2>1. R[c].msg = S[f[c]].msg /\ R[c].at = S[f[c]].at
    BY <1>2 DEF Thinner
  <2>2. S[f[c]].msg \in Message /\ S[f[c]].at \in 1..Len(Frame(S[f[c]].msg))
    BY <1>2, OneOwner DEF Size
  <2>3. Frame(S[f[c]].msg)[S[f[c]].at] # Noise
    BY <2>2 DEF CellsTold
  <2>4. QED
    BY <1>2, <1>5, <2>1, <2>3 DEF Good
<1>6. Intact(R, U)
  <2> SUFFICES ASSUME NEW j \in 1..Len(U), U[j].whole
               PROVE  \E p \in 0..Len(R) : Stands(R, U[j], p)
    BY DEF Intact
  <2>1. /\ j \in 1..Len(T) /\ T[j].whole /\ T[j].of # S[i].of
        /\ U[j].msg = T[j].msg /\ U[j].of = T[j].of
    BY <1>3
  <2>2. PICK p \in 0..Len(S) : Stands(S, T[j], p)
    BY <1>1, <2>1 DEF Intact
  <2> DEFINE n == Len(Frame(T[j].msg))
  <2>3. n \in Nat /\ 1 <= n
    <3>1. T[j].msg \in Message
      BY <2>1, OneOwner
    <3>2. QED
      BY <3>1, FrameLength
  <2>4. /\ p + n <= Len(S)
        /\ \A k \in 1..n : /\ S[p + k].of = T[j].of /\ S[p + k].msg = T[j].msg
                           /\ S[p + k].at = k /\ Good(S[p + k])
    BY <2>2 DEF Stands
  <2> HIDE DEF n
  <2>5. i \notin p + 1..p + n
    <3>1. ASSUME i \in p + 1..p + n PROVE FALSE
      <4>1. i - p \in 1..n /\ p + (i - p) = i
        BY <1>2, <2>3, <3>1
      <4>2. QED
        BY <2>1, <2>4, <4>1
    <3>2. QED
      BY <3>1
  <2>6. /\ o \in {0, 1} /\ Len(R) = Len(S) - o
        /\ \A b \in 1..Len(S) : b < i => R[b] = S[b]
        /\ \A b \in 1..Len(S) : b > i => R[b - o] = S[b]
    BY DEF Hit
  <2>7. CASE i <= p
    <3>1. p - o \in 0..Len(R) /\ (p - o) + n <= Len(R)
      BY <1>2, <2>3, <2>4, <2>6, <2>7
    <3>2. ASSUME NEW k \in 1..n PROVE R[(p - o) + k] = S[p + k]
      <4>1. p + k \in 1..Len(S) /\ p + k > i /\ (p + k) - o = (p - o) + k
        BY <1>2, <2>3, <2>4, <2>6, <2>7
      <4>2. R[(p + k) - o] = S[p + k]
        BY <2>6, <4>1
      <4>3. QED
        BY <4>1, <4>2
    <3>3. Stands(R, U[j], p - o)
      BY <2>1, <2>4, <3>1, <3>2 DEF Stands, n
    <3>4. QED
      BY <3>1, <3>3
  <2>8. CASE p + n < i
    <3>1. p \in 0..Len(R) /\ p + n <= Len(R)
      BY <1>2, <2>3, <2>4, <2>6, <2>8
    <3>2. ASSUME NEW k \in 1..n PROVE R[p + k] = S[p + k]
      <4>1. p + k \in 1..Len(S) /\ p + k < i
        BY <1>2, <2>3, <2>4, <2>8
      <4>2. QED
        BY <2>6, <4>1
    <3>3. Stands(R, U[j], p)
      BY <2>1, <2>4, <3>1, <3>2 DEF Stands, n
    <3>4. QED
      BY <3>1, <3>3
  <2>9. QED
    BY <1>2, <2>3, <2>5, <2>7, <2>8
<1>7. Broken(R, U)
  <2> SUFFICES ASSUME NEW a \in 1..Len(R), NEW j \in 1..Len(U),
                      R[a].of = U[j].of, ~U[j].whole, R[a].at = 1, Good(R[a])
               PROVE  \E k \in MissingBehind(R, a) : TRUE
    BY DEF Broken
  <2>1. /\ f[a] \in 1..Len(S) /\ Good(S[f[a]]) /\ Size(R[a]) = Size(S[f[a]])
        /\ R[a].of = S[f[a]].of /\ R[a].at = S[f[a]].at
    <3>1. f[a] \in 1..Len(S) /\ Good(S[f[a]]) /\ Size(R[a]) = Size(S[f[a]])
      BY <1>2, GoodKept
    <3>2. R[a].of = S[f[a]].of /\ R[a].at = S[f[a]].at
      BY <1>2 DEF Thinner
    <3>3. QED
      BY <3>1, <3>2
  <2>2. /\ j \in 1..Len(T) /\ S[f[a]].of = T[j].of /\ S[f[a]].at = 1
        /\ (~T[j].whole \/ S[f[a]].of = S[i].of)
    BY <1>3, <2>1
  <2>3. CASE ~T[j].whole
    <3>1. PICK k \in MissingBehind(S, f[a]) : TRUE
      BY <1>1, <2>1, <2>2, <2>3 DEF Broken
    <3>2. k \in 1..Size(R[a]) /\ R[a].at < k /\ ~Has(S, R[a].of, k)
      BY <2>1, <3>1 DEF MissingBehind
    <3>3. ~Has(R, R[a].of, k)
      BY <1>2, <3>2, ThinnerHas
    <3>4. QED
      BY <3>2, <3>3 DEF MissingBehind
  <2>4. CASE S[f[a]].of = S[i].of
    <3> DEFINE k == S[i].at
    <3>1. f[a] # i
      BY <1>5
    <3>2. Size(S[i]) = Size(S[f[a]]) /\ k \in 1..Size(S[i]) /\ Size(S[i]) \in Nat
      <4>1. S[i].msg = S[f[a]].msg
        BY <2>1, <2>4, OneOwner
      <4>2. S[i].at \in 1..Size(S[i]) /\ Size(S[i]) \in Nat
        BY OneOwner
      <4>3. QED
        BY <4>1, <4>2 DEF Size
    <3>3. 1 < k
      <4>1. CASE f[a] < i
        BY <1>1, <2>1, <2>2, <2>4, <4>1 DEF Rising
      <4>2. CASE i < f[a]
        <5>1. k < 1
          BY <1>1, <2>1, <2>2, <2>4, <4>2 DEF Rising
        <5>2. QED
          BY <3>2, <5>1
      <4>3. QED
        BY <1>2, <2>1, <3>1, <4>1, <4>2
    <3>4. ASSUME Has(R, R[a].of, k) PROVE FALSE
      <4>1. PICK c \in 1..Len(R) : R[c].of = R[a].of /\ R[c].at = k /\ Good(R[c])
        BY <3>4 DEF Has
      <4>2. f[c] # i /\ f[c] \in 1..Len(S)
        BY <1>2, <1>5, <4>1
      <4>3. S[f[c]].of = S[i].of /\ S[f[c]].at = S[i].at
        BY <1>2, <2>1, <2>4, <4>1 DEF Thinner
      <4>4. f[c] < i => S[f[c]].at < S[i].at
        BY <1>1, <4>2, <4>3 DEF Rising
      <4>5. i < f[c] => S[i].at < S[f[c]].at
        BY <1>1, <4>2, <4>3 DEF Rising
      <4>6. QED
        BY <1>2, <3>2, <4>2, <4>3, <4>4, <4>5
    <3>5. k \in MissingBehind(R, a)
      BY <2>1, <2>2, <3>2, <3>3, <3>4 DEF MissingBehind
    <3>6. QED
      BY <3>5
  <2>5. QED
    BY <2>2, <2>3, <2>4
<1>8. QED
  BY <1>2, <1>3, <1>4, <1>6, <1>7 DEF Flow

----------------------------------------------------------------------------
(* Every cell of a whole sending is where its place in it says.            *)
LEMMA Placed ==
  ASSUME NEW S, NEW T, Flow(S, T), NEW j \in 1..Len(T), T[j].whole
  PROVE  \E p \in 0..Len(S) :
           /\ Stands(S, T[j], p)
           /\ T[j].msg \in Message /\ Len(Frame(T[j].msg)) \in Nat
           /\ HeaderCells <= Len(Frame(T[j].msg)) /\ HeaderCells \in Nat \ {0}
           /\ p + Len(Frame(T[j].msg)) <= Len(S)
           /\ \A b \in 1..Len(S) : S[b].of = T[j].of =>
                b = p + S[b].at /\ p + 1 <= b /\ b <= p + Len(Frame(T[j].msg))
<1>1. PICK p \in 0..Len(S) : Stands(S, T[j], p)
  BY DEF Flow, Intact
<1> DEFINE n == Len(Frame(T[j].msg))
<1>2. /\ T[j].msg \in Message /\ HeaderCells \in Nat \ {0}
      /\ Len(S) \in Nat /\ Len(T) \in Nat /\ Rising(S)
  BY OneOwner, WireAssumption DEF Flow
<1>3. n \in Nat /\ HeaderCells <= n
  BY <1>2, FrameLength
<1>4. /\ p + n <= Len(S)
      /\ \A k \in 1..n : S[p + k].of = T[j].of /\ S[p + k].at = k
  BY <1>1 DEF Stands
<1> HIDE DEF n
<1>5. ASSUME NEW b \in 1..Len(S), S[b].of = T[j].of
      PROVE  b = p + S[b].at /\ p + 1 <= b /\ b <= p + n
  <2>1. S[b].at \in 1..n
    BY <1>5, OneOwner DEF Size, n
  <2> DEFINE c == p + S[b].at
  <2>2. c \in 1..Len(S) /\ S[c].of = S[b].of /\ S[c].at = S[b].at
    <3>1. Len(S) \in Nat /\ n \in Nat /\ p \in 0..Len(S) /\ p + n <= Len(S)
      BY <1>2, <1>3, <1>4
    <3>2. c \in 1..Len(S)
      BY <2>1, <3>1
    <3>3. S[p + S[b].at].of = T[j].of /\ S[p + S[b].at].at = S[b].at
      BY <1>4, <2>1
    <3>4. QED
      BY <1>5, <3>2, <3>3
  <2> HIDE DEF c
  <2>3. ~(b < c) /\ ~(c < b)
    <3>1. b < c => S[b].at < S[c].at
      BY <1>2, <2>2 DEF Rising
    <3>2. c < b => S[c].at < S[b].at
      BY <1>2, <2>2 DEF Rising
    <3>3. S[b].at \in Int
      BY <1>3, <2>1
    <3>4. QED
      BY <2>2, <3>1, <3>2, <3>3
  <2>4. b = c
    BY <1>2, <2>2, <2>3
  <2>5. QED
    BY <1>2, <1>3, <2>1, <2>4 DEF c
<1>6. QED
  BY <1>1, <1>2, <1>3, <1>4, <1>5 DEF n

(* Of the whole sendings the first are taken along.                        *)
LEMMA FirstTouched ==
  ASSUME NEW S, NEW T, Flow(S, T), NEW d \in 0..Len(S),
         NEW i \in 1..Len(T), T[i].whole, NEW j \in TouchedBy(S, T, d), i <= j
  PROVE  i \in TouchedBy(S, T, d)
<1>1. Len(S) \in Nat /\ Len(T) \in Nat /\ InOrder(S, T)
  BY OneOwner DEF Flow
<1>2. PICK b \in 1..d : S[b].of = T[j].of
  BY DEF TouchedBy
<1>3. j \in 1..Len(T) /\ b \in 1..Len(S)
  BY <1>1 DEF TouchedBy
<1>4. CASE i = j
  BY <1>4
<1>5. CASE i < j
  <2>1. PICK p \in 0..Len(S) :
          /\ Stands(S, T[i], p) /\ Len(Frame(T[i].msg)) \in Nat
          /\ HeaderCells <= Len(Frame(T[i].msg)) /\ HeaderCells \in Nat \ {0}
          /\ p + Len(Frame(T[i].msg)) <= Len(S)
    BY Placed
  <2>2. p + 1 \in 1..Len(S) /\ 1 \in 1..Len(Frame(T[i].msg))
    BY <1>1, <2>1
  <2>3. S[p + 1].of = T[i].of
    BY <2>1, <2>2 DEF Stands
  <2>4. p + 1 < b
    BY <1>1, <1>2, <1>3, <1>5, <2>2, <2>3 DEF InOrder
  <2>5. p + 1 \in 1..d
    BY <2>2, <2>4
  <2>6. QED
    BY <2>3, <2>5 DEF TouchedBy
<1>6. QED
  BY <1>1, <1>3, <1>4, <1>5

----------------------------------------------------------------------------
(* A damaged sending that has its cell h at position h takes cells of      *)
(* whole ones along for its own, no more than it is missing itself.        *)
Taker(S, T, d, h) ==
  /\ h \in 1..d /\ h <= HeaderCells
  /\ S[h].at = h /\ d <= Size(S[h])
  /\ \A j \in 1..Len(T) : T[j].of = S[h].of => ~T[j].whole

TakenAlong(S, T, d) == {j \in TouchedBy(S, T, d) : T[j].whole}

(* The sendings taken along come after the damaged one, and begin among    *)
(* the first d cells.                                                      *)
LEMMA AlongBegins ==
  ASSUME NEW S, NEW T, Flow(S, T), NEW d \in 0..Len(S), NEW h, Taker(S, T, d, h),
         NEW j \in TakenAlong(S, T, d)
  PROVE  /\ \E b \in h + 1..d : S[b].of = T[j].of
         /\ T[j].of # S[h].of
         /\ \A b \in 1..Len(S) : S[b].of = S[h].of => b \in 1..d
<1>1. /\ Len(S) \in Nat /\ Len(T) \in Nat /\ InOrder(S, T) /\ Known(S, T)
      /\ h \in 1..Len(S) /\ h \in 1..d /\ HeaderCells \in Nat /\ h <= HeaderCells
  <2>1. Len(S) \in Nat /\ Len(T) \in Nat /\ InOrder(S, T) /\ Known(S, T)
    BY OneOwner DEF Flow
  <2>2. QED
    BY <2>1, WireAssumption DEF Taker
<1>2. j \in 1..Len(T) /\ T[j].whole /\ j \in TouchedBy(S, T, d)
  BY DEF TakenAlong, TouchedBy
<1>3. PICK b \in 1..d : S[b].of = T[j].of
  BY <1>2 DEF TouchedBy
<1>4. T[j].of # S[h].of
  BY <1>2 DEF Taker
<1>5. PICK g \in 1..Len(T) : T[g].of = S[h].of
  BY <1>1 DEF Known
<1>6. PICK p \in 0..Len(S) :
        /\ Stands(S, T[j], p) /\ Len(Frame(T[j].msg)) \in Nat
        /\ HeaderCells <= Len(Frame(T[j].msg)) /\ HeaderCells \in Nat \ {0}
        /\ p + Len(Frame(T[j].msg)) <= Len(S)
        /\ \A c \in 1..Len(S) : S[c].of = T[j].of => p + 1 <= c
  BY <1>2, Placed
<1> DEFINE n == Len(Frame(T[j].msg))
<1>7. /\ p + 1 \in 1..Len(S) /\ p + n \in 1..Len(S)
      /\ S[p + 1].of = T[j].of /\ S[p + n].of = T[j].of
  BY <1>1, <1>6 DEF Stands
<1>8. p + 1 <= b /\ b \in 1..Len(S)
  BY <1>1, <1>3, <1>6
<1>9. ~(j < g)
  <2>1. ASSUME j < g PROVE FALSE
    <3>1. p + n < h
      BY <1>1, <1>2, <1>5, <1>7, <2>1 DEF InOrder
    <3>2. QED
      BY <1>1, <1>6, <3>1
  <2>2. QED
    BY <2>1
<1>10. g < j
  BY <1>1, <1>2, <1>4, <1>5, <1>9
<1>11. \A c \in 1..Len(S) : S[c].of = S[h].of => c < p + 1
  BY <1>1, <1>2, <1>5, <1>7, <1>10 DEF InOrder
<1>12. p + 1 \in h + 1..d
  <2>1. h < p + 1
    BY <1>1, <1>11
  <2>2. QED
    BY <1>1, <1>7, <1>8, <2>1
<1>13. \A c \in 1..Len(S) : S[c].of = S[h].of => c \in 1..d
  BY <1>1, <1>11, <1>12
<1>14. QED
  BY <1>4, <1>7, <1>12, <1>13

(* There are no more of them than cells missing behind h.                  *)
LEMMA AlongCounted ==
  ASSUME CellsTold, NEW S, NEW T, Flow(S, T), NEW d \in 0..Len(S), NEW h, Taker(S, T, d, h)
  PROVE  /\ IsFiniteSet(MissingBehind(S, h))
         /\ Cardinality(TakenAlong(S, T, d)) <= Cardinality(MissingBehind(S, h))
         /\ Cardinality(TakenAlong(S, T, d)) \in Nat
<1> DEFINE Q == TakenAlong(S, T, d)
           N == h + 1..d
           B == {b \in N : S[b].of = S[h].of}
           Pres == {k \in N : Has(S, S[h].of, k)}
           K == MissingBehind(S, h)
<1>1. /\ Len(S) \in Nat /\ Len(T) \in Nat /\ Rising(S)
      /\ h \in 1..Len(S) /\ h \in 1..d /\ Size(S[h]) \in Nat /\ d <= Size(S[h]) /\ S[h].at = h
      /\ Q \in SUBSET (1..Len(T))
  <2>1. Len(S) \in Nat /\ Len(T) \in Nat /\ Rising(S)
    BY OneOwner DEF Flow
  <2>2. h \in 1..Len(S) /\ h \in 1..d /\ d <= Size(S[h]) /\ S[h].at = h
    BY <2>1 DEF Taker
  <2>3. Size(S[h]) \in Nat
    BY <2>2, OneOwner
  <2>4. QED
    BY <2>1, <2>2, <2>3 DEF TakenAlong, TouchedBy
<1>2. IsFiniteSet(N) /\ IsFiniteSet(K) /\ Cardinality(Q) \in Nat
  <2>1. IsFiniteSet(N) /\ IsFiniteSet(1..Size(S[h]))
    BY <1>1, FS_Interval
  <2>2. K \in SUBSET (1..Size(S[h]))
    BY DEF MissingBehind
  <2>3. IsFiniteSet(K)
    BY <2>1, <2>2, FS_Subset
  <2>4. Cardinality(Q) \in Nat
    <3> HIDE DEF Q
    <3>1. QED
      BY <1>1, Costs
  <2>5. QED
    BY <2>1, <2>3, <2>4
<1>3. Cardinality(Q) <= Cardinality(N \ B)
  <2> DEFINE f == [j \in Q |-> CHOOSE b \in N : S[b].of = T[j].of]
  <2>1. ASSUME NEW j \in Q PROVE f[j] \in N /\ S[f[j]].of = T[j].of /\ T[j].of # S[h].of
    <3>1. \E b \in N : S[b].of = T[j].of
      BY AlongBegins
    <3>2. T[j].of # S[h].of
      BY AlongBegins
    <3>3. QED
      BY <3>1, <3>2
  <2>2. f \in [Q -> N \ B]
    BY <2>1
  <2>3. \A i, j \in Q : T[i].of = T[j].of => i = j
    BY <1>1, OneOwner
  <2>4. \A i, j \in Q : f[i] = f[j] => i = j
    <3> HIDE DEF f, Q
    <3>1. QED
      BY <2>1, <2>3
  <2> HIDE DEF f, Q, N, B
  <2>5. f \in Injection(Q, N \ B)
    BY <2>2, <2>4 DEF Injection, IsInjective
  <2>6. IsFiniteSet(N \ B)
    BY <1>2, FS_Difference
  <2>7. QED
    BY <2>5, <2>6, FS_Injection
<1>4. Cardinality(Pres) <= Cardinality(B) /\ IsFiniteSet(B) /\ IsFiniteSet(Pres)
  <2> DEFINE f == [k \in Pres |-> CHOOSE b \in B : S[b].at = k]
  <2>1. ASSUME NEW k \in Pres PROVE f[k] \in B /\ S[f[k]].at = k
    <3>1. PICK b \in 1..Len(S) : S[b].of = S[h].of /\ S[b].at = k
      BY DEF Has
    <3>2. h < b
      <4>1. b < h => S[b].at < S[h].at
        BY <1>1, <3>1 DEF Rising
      <4>2. k \in Int /\ h < k /\ h \in Int /\ b \in Int
        BY <1>1
      <4>3. QED
        BY <1>1, <3>1, <4>1, <4>2
    <3>3. S[h].at + (b - h) <= S[b].at
      BY <1>1, <3>1, <3>2, RisesEach
    <3>4. b \in N
      <4>1. k \in Int /\ k <= d
        BY <1>1
      <4>2. QED
        BY <1>1, <3>1, <3>2, <3>3, <4>1
    <3>5. \E c \in B : S[c].at = k
      BY <3>1, <3>4
    <3>6. QED
      BY <3>5
  <2>2. f \in [Pres -> B]
    BY <2>1
  <2>3. \A i, j \in Pres : f[i] = f[j] => i = j
    <3> HIDE DEF f, Pres
    <3>1. QED
      BY <2>1
  <2>4. B \in SUBSET N /\ Pres \in SUBSET N
    OBVIOUS
  <2> HIDE DEF f, Pres, N, B
  <2>5. f \in Injection(Pres, B)
    BY <2>2, <2>3 DEF Injection, IsInjective
  <2>6. IsFiniteSet(B) /\ IsFiniteSet(Pres)
    BY <1>2, <2>4, FS_Subset
  <2>7. QED
    BY <2>5, <2>6, FS_Injection
<1>5. Cardinality(N \ B) = Cardinality(N) - Cardinality(B)
  <2>1. N \cap B = B
    OBVIOUS
  <2> HIDE DEF N, B
  <2>2. QED
    BY <1>2, <2>1, FS_Difference
<1>6. Cardinality(N \ Pres) = Cardinality(N) - Cardinality(Pres)
  <2>1. N \cap Pres = Pres
    OBVIOUS
  <2> HIDE DEF N, Pres
  <2>2. QED
    BY <1>2, <2>1, FS_Difference
<1>7. Cardinality(N \ Pres) <= Cardinality(K)
  <2>1. N \ Pres \in SUBSET K
    <3> SUFFICES ASSUME NEW k \in N \ Pres PROVE k \in K
      OBVIOUS
    <3>1. k \in 1..Size(S[h]) /\ S[h].at < k
      BY <1>1
    <3>2. QED
      BY <3>1 DEF MissingBehind
  <2> HIDE DEF N, Pres, K
  <2>2. QED
    BY <1>2, <2>1, FS_Subset
<1> HIDE DEF Q, N, B, Pres, K
<1>8. /\ Cardinality(N) \in Nat /\ Cardinality(B) \in Nat /\ Cardinality(Pres) \in Nat
      /\ Cardinality(K) \in Nat
  BY <1>2, <1>4, FS_CardinalityType
<1>9. Cardinality(Q) <= Cardinality(K)
  BY <1>2, <1>3, <1>4, <1>5, <1>6, <1>7, <1>8
<1>10. QED
  BY <1>2, <1>9 DEF Q, K

(* What is taken along is paid for with what was missing.                  *)
LEMMA AlongPaid ==
  ASSUME CellsTold, NEW S, NEW T, Flow(S, T), NEW d \in 0..Len(S), NEW R, Behind(R, S, d),
         TakenAlong(S, T, d) = {} \/ \E h \in 1..d : Taker(S, T, d, h)
  PROVE  /\ Cardinality(TakenAlong(S, T, d)) \in Nat
         /\ Cardinality(Missing(R)) + Cardinality(TakenAlong(S, T, d)) <= Cardinality(Missing(S))
<1>1. /\ IsFiniteSet(Missing(S)) /\ Cardinality(Missing(S)) \in Nat
      /\ IsFiniteSet(Missing(R)) /\ Cardinality(Missing(R)) \in Nat
      /\ Missing(R) \in SUBSET Missing(S) /\ Cardinality(Missing(R)) <= Cardinality(Missing(S))
  <2>1. IsFiniteSet(Missing(S)) /\ Cardinality(Missing(S)) \in Nat
    BY MissingFinite DEF Flow
  <2>2. IsFiniteSet(Missing(R)) /\ Cardinality(Missing(R)) \in Nat
    BY MissingFinite DEF Behind
  <2>3. Missing(R) \in SUBSET Missing(S)
    BY BehindMissingAll
  <2>4. QED
    BY <2>1, <2>2, <2>3, FS_Subset
<1>2. CASE TakenAlong(S, T, d) = {}
  BY <1>1, <1>2, FS_EmptySet
<1>3. CASE TakenAlong(S, T, d) # {}
  <2>1. PICK h \in 1..d : Taker(S, T, d, h)
    BY <1>3
  <2>2. PICK j \in TakenAlong(S, T, d) : TRUE
    BY <1>3
  <2> DEFINE K == MissingBehind(S, h)
             f == [k \in K |-> <<S[h].of, k>>]
  <2>3. h \in 1..Len(S) /\ Len(S) \in Nat
    <3>1. Len(S) \in Nat
      BY OneOwner
    <3>2. QED
      BY <3>1
  <2>4. ASSUME NEW k \in K PROVE <<S[h].of, k>> \in Missing(S) \ Missing(R)
    <3>1. <<S[h].of, k>> \in Missing(S)
      BY <2>3, InMissing
    <3>2. ASSUME <<S[h].of, k>> \in Missing(R) PROVE FALSE
      <4>1. PICK i \in d + 1..Len(S) : S[h].of = S[i].of
        BY <3>2, BehindMissingAll
      <4>2. i \in 1..Len(S) /\ i \notin 1..d
        BY <2>3
      <4>3. QED
        BY <2>1, <2>2, <4>1, <4>2, AlongBegins
    <3>3. QED
      BY <3>1, <3>2
  <2>5. /\ IsFiniteSet(K) /\ Cardinality(TakenAlong(S, T, d)) <= Cardinality(K)
        /\ Cardinality(TakenAlong(S, T, d)) \in Nat
    BY <2>1, AlongCounted
  <2>6. f \in [K -> Missing(S) \ Missing(R)]
    BY <2>4
  <2>7. \A i, j2 \in K : f[i] = f[j2] => i = j2
    OBVIOUS
  <2> HIDE DEF K, f
  <2>8. f \in Injection(K, Missing(S) \ Missing(R))
    BY <2>6, <2>7 DEF Injection, IsInjective
  <2>9. /\ IsFiniteSet(Missing(S) \ Missing(R))
        /\ Cardinality(Missing(S) \ Missing(R)) = Cardinality(Missing(S)) - Cardinality(Missing(R))
    <3>1. Missing(S) \cap Missing(R) = Missing(R)
      BY <1>1
    <3>2. QED
      BY <1>1, <3>1, FS_Difference
  <2>10. Cardinality(K) <= Cardinality(Missing(S) \ Missing(R)) /\ Cardinality(K) \in Nat
    BY <2>5, <2>8, <2>9, FS_Injection, FS_CardinalityType
  <2>11. QED
    BY <1>1, <2>5, <2>9, <2>10
<1>4. QED
  BY <1>2, <1>3

----------------------------------------------------------------------------
(* How rows of cells are put together.                                     *)
LEMMA BothRows ==
  ASSUME NEW C, NEW a \in Seq(C), NEW b \in Seq(C)
  PROVE  /\ a \o b \in Seq(C) /\ Len(a \o b) = Len(a) + Len(b)
         /\ Len(a) \in Nat /\ Len(b) \in Nat
         /\ \A i \in 1..Len(a) : (a \o b)[i] = a[i]
         /\ \A i \in 1..Len(b) : (a \o b)[Len(a) + i] = b[i]
         /\ \A i \in 1..Len(a) + Len(b) : i \in 1..Len(a) \/ i - Len(a) \in 1..Len(b)
<1>1. /\ a \o b \in Seq(C) /\ Len(a \o b) = Len(a) + Len(b) /\ Len(a) \in Nat /\ Len(b) \in Nat
      /\ \A i \in 1..Len(a) + Len(b) :
           (a \o b)[i] = IF i <= Len(a) THEN a[i] ELSE b[i - Len(a)]
  BY ConcatProperties
<1>2. QED
  BY <1>1

(* Rows are joined in any order of the joins.                              *)
LEMMA Assoc ==
  ASSUME NEW C, NEW a \in Seq(C), NEW b \in Seq(C), NEW c \in Seq(C)
  PROVE  (a \o b) \o c = a \o (b \o c)
<1> DEFINE x == (a \o b) \o c
           y == a \o (b \o c)
<1>1. a \o b \in Seq(C) /\ b \o c \in Seq(C)
  BY BothRows
<1>2. /\ x \in Seq(C) /\ y \in Seq(C) /\ Len(x) = Len(y)
      /\ Len(x) = (Len(a) + Len(b)) + Len(c)
      /\ Len(a) \in Nat /\ Len(b) \in Nat /\ Len(c) \in Nat
  BY <1>1, BothRows
<1>3. ASSUME NEW i \in 1..Len(x) PROVE x[i] = y[i]
  <2>1. \A j \in 1..Len(a) + Len(b) :
          (a \o b)[j] = IF j <= Len(a) THEN a[j] ELSE b[j - Len(a)]
    BY ConcatProperties
  <2>2. \A j \in 1..Len(b) + Len(c) :
          (b \o c)[j] = IF j <= Len(b) THEN b[j] ELSE c[j - Len(b)]
    BY ConcatProperties
  <2>3. \A j \in 1..Len(a \o b) + Len(c) :
          x[j] = IF j <= Len(a \o b) THEN (a \o b)[j] ELSE c[j - Len(a \o b)]
    BY <1>1, ConcatProperties
  <2>4. \A j \in 1..Len(a) + Len(b \o c) :
          y[j] = IF j <= Len(a) THEN a[j] ELSE (b \o c)[j - Len(a)]
    BY <1>1, ConcatProperties
  <2>5. Len(a \o b) = Len(a) + Len(b) /\ Len(b \o c) = Len(b) + Len(c)
    BY BothRows
  <2> HIDE DEF x, y
  <2>6. x[i] = IF i <= Len(a) THEN a[i]
               ELSE IF i <= Len(a) + Len(b) THEN b[i - Len(a)] ELSE c[i - (Len(a) + Len(b))]
    BY <1>2, <2>1, <2>3, <2>5
  <2>7. y[i] = IF i <= Len(a) THEN a[i]
               ELSE IF i - Len(a) <= Len(b) THEN b[i - Len(a)] ELSE c[(i - Len(a)) - Len(b)]
    BY <1>2, <2>2, <2>4, <2>5
  <2>8. (i - Len(a)) - Len(b) = i - (Len(a) + Len(b))
    BY <1>2
  <2>9. (i - Len(a) <= Len(b)) <=> (i <= Len(a) + Len(b))
    BY <1>2
  <2>10. QED
    BY <2>6, <2>7, <2>8, <2>9
<1>4. QED
  BY <1>2, <1>3, SameSeq

(* The same for cells.                                                     *)
LEMMA CellsAssoc == \A a, b, c \in Seq(Cell) : (a \o b) \o c = a \o (b \o c)
BY Assoc

(* An empty row adds nothing.                                              *)
LEMMA NoneJoined ==
  ASSUME NEW C, NEW a \in Seq(C)
  PROVE  a \o <<>> = a /\ <<>> \o a = a
<1>1. <<>> \in Seq(C) /\ Len(<<>>) = 0
  OBVIOUS
<1>2. a \o <<>> \in Seq(C) /\ Len(a \o <<>>) = Len(a) /\ \A i \in 1..Len(a) : (a \o <<>>)[i] = a[i]
  BY <1>1, BothRows
<1>3. /\ <<>> \o a \in Seq(C) /\ Len(<<>> \o a) = Len(a)
      /\ \A i \in 1..Len(a) : (<<>> \o a)[i] = a[i]
  <2>1. /\ <<>> \o a \in Seq(C) /\ Len(<<>> \o a) = 0 + Len(a) /\ Len(a) \in Nat
        /\ \A i \in 1..Len(a) : (<<>> \o a)[0 + i] = a[i]
    BY <1>1, BothRows
  <2>2. QED
    BY <2>1
<1>4. QED
  BY <1>2, <1>3, SameSeq

(* A row is its front and what is behind it.                               *)
LEMMA Divided ==
  ASSUME NEW C, NEW s \in Seq(C), NEW n \in 0..Len(s)
  PROVE  SubSeq(s, 1, n) \o SubSeq(s, n + 1, Len(s)) = s
<1> DEFINE a == SubSeq(s, 1, n)
           b == SubSeq(s, n + 1, Len(s))
<1>1. /\ a \in Seq(C) /\ Len(a) = n /\ \A i \in 1..n : a[i] = s[i]
      /\ b \in Seq(C) /\ Len(b) = Len(s) - n /\ \A i \in 1..Len(s) - n : b[i] = s[n + i]
  BY Pieces
<1>2. Len(s) \in Nat /\ n \in Nat
  OBVIOUS
<1> HIDE DEF a, b
<1>3. /\ a \o b \in Seq(C) /\ Len(a \o b) = Len(a) + Len(b)
      /\ \A i \in 1..Len(a) : (a \o b)[i] = a[i]
      /\ \A i \in 1..Len(b) : (a \o b)[Len(a) + i] = b[i]
  <2>1. a \in Seq(C) /\ b \in Seq(C)
    BY <1>1
  <2>2. QED
    BY <2>1, BothRows
<1>4. ASSUME NEW i \in 1..Len(s) PROVE (a \o b)[i] = s[i]
  <2>1. CASE i <= n
    BY <1>1, <1>2, <1>3, <2>1
  <2>2. CASE n < i
    <3>1. i - n \in 1..Len(s) - n /\ n + (i - n) = i
      BY <1>2, <2>2
    <3>2. b[i - n] = s[i] /\ (a \o b)[n + (i - n)] = b[i - n]
      BY <1>1, <1>3, <3>1
    <3>3. QED
      BY <3>1, <3>2
  <2>3. i <= n \/ n < i
    BY <1>2
  <2>4. QED
    BY <2>1, <2>2, <2>3
<1>5. a \o b = s
  <2>1. a \o b \in Seq(C) /\ Len(a \o b) = Len(s)
    BY <1>1, <1>2, <1>3
  <2>2. \A i \in 1..Len(a \o b) : (a \o b)[i] = s[i]
    BY <1>4, <2>1
  <2> HIDE DEF a, b
  <2>3. QED
    BY <2>1, <2>2, SameSeq
<1>6. QED
  BY <1>5 DEF a, b

(* What is left when the first d cells of what was read are done with.     *)
LEMMA BehindFront ==
  ASSUME NEW a \in Seq(Cell), NEW l \in Seq(Cell), NEW d \in 0..Len(a)
  PROVE  /\ Behind(SubSeq(a, d + 1, Len(a)) \o l, a \o l, d)
         /\ d \in 0..Len(a \o l)
         /\ \A i \in 1..d : SubSeq(a, 1, d)[i] = (a \o l)[i]
         /\ SubSeq(a, 1, d) \in Seq(Cell) /\ Len(SubSeq(a, 1, d)) = d
<1> DEFINE b == SubSeq(a, d + 1, Len(a))
           c == SubSeq(a, 1, d)
<1>1. /\ b \in Seq(Cell) /\ Len(b) = Len(a) - d /\ \A i \in 1..Len(a) - d : b[i] = a[d + i]
      /\ c \in Seq(Cell) /\ Len(c) = d /\ \A i \in 1..d : c[i] = a[i]
  BY Pieces
<1>2. /\ a \o l \in Seq(Cell) /\ Len(a \o l) = Len(a) + Len(l)
      /\ Len(a) \in Nat /\ Len(l) \in Nat
      /\ \A i \in 1..Len(a) : (a \o l)[i] = a[i]
      /\ \A i \in 1..Len(l) : (a \o l)[Len(a) + i] = l[i]
  BY BothRows
<1> HIDE DEF b, c
<1>3. /\ b \o l \in Seq(Cell) /\ Len(b \o l) = Len(b) + Len(l)
      /\ \A i \in 1..Len(b) : (b \o l)[i] = b[i]
      /\ \A i \in 1..Len(l) : (b \o l)[Len(b) + i] = l[i]
  <2>1. b \in Seq(Cell)
    BY <1>1
  <2>2. QED
    BY <2>1, BothRows
<1>4. ASSUME NEW i \in 1..Len(b \o l) PROVE (b \o l)[i] = (a \o l)[d + i]
  <2>1. CASE i <= Len(b)
    <3>1. i \in 1..Len(b) /\ d + i \in 1..Len(a)
      BY <1>1, <1>2, <2>1
    <3>2. QED
      BY <1>1, <1>2, <1>3, <3>1
  <2>2. CASE Len(b) < i
    <3>1. i - Len(b) \in 1..Len(l) /\ Len(b) + (i - Len(b)) = i /\ Len(a) + (i - Len(b)) = d + i
      BY <1>1, <1>2, <1>3, <2>2
    <3>2. /\ (b \o l)[Len(b) + (i - Len(b))] = l[i - Len(b)]
          /\ (a \o l)[Len(a) + (i - Len(b))] = l[i - Len(b)]
      BY <1>2, <1>3, <3>1
    <3>3. QED
      BY <3>1, <3>2
  <2>3. QED
    BY <1>1, <1>2, <2>1, <2>2
<1>5. Len(b \o l) = Len(a \o l) - d
  BY <1>1, <1>2, <1>3
<1>6. Behind(b \o l, a \o l, d)
  BY <1>3, <1>4, <1>5 DEF Behind
<1>7. d \in 0..Len(a \o l) /\ \A i \in 1..d : c[i] = (a \o l)[i]
  BY <1>1, <1>2
<1>8. QED
  BY <1>1, <1>6, <1>7 DEF b, c

(* The sendings that lose a cell with what was read.                       *)
LEMMA TouchedFront ==
  ASSUME transit \in Seq(Item), NEW S \in Seq(Cell), NEW s \in Seq(Cell),
         Len(s) <= Len(S), \A i \in 1..Len(s) : s[i] = S[i]
  PROVE  Touched(s) = TouchedBy(S, transit, Len(s))
<1>1. DOMAIN transit = 1..Len(transit)
  OBVIOUS
<1>2. \A c : c \in Nodes(s) <=> \E i \in 1..Len(s) : c = s[i]
  BY DEF Nodes
<1>3. ASSUME NEW j
      PROVE  (\E c \in Nodes(s) : c.of = transit[j].of)
               <=> \E b \in 1..Len(s) : S[b].of = transit[j].of
  <2>1. ASSUME NEW c \in Nodes(s), c.of = transit[j].of
        PROVE  \E b \in 1..Len(s) : S[b].of = transit[j].of
    <3>1. PICK b \in 1..Len(s) : c = s[b]
      BY <1>2
    <3>2. S[b].of = transit[j].of
      BY <2>1, <3>1
    <3>3. QED
      BY <3>2
  <2>2. ASSUME NEW b \in 1..Len(s), S[b].of = transit[j].of
        PROVE  \E c \in Nodes(s) : c.of = transit[j].of
    <3>1. s[b] \in Nodes(s) /\ s[b].of = transit[j].of
      BY <1>2, <2>2
    <3>2. QED
      BY <3>1
  <2>3. QED
    BY <2>1, <2>2
<1>4. QED
  BY <1>1, <1>3 DEF Touched, TouchedBy

----------------------------------------------------------------------------
(* What LossyLink sees of the sendings in transit.                         *)
Pair == [msg : Message, whole : BOOLEAN]

View(T) == [i \in 1..Len(T) |-> [msg |-> T[i].msg, whole |-> T[i].whole]]

LinkStep == Link!Next \/ UNCHANGED <<InTransit, credit, received>>

(* What the lossy link sees of the sendings in transit.                    *)
LEMMA Viewed ==
  ASSUME NEW T \in Seq(Item)
  PROVE  /\ View(T) \in Seq(Pair) /\ Len(View(T)) = Len(T) /\ Len(T) \in Nat
         /\ DOMAIN View(T) = 1..Len(T)
         /\ \A i \in 1..Len(T) : /\ View(T)[i] = [msg |-> T[i].msg, whole |-> T[i].whole]
                                 /\ View(T)[i].msg = T[i].msg /\ View(T)[i].whole = T[i].whole
<1>1. \A i \in 1..Len(T) : [msg |-> T[i].msg, whole |-> T[i].whole] \in Pair
  <2> SUFFICES ASSUME NEW i \in 1..Len(T)
               PROVE  [msg |-> T[i].msg, whole |-> T[i].whole] \in Pair
    OBVIOUS
  <2>1. T[i] \in Item
    OBVIOUS
  <2>2. T[i].msg \in Message /\ T[i].whole \in BOOLEAN
    BY <2>1 DEF Item
  <2>3. QED
    BY <2>2 DEF Pair
<1>2. View(T) \in [1..Len(T) -> Pair]
  BY <1>1 DEF View
<1>3. Len(T) \in Nat
  OBVIOUS
<1>4. View(T) \in Seq(Pair) /\ Len(View(T)) = Len(T)
  BY <1>2, <1>3, Rows
<1>5. QED
  BY <1>3, <1>4 DEF View

(* InTransit is that view.                                                 *)
LEMMA InTransitIs ==
  /\ transit \in Seq(Item) => InTransit = View(transit)
  /\ transit' \in Seq(Item) => InTransit' = View(transit')
<1>1. ASSUME transit \in Seq(Item) PROVE InTransit = View(transit)
  <2>1. DOMAIN transit = 1..Len(transit)
    BY <1>1
  <2>2. QED
    BY <2>1 DEF InTransit, View
<1>2. ASSUME transit' \in Seq(Item) PROVE InTransit' = View(transit')
  <2>1. DOMAIN transit' = 1..Len(transit')
    BY <1>2
  <2>2. QED
    BY <2>1 DEF InTransit, View
<1>3. QED
  BY <1>1, <1>2

(* Marking the sendings P is what Spoilt does with the sendings Q, if      *)
(* those that were whole are in P when they are in Q.                      *)
LEMMA SpoiltMarks ==
  ASSUME transit \in Seq(Item), NEW P, Marked(transit, transit', P), NEW Q,
         \A i \in 1..Len(transit) : transit[i].whole => (i \in P <=> i \in Q)
  PROVE  Link!Spoilt(Q)
<1> DEFINE n == Len(transit)
           new(i) == [InTransit[i] EXCEPT !.whole = @ /\ i \notin Q]
<1>1. /\ InTransit = View(transit) /\ InTransit' = View(transit')
      /\ DOMAIN InTransit = 1..n /\ Len(transit') = n
      /\ transit' \in Seq(Item)
  BY InTransitIs, Viewed DEF Marked
<1>2. ASSUME NEW i \in 1..n
      PROVE  new(i) = [msg |-> transit'[i].msg, whole |-> transit'[i].whole]
  <2>1. InTransit[i] = [msg |-> transit[i].msg, whole |-> transit[i].whole]
    BY <1>1, Viewed
  <2>2. new(i) = [msg |-> transit[i].msg, whole |-> transit[i].whole /\ i \notin Q]
    BY <2>1
  <2>3. transit'[i].msg = transit[i].msg /\ transit'[i].whole = (transit[i].whole /\ i \notin P)
    BY DEF Marked
  <2>4. (transit[i].whole /\ i \notin P) = (transit[i].whole /\ i \notin Q)
    <3>1. transit[i] \in Item
      OBVIOUS
    <3>2. transit[i].whole \in BOOLEAN
      BY <3>1 DEF Item
    <3>3. QED
      BY <3>2
  <2>5. QED
    BY <2>2, <2>3, <2>4
<1> HIDE DEF new
<1>3. InTransit' = [i \in 1..n |-> new(i)]
  BY <1>1, <1>2 DEF View
<1>4. QED
  BY <1>1, <1>3 DEF Link!Spoilt, new

(* The last of them.                                                       *)
LEMMA LastOf ==
  ASSUME NEW n \in Nat, NEW P \in SUBSET (1..n), P # {}
  PROVE  \E m \in P : \A i \in P : i <= m
<1> DEFINE N == {n - i : i \in P}
<1>1. N \in SUBSET Nat /\ N # {}
  <2>1. \A i \in P : n - i \in Nat
    OBVIOUS
  <2>2. PICK i \in P : TRUE
    OBVIOUS
  <2>3. n - i \in N
    OBVIOUS
  <2>4. QED
    BY <2>1, <2>3
<1> HIDE DEF N
<1>2. PICK k \in N : \A i \in N : k <= i
  BY <1>1, LeastPosition
<1>3. PICK m \in P : k = n - m
  BY DEF N
<1>4. ASSUME NEW i \in P PROVE i <= m
  <2>1. n - i \in N
    BY DEF N
  <2>2. k <= n - i
    BY <1>2, <2>1
  <2>3. i \in Int /\ m \in Int
    OBVIOUS
  <2>4. QED
    BY <1>3, <2>2, <2>3
<1>5. QED
  BY <1>4

(* LossyLink counts as this module does.                                   *)
LEMMA LinkCounts ==
  ASSUME NEW P
  PROVE  Link!Cardinality(P) = Cardinality(P)
BY DEF Link!Cardinality, Cardinality

(* A part of the stream is dropped.                                        *)
LEMMA Dropped ==
  ASSUME CellsTold, NEW S, Flow(S, transit), credit \in Nat, Paid(S, credit),
         NEW d \in 0..Len(S), NEW R, Behind(R, S, d),
         NEW s \in Seq(Cell), Len(s) = d, \A i \in 1..Len(s) : s[i] = S[i],
         TakenAlong(S, transit, d) = {} \/ \E h \in 1..d : Taker(S, transit, d, h),
         Discard(s), received' = received
  PROVE  Flow(R, transit') /\ credit' \in Nat /\ Paid(R, credit') /\ LinkStep
<1> DEFINE Q == TakenAlong(S, transit, d)
           q == Cardinality(Q)
           n == Len(transit)
<1>1. /\ S \in Seq(Cell) /\ transit \in Seq(Item) /\ n \in Nat /\ Len(S) \in Nat
      /\ \A i \in 1..n : transit[i].whole \in BOOLEAN
  BY OneOwner DEF Flow
<1>2. Touched(s) = TouchedBy(S, transit, d)
  BY <1>1, TouchedFront
<1>3. Gone(s) /\ Charge(q)
  BY <1>2 DEF Discard, TakenAlong
<1>4. Marked(transit, transit', TouchedBy(S, transit, d))
  BY <1>1, <1>2, <1>3, GoneMarks
<1>5. Flow(R, transit')
  BY <1>4, BehindFlow
<1>6. q \in Nat /\ Cardinality(Missing(R)) + q <= Cardinality(Missing(S))
  BY AlongPaid
<1>7. /\ Cardinality(Missing(S)) \in Nat /\ Cardinality(Missing(R)) \in Nat
      /\ Cardinality(Missing(S)) <= credit
  BY <1>1, MissingFinite DEF Behind, Paid
<1> HIDE DEF q
<1>8. q <= credit /\ credit' = credit - q
  BY <1>3, <1>6, <1>7, Charged
<1>9. credit' \in Nat /\ Paid(R, credit')
  BY <1>6, <1>7, <1>8 DEF Paid
<1>10. Q \in SUBSET (1..n)
  BY DEF TakenAlong, TouchedBy
<1>11. \A i \in 1..n : i \in Q <=> transit[i].whole /\ i \in TouchedBy(S, transit, d)
  BY DEF TakenAlong
<1>12. CASE Q = {}
  <2>1. q = 0
    BY <1>12, FS_EmptySet DEF q
  <2>2. ASSUME NEW i \in 1..n
        PROVE  transit'[i].msg = transit[i].msg /\ transit'[i].whole = transit[i].whole
    BY <1>1, <1>4, <1>11, <1>12 DEF Marked
  <2>3. transit' \in Seq(Item) /\ Len(transit') = n
    BY <1>4 DEF Marked
  <2>4. View(transit') = View(transit)
    BY <2>2, <2>3 DEF View
  <2>5. InTransit' = InTransit
    BY <1>1, <2>3, <2>4, InTransitIs
  <2>6. credit' = credit
    BY <1>8, <2>1
  <2>7. QED
    BY <1>5, <1>9, <2>5, <2>6 DEF LinkStep
<1>13. CASE Q # {}
  <2> HIDE DEF Q
  <2>1. PICK l \in Q : \A i \in Q : i <= l
    BY <1>1, <1>10, <1>13, LastOf
  <2>2. l \in 1..n /\ l \in TouchedBy(S, transit, d)
    BY <1>10, <1>11
  <2>3. ASSUME NEW i \in 1..n, transit[i].whole
        PROVE  i \in TouchedBy(S, transit, d) <=> i \in 1..l
    <3>1. ASSUME i \in TouchedBy(S, transit, d) PROVE i \in 1..l
      BY <1>1, <1>11, <2>1, <2>2, <2>3, <3>1
    <3>2. ASSUME i \in 1..l PROVE i \in TouchedBy(S, transit, d)
      <4>1. i <= l
        BY <2>2, <3>2
      <4>2. QED
        BY <2>2, <2>3, <4>1, FirstTouched
    <3>3. QED
      BY <3>1, <3>2
  <2>4. Link!Spoilt(1..l)
    BY <1>1, <1>4, <2>3, SpoiltMarks
  <2>5. /\ DOMAIN InTransit = 1..n
        /\ \A i \in 1..n : InTransit[i].whole = transit[i].whole
    <3>1. transit \in Seq(Item)
      BY <1>1
    <3>2. InTransit = View(transit)
      BY <3>1, InTransitIs
    <3>3. /\ DOMAIN View(transit) = 1..Len(transit)
          /\ \A i \in 1..Len(transit) : View(transit)[i].whole = transit[i].whole
      BY <3>1, Viewed
    <3>4. QED
      BY <3>2, <3>3
  <2>6. {i \in 1..l : InTransit[i].whole} = Q
    <3>1. \A i \in 1..l : i \in 1..n
      BY <1>1, <2>2
    <3>2. \A i \in 1..l : InTransit[i].whole <=> i \in Q
      BY <1>11, <2>3, <2>5, <3>1
    <3>3. \A i \in Q : i \in 1..l
      BY <1>10, <1>11, <2>3
    <3>4. QED
      BY <3>2, <3>3
  <2>7. Cardinality({i \in 1..l : InTransit[i].whole}) = q
    BY <2>6 DEF q
  <2>8. Link!Swallow
    <3>1. l \in DOMAIN InTransit
      BY <2>2, <2>5
    <3>2. /\ Link!Cardinality({i \in 1..l : InTransit[i].whole}) <= credit
          /\ credit' = credit - Link!Cardinality({i \in 1..l : InTransit[i].whole})
      BY <1>8, <2>7, LinkCounts
    <3>3. QED
      BY <2>4, <3>1, <3>2, Zenon DEF Link!Swallow
  <2>9. QED
    BY <1>5, <1>9, <2>8 DEF LinkStep, Link!Next
<1>14. QED
  BY <1>12, <1>13

----------------------------------------------------------------------------
(* The invariant of the receiver behind a lossy line.                      *)
LinkInv ==
  /\ Types /\ Late /\ credit \in Nat
  /\ Flow(Stream, transit) /\ Paid(Stream, credit)

(* While a message is received the stream begins with what is in the       *)
(* header and the payload.                                                 *)
LEMMA StreamIs ==
  ASSUME Types, rxState # "Initialize"
  PROVE  /\ Stream = (header \o payload) \o line
         /\ header \in Seq(Cell) /\ payload \in Seq(Cell) /\ line \in Seq(Cell)
         /\ header \o payload \in Seq(Cell)
         /\ Len(header \o payload) = Len(header) + Len(payload)
         /\ Len(header) \in Nat /\ Len(payload) \in Nat /\ Len(line) \in Nat
         /\ Stream \in Seq(Cell) /\ Len(Stream) = Len(header) + Len(payload) + Len(line)
         /\ \A i \in 1..Len(header) : Stream[i] = header[i]
         /\ \A i \in 1..Len(payload) : Stream[Len(header) + i] = payload[i]
         /\ \A i \in 1..Len(header \o payload) : (header \o payload)[i] = Stream[i]
<1>1. header \in Seq(Cell) /\ payload \in Seq(Cell) /\ line \in Seq(Cell)
  BY DEF Types, BufferTypes, LineType
<1>2. Stream = (header \o payload) \o line
  BY DEF Stream
<1> DEFINE a == header \o payload
<1>3. /\ a \in Seq(Cell) /\ Len(a) = Len(header) + Len(payload)
      /\ Len(header) \in Nat /\ Len(payload) \in Nat
      /\ \A i \in 1..Len(header) : a[i] = header[i]
      /\ \A i \in 1..Len(payload) : a[Len(header) + i] = payload[i]
  BY <1>1, BothRows
<1> HIDE DEF a
<1>4. /\ a \o line \in Seq(Cell) /\ Len(a \o line) = Len(a) + Len(line) /\ Len(line) \in Nat
      /\ \A i \in 1..Len(a) : (a \o line)[i] = a[i]
  <2>1. a \in Seq(Cell)
    BY <1>3
  <2>2. QED
    BY <1>1, <2>1, BothRows
<1>5. Stream = a \o line
  BY <1>2 DEF a
<1>6. \A i \in 1..Len(a) : Stream[i] = a[i]
  BY <1>4, <1>5
<1>7. /\ \A i \in 1..Len(header) : i \in 1..Len(a)
      /\ \A i \in 1..Len(payload) : Len(header) + i \in 1..Len(a)
  BY <1>3
<1>8. /\ \A i \in 1..Len(header) : Stream[i] = header[i]
      /\ \A i \in 1..Len(payload) : Stream[Len(header) + i] = payload[i]
  BY <1>3, <1>6, <1>7
<1>9. Len(Stream) = Len(header) + Len(payload) + Len(line) /\ Stream \in Seq(Cell)
  BY <1>3, <1>4, <1>5
<1>10. QED
  BY <1>1, <1>2, <1>3, <1>4, <1>6, <1>8, <1>9 DEF a

(* What is read from the line and what is left are the line.               *)
LEMMA LineTaken ==
  ASSUME line \in Seq(Cell), NEW w, NEW n \in Nat, Read(w, n)
  PROVE  Cells(n) \in Seq(Cell) /\ line' \in Seq(Cell) /\ Cells(n) \o line' = line
<1>1. n \in 0..Len(line) /\ Cells(n) \in Seq(Cell) /\ line' \in Seq(Cell)
  BY ReadTakes
<1>2. line' = SubSeq(line, n + 1, Len(line))
  BY DEF Read, Taken
<1>3. QED
  BY <1>1, <1>2, Divided DEF Cells

(* Reading moves cells from the line to the buffers, and nothing else.     *)
LEMMA StreamKept ==
  Types /\ (Initialize \/ ReadingHeader \/ ReadingPayload \/ Poll \/ Tick \/ UNCHANGED vars)
    => Stream' = Stream
<1> SUFFICES ASSUME Types,
                    \/ Initialize \/ ReadingHeader \/ ReadingPayload
                    \/ Poll \/ Tick \/ UNCHANGED vars
             PROVE  Stream' = Stream
  OBVIOUS
<1>1. header \in Seq(Cell) /\ payload \in Seq(Cell) /\ line \in Seq(Cell)
  BY DEF Types, BufferTypes, LineType
<1>2. CASE Initialize
  <2>1. /\ rxState = "Initialize" /\ rxState' = "WaitingForHeader"
        /\ header' = <<>> /\ payload' = <<>> /\ line' = line
    BY <1>2 DEF Initialize
  <2>2. <<>> \in Seq(Cell)
    OBVIOUS
  <2>3. (<<>> \o <<>>) \o line = line
    BY <1>1, <2>2, NoneJoined
  <2>4. QED
    BY <2>1, <2>3 DEF Stream
<1>3. CASE ReadingHeader
  <2>1. PICK n \in 0..HeaderCells :
          Read(HeaderCells - Len(header), n) /\ header' = header \o Cells(n)
    BY <1>3 DEF ReadingHeader
  <2>2. /\ rxState = "ReadingHeader" /\ rxState' # "Initialize"
        /\ payload' = payload /\ payload = <<>>
    BY <1>3 DEF ReadingHeader, Types, Phases
  <2>3. n \in Nat
    BY WireAssumption
  <2>4. Cells(n) \in Seq(Cell) /\ line' \in Seq(Cell) /\ Cells(n) \o line' = line
    BY <1>1, <2>1, <2>3, LineTaken
  <2>5. header \o Cells(n) \in Seq(Cell)
    BY <1>1, <2>4, BothRows
  <2>6. (header \o Cells(n)) \o <<>> = header \o Cells(n) /\ header \o <<>> = header
    BY <1>1, <2>5, NoneJoined
  <2>7. (header \o Cells(n)) \o line' = header \o (Cells(n) \o line')
    <3>1. header \in Seq(Cell) /\ Cells(n) \in Seq(Cell) /\ line' \in Seq(Cell)
      BY <1>1, <2>4
    <3>2. QED
      BY <3>1, Assoc
  <2>8. Stream' = ((header \o Cells(n)) \o <<>>) \o line' /\ Stream = (header \o <<>>) \o line
    BY <2>1, <2>2 DEF Stream
  <2>9. QED
    BY <2>4, <2>6, <2>7, <2>8
<1>4. CASE ReadingPayload
  <2> DEFINE l == Len(Payload[Verified(header)])
  <2>1. l \in Nat /\ Len(payload) < l /\ Len(payload) \in Nat
    <3>1. Verified(header) # NoMessage /\ Len(payload) < l
      BY <1>4 DEF ReadingPayload, Types, BufferTypes, Phases
    <3>2. QED
      BY <1>1, <3>1, VerifiedIs, Frames
  <2> HIDE DEF l
  <2>2. PICK n \in 0..l - Len(payload) :
          /\ Read(l - Len(payload), n) /\ payload' = payload \o Cells(n)
          /\ rxState' = IF n = l - Len(payload) THEN "CompletePayload" ELSE rxState
    BY <1>4 DEF ReadingPayload, l
  <2>3. rxState = "ReadingPayload" /\ header' = header /\ n \in Nat
    BY <1>4, <2>1 DEF ReadingPayload
  <2>4. Cells(n) \in Seq(Cell) /\ line' \in Seq(Cell) /\ Cells(n) \o line' = line
    BY <1>1, <2>2, <2>3, LineTaken
  <2>5. /\ header \o payload \in Seq(Cell)
        /\ header \o (payload \o Cells(n)) = (header \o payload) \o Cells(n)
    <3>1. header \o payload \in Seq(Cell)
      BY <1>1, BothRows
    <3>2. (header \o payload) \o Cells(n) = header \o (payload \o Cells(n))
      <4>1. header \in Seq(Cell) /\ payload \in Seq(Cell) /\ Cells(n) \in Seq(Cell)
        BY <1>1, <2>4
      <4>2. QED
        BY ONLY <4>1, CellsAssoc, Zenon
    <3>3. QED
      BY <3>1, <3>2
  <2>6. ((header \o payload) \o Cells(n)) \o line' = (header \o payload) \o (Cells(n) \o line')
    <3>1. header \o payload \in Seq(Cell) /\ Cells(n) \in Seq(Cell) /\ line' \in Seq(Cell)
      BY <2>4, <2>5
    <3>2. QED
      BY ONLY <3>1, CellsAssoc, Zenon
  <2>7. Stream' = (header \o (payload \o Cells(n))) \o line'
    BY <2>2, <2>3 DEF Stream
  <2>8. Stream = (header \o payload) \o line
    BY <2>3 DEF Stream
  <2>9. QED
    BY <2>4, <2>5, <2>6, <2>7, <2>8
<1>5. CASE Poll \/ Tick \/ UNCHANGED vars
  <2>1. line' = line /\ rxState' = rxState /\ header' = header /\ payload' = payload
    <3>1. CASE Poll
      BY <3>1 DEF Poll
    <3>2. CASE Tick
      BY <3>2 DEF Tick
    <3>3. CASE UNCHANGED vars
      BY <3>3 DEF vars
    <3>4. QED
      BY <1>5, <3>1, <3>2, <3>3
  <2>2. QED
    BY <2>1 DEF Stream
<1>6. QED
  BY <1>2, <1>3, <1>4, <1>5

(* The sending that the header is from is whole and at its place, or is    *)
(* not whole: what is short or differs from it is not whole.               *)
LEMMA WholeInFront ==
  ASSUME NEW S, NEW T, Flow(S, T), NEW b \in 1..Len(S), S[b].at = b,
         NEW j \in 1..Len(T), T[j].of = S[b].of, T[j].whole
  PROVE  /\ T[j].msg = S[b].msg /\ Len(Frame(T[j].msg)) <= Len(S)
         /\ \A k \in 1..Len(Frame(T[j].msg)) :
              S[k].val = Frame(T[j].msg)[k] /\ S[k].of = S[b].of
<1>1. PICK p \in 0..Len(S) :
        /\ Stands(S, T[j], p)
        /\ T[j].msg \in Message /\ Len(Frame(T[j].msg)) \in Nat
        /\ HeaderCells <= Len(Frame(T[j].msg)) /\ HeaderCells \in Nat \ {0}
        /\ p + Len(Frame(T[j].msg)) <= Len(S)
        /\ \A c \in 1..Len(S) : S[c].of = T[j].of =>
             c = p + S[c].at /\ p + 1 <= c /\ c <= p + Len(Frame(T[j].msg))
  BY Placed
<1>2. Len(S) \in Nat
  BY OneOwner
<1>3. p = 0
  <2>1. b = p + S[b].at
    BY <1>1
  <2>2. QED
    BY <1>2, <2>1
<1>4. T[j].msg = S[b].msg
  BY OneOwner
<1> DEFINE m == T[j].msg
<1>5. \A k \in 1..Len(Frame(m)) :
        S[k].of = T[j].of /\ S[k].msg = m /\ S[k].at = k /\ Good(S[k])
  <2>1. \A k \in 1..Len(Frame(m)) :
          S[p + k].of = T[j].of /\ S[p + k].msg = m /\ S[p + k].at = k /\ Good(S[p + k])
    BY <1>1 DEF Stands
  <2>2. \A k \in 1..Len(Frame(m)) : p + k = k
    BY <1>1, <1>3
  <2>3. QED
    BY <2>1, <2>2
<1>6. QED
  BY <1>1, <1>3, <1>4, <1>5 DEF Good

----------------------------------------------------------------------------
FlowKept ==
  Flow(Stream', transit') /\ credit' \in Nat /\ Paid(Stream', credit') /\ LinkStep

(* The first cell in the header is the first of its sending.               *)
LEMMA FirstCell ==
  ASSUME CellsTold, LinkInv, rxState # "Initialize", Len(header) >= 1
  PROVE  1 \in 1..Len(Stream) /\ Stream[1].at = 1 /\ Good(Stream[1]) /\ Stream[1] = header[1]
<1>1. /\ Len(header) \in Nat /\ Stream[1] = header[1] /\ 1 \in 1..Len(Stream)
  <2>1. /\ Len(header) \in Nat /\ Len(payload) \in Nat /\ Len(line) \in Nat
        /\ Len(Stream) = Len(header) + Len(payload) + Len(line)
        /\ \A i \in 1..Len(header) : Stream[i] = header[i]
    BY StreamIs DEF LinkInv
  <2>2. 1 \in 1..Len(header)
    BY <2>1
  <2>3. QED
    BY <2>1, <2>2
<1>2. PICK sig \in Signatures :
        \A i \in 1..Len(header) : i <= SignatureCells => header[i].val = sig[i]
  BY DEF LinkInv, Types, Phases, Starts
<1>3. header[1].val = sig[1]
  <2>1. 1 \in 1..Len(header) /\ 1 <= SignatureCells
    BY <1>1, WireAssumption
  <2>2. QED
    BY <1>2, <2>1
<1>4. sig[1] # Noise
  BY DEF CellsTold
<1>5. /\ Good(Stream[1]) \/ Stream[1].val = Noise
      /\ Stream[1].at \in 1..Size(Stream[1]) /\ Stream[1].msg \in Message
  <2>1. Flow(Stream, transit)
    BY DEF LinkInv
  <2>2. Stream[1].at \in 1..Size(Stream[1]) /\ Stream[1].msg \in Message
    BY <1>1, <2>1, OneOwner
  <2>3. Proper(Stream)
    BY <2>1 DEF Flow
  <2>4. QED
    BY <1>1, <2>2, <2>3 DEF Proper
<1>6. Good(Stream[1])
  BY <1>1, <1>3, <1>4, <1>5
<1>7. Stream[1].at = 1
  <2>1. Frame(Stream[1].msg)[Stream[1].at] = sig[1]
    BY <1>1, <1>3, <1>6 DEF Good
  <2>2. QED
    BY <1>5, <2>1 DEF CellsTold, Size
<1>8. QED
  BY <1>1, <1>6, <1>7

(* A header that verifies is the one of the sending its last cell is from. *)
LEMMA LastCell ==
  ASSUME CellsTold, LinkInv, rxState # "Initialize", Len(header) = HeaderCells,
         Verified(header) # NoMessage
  PROVE  /\ HeaderCells \in 1..Len(Stream) /\ Stream[HeaderCells] = header[HeaderCells]
         /\ Stream[HeaderCells].at = HeaderCells
         /\ Stream[HeaderCells].msg = Verified(header) /\ Verified(header) \in Message
         /\ Size(Stream[HeaderCells]) = HeaderCells + Len(Payload[Verified(header)])
         /\ \A k \in 1..HeaderCells : Stream[k].val = Frame(Verified(header))[k]
<1> DEFINE m == Verified(header)
           h == HeaderCells
           s == SignatureCells
<1>1. m \in Message /\ Values(header) = Header(m)
  BY VerifiedIs
<1>2. h \in Nat /\ s \in Nat \ {0} /\ h > s
  BY WireAssumption
<1>3. /\ header \in Seq(Cell) /\ Len(payload) \in Nat /\ Len(line) \in Nat
      /\ Len(Stream) = h + Len(payload) + Len(line)
      /\ \A i \in 1..h : Stream[i] = header[i]
  BY StreamIs DEF LinkInv
<1>4. h \in 1..Len(Stream)
  BY <1>2, <1>3
<1>5. /\ \A k \in 1..h : Frame(m)[k] = Header(m)[k]
      /\ Len(Frame(m)) = h + Len(Payload[m]) /\ Len(Payload[m]) \in Nat
      /\ \A i \in 1..h - s : Header(m)[s + i] = <<m, i>>
  BY <1>1, Frames
<1>6. \A k \in 1..h : header[k].val = Header(m)[k]
  <2>1. DOMAIN header = 1..h
    BY <1>3
  <2>2. \A k \in 1..h : Values(header)[k] = header[k].val
    BY <2>1 DEF Values
  <2>3. QED
    BY <1>1, <2>2
<1> HIDE DEF m, s
<1>7. \A k \in 1..h : Stream[k].val = Frame(m)[k]
  BY <1>3, <1>5, <1>6
<1> DEFINE c == Stream[h]
<1>8. Frame(m)[h] = <<m, h - s>> /\ h \in 1..Len(Frame(m)) /\ h - s \in 1..h - s /\ h \in 1..h
  <2>1. h - s \in 1..h - s /\ s + (h - s) = h /\ h \in 1..h
    BY <1>2 DEF s
  <2>2. Header(m)[s + (h - s)] = <<m, h - s>>
    BY <1>5, <2>1
  <2>3. h \in 1..Len(Frame(m))
    BY <1>2, <1>5
  <2>4. QED
    BY <1>5, <2>1, <2>2, <2>3
<1>9. c.val = <<m, h - s>> /\ c.val # Noise
  <2>1. c.val = Frame(m)[h]
    BY <1>7, <1>8
  <2>2. Frame(m)[h] # Noise
    BY <1>1, <1>8 DEF CellsTold, m
  <2>3. QED
    BY <1>8, <2>1, <2>2
<1>10. Good(c) /\ c.at \in 1..Len(Frame(c.msg)) /\ c.msg \in Message
  <2>1. Flow(Stream, transit)
    BY DEF LinkInv
  <2>2. c.at \in 1..Size(c) /\ c.msg \in Message
    BY <1>4, <2>1, OneOwner
  <2>3. Proper(Stream)
    BY <2>1 DEF Flow
  <2>4. QED
    BY <1>4, <1>9, <2>2, <2>3 DEF Proper, Size
<1>11. c.msg = m /\ c.at = s + (h - s)
  <2>1. Frame(c.msg)[c.at] = <<m, h - s>>
    BY <1>9, <1>10 DEF Good
  <2>2. QED
    BY <1>1, <1>8, <1>10, <2>1 DEF CellsTold, m, s
<1>12. c.at = h
  BY <1>2, <1>11 DEF s
<1>13. Size(c) = h + Len(Payload[m])
  BY <1>5, <1>11 DEF Size
<1>14. QED
  BY <1>1, <1>3, <1>4, <1>7, <1>8, <1>11, <1>12, <1>13 DEF m

(* The header and the payload are done with.                               *)
LEMMA Ended ==
  ASSUME CellsTold, LinkInv, rxState # "Initialize", rxState' = "Initialize", line' = line,
         received' = received, Discard(header \o payload),
         NEW d, d = Len(header) + Len(payload),
         TakenAlong(Stream, transit, d) = {} \/ \E h \in 1..d : Taker(Stream, transit, d, h)
  PROVE  FlowKept
<1> DEFINE a == header \o payload
           S == Stream
<1>1. /\ S = a \o line /\ a \in Seq(Cell) /\ line \in Seq(Cell)
      /\ Len(a) = d /\ \A i \in 1..Len(a) : a[i] = S[i]
      /\ Len(a) \in Nat
  BY StreamIs DEF LinkInv
<1> HIDE DEF a
<1>2. Behind(line, S, d) /\ d \in 0..Len(S)
  <2>1. d \in 0..Len(a) /\ d = Len(a)
    BY <1>1
  <2>2. Behind(SubSeq(a, d + 1, Len(a)) \o line, a \o line, d) /\ d \in 0..Len(a \o line)
    BY <1>1, <2>1, BehindFront
  <2>3. SubSeq(a, d + 1, Len(a)) = <<>>
    <3>1. Len(SubSeq(a, d + 1, Len(a))) = Len(a) - d /\ SubSeq(a, d + 1, Len(a)) \in Seq(Cell)
      BY <1>1, <2>1, Pieces
    <3>2. Len(a) - d = 0
      BY <1>1, <2>1
    <3>3. QED
      BY <3>1, <3>2, EmptySeq
  <2>4. <<>> \o line = line
    BY <1>1, NoneJoined
  <2>5. QED
    BY <1>1, <2>2, <2>3, <2>4
<1>3. Flow(S, transit) /\ credit \in Nat /\ Paid(S, credit)
  BY DEF LinkInv
<1>4. Discard(a)
  BY DEF a
<1> HIDE DEF S
<1>5. Flow(line, transit') /\ credit' \in Nat /\ Paid(line, credit') /\ LinkStep
  BY <1>1, <1>2, <1>3, <1>4, Dropped DEF S
<1>6. Stream' = line
  BY DEF Stream
<1>7. QED
  BY <1>5, <1>6 DEF FlowKept

(* A header that does not verify is from a sending that is not whole.      *)
LEMMA VerifyStep == CellsTold /\ LinkInv /\ CompleteHeader => FlowKept /\ Late'
<1> SUFFICES ASSUME CellsTold, LinkInv, CompleteHeader PROVE FlowKept /\ Late'
  OBVIOUS
<1>1. /\ rxState = "CompleteHeader" /\ elapsed' = 0 /\ line' = line /\ received' = received
      /\ header' = header /\ payload' = payload
      /\ rxState' = IF Verified(header) = NoMessage THEN "Initialize"
               ELSE IF Payload[Verified(header)] = <<>> THEN "CompletePayload" ELSE "ReadingPayload"
      /\ Discard(IF Verified(header) = NoMessage THEN header ELSE <<>>)
  BY DEF CompleteHeader
<1>2. /\ Types /\ Flow(Stream, transit) /\ credit \in Nat /\ Paid(Stream, credit)
      /\ header \in Seq(Cell) /\ Len(header) = HeaderCells /\ payload = <<>>
      /\ HeaderCells \in Nat \ {0}
  BY <1>1, WireAssumption DEF LinkInv, Types, BufferTypes, Phases
<1>3. Late'
  BY <1>1 DEF Late
<1>4. CASE Verified(header) # NoMessage
  <2>1. Discard(<<>>)
    BY <1>1, <1>4
  <2>2. Stream' = Stream
    BY <1>1, <1>4 DEF Stream
  <2>3. Len(Stream) \in Nat /\ Stream \in Seq(Cell)
    BY <1>2, OneOwner DEF Flow
  <2>4. 0 \in 0..Len(Stream) /\ Behind(Stream, Stream, 0)
    BY <2>3 DEF Behind
  <2>5. TakenAlong(Stream, transit, 0) = {}
    BY DEF TakenAlong, TouchedBy
  <2>6. <<>> \in Seq(Cell) /\ Len(<<>>) = 0 /\ \A i \in 1..Len(<<>>) : <<>>[i] = Stream[i]
    OBVIOUS
  <2> DEFINE S == Stream
             o == <<>>
  <2>7. /\ S \in Seq(Cell) /\ Flow(S, transit) /\ Paid(S, credit) /\ 0 \in 0..Len(S)
        /\ Behind(S, S, 0) /\ TakenAlong(S, transit, 0) = {}
        /\ o \in Seq(Cell) /\ Len(o) = 0 /\ Discard(o) /\ \A i \in 1..Len(o) : o[i] = S[i]
    BY <1>2, <2>1, <2>3, <2>4, <2>5, <2>6
  <2> HIDE DEF S, o
  <2>8. Flow(S, transit') /\ credit' \in Nat /\ Paid(S, credit') /\ LinkStep
    BY <1>1, <1>2, <2>7, Dropped
  <2>9. QED
    BY <1>3, <2>2, <2>8 DEF FlowKept, S
<1>5. CASE Verified(header) = NoMessage
  <2>1. rxState' = "Initialize" /\ Discard(header) /\ rxState # "Initialize"
    BY <1>1, <1>5
  <2>2. header \o payload = header /\ Len(header) + Len(payload) = HeaderCells
    BY <1>2, NoneJoined
  <2>3. /\ 1 \in 1..Len(Stream) /\ Stream[1].at = 1 /\ Good(Stream[1])
        /\ Stream[1] = header[1]
    BY <1>2, <2>1, FirstCell
  <2>4. ASSUME NEW j \in 1..Len(transit), transit[j].of = Stream[1].of, transit[j].whole
        PROVE  FALSE
    <3> DEFINE m == transit[j].msg
    <3>1. \A k \in 1..Len(Frame(m)) : Stream[k].val = Frame(m)[k]
      BY <1>2, <2>3, <2>4, WholeInFront
    <3>2. m \in Message
      BY <1>2, OneOwner
    <3>3. /\ Len(Header(m)) = HeaderCells /\ Len(Frame(m)) = HeaderCells + Len(Payload[m])
          /\ Len(Payload[m]) \in Nat
          /\ \A k \in 1..HeaderCells : Frame(m)[k] = Header(m)[k]
          /\ Header(m) = [k \in 1..HeaderCells |-> Header(m)[k]]
      BY <3>2, Frames
    <3>4. \A k \in 1..HeaderCells : header[k] = Stream[k]
      BY <1>2, <2>1, StreamIs
    <3>5. DOMAIN header = 1..HeaderCells
      BY <1>2
    <3>6. \A k \in 1..HeaderCells : header[k].val = Header(m)[k]
      BY <1>2, <3>1, <3>3, <3>4
    <3>7. Values(header) = [k \in 1..HeaderCells |-> header[k].val]
      BY <3>5 DEF Values
    <3> HIDE DEF m
    <3>8. Values(header) = Header(m)
      BY <3>3, <3>6, <3>7
    <3>9. QED
      BY <1>5, <3>2, <3>8, VerifiedIs
  <2>5. Taker(Stream, transit, HeaderCells, 1)
    <3>1. 1 \in 1..HeaderCells /\ 1 <= HeaderCells
      BY <1>2
    <3>2. HeaderCells <= Size(Stream[1])
      BY <1>2, <2>3, OneOwner
    <3>3. QED
      BY <2>3, <2>4, <3>1, <3>2 DEF Taker
  <2>6. 1 \in 1..HeaderCells
    BY <1>2
  <2>7. Discard(header \o payload)
    BY <2>1, <2>2
  <2>8. FlowKept
    BY <1>1, <2>1, <2>2, <2>5, <2>6, <2>7, Ended
  <2>9. QED
    BY <1>3, <2>8
<1>6. QED
  BY <1>4, <1>5

(* Steps that only move cells from the line into the buffers, or wait.     *)
LEMMA QuietStep ==
  CellsTold /\ LinkInv
    /\ (Initialize \/ ReadingHeader \/ ReadingPayload \/ Poll \/ Tick \/ UNCHANGED vars)
    => FlowKept /\ Late'
<1> SUFFICES ASSUME CellsTold, LinkInv,
                    \/ Initialize \/ ReadingHeader \/ ReadingPayload
                    \/ Poll \/ Tick \/ UNCHANGED vars
             PROVE  FlowKept /\ Late'
  OBVIOUS
<1>1. /\ Types /\ Late /\ credit \in Nat
      /\ Flow(Stream, transit) /\ Paid(Stream, credit)
  BY DEF LinkInv
<1>2. Stream' = Stream
  BY <1>1, StreamKept
<1>3. transit' = transit /\ credit' = credit /\ received' = received
  BY DEF Initialize, ReadingHeader, ReadingPayload, Poll, Tick, vars, rest, link
<1>4. LinkStep
  BY <1>3 DEF LinkStep, InTransit
<1>5. FlowKept
  BY <1>1, <1>2, <1>3, <1>4 DEF FlowKept
<1>6. Late'
  <2>1. CASE Initialize \/ ReadingHeader
    <3>1. rxState' # "ReadingPayload"
      BY <2>1 DEF Initialize, ReadingHeader
    <3>2. QED
      BY <3>1 DEF Late
  <2>2. CASE ReadingPayload \/ Poll
    <3>1. elapsed' = 0
      BY <2>2 DEF ReadingPayload, Poll
    <3>2. QED
      BY <3>1 DEF Late
  <2>3. CASE UNCHANGED vars
    BY <1>1, <2>3 DEF Late, vars, link
  <2>4. CASE Tick
    <3>1. /\ rxState = "ReadingPayload" /\ line = <<>> /\ header' = header
          /\ Len(header) = HeaderCells /\ Verified(header) # NoMessage
          /\ Len(payload) < Len(Payload[Verified(header)])
      BY <1>1, <2>4 DEF Tick, Types, BufferTypes, Phases
    <3> DEFINE m == Verified(header)
    <3>2. /\ HeaderCells \in 1..Len(Stream) /\ Stream[HeaderCells] = header[HeaderCells]
          /\ Stream[HeaderCells].at = HeaderCells /\ Stream[HeaderCells].msg = m /\ m \in Message
      BY <3>1, LastCell
    <3>3. /\ Len(Stream) = HeaderCells + Len(payload) + 0
          /\ Len(payload) \in Nat
      BY <1>1, <3>1, StreamIs
    <3>4. /\ HeaderCells \in Nat /\ Len(Payload[m]) \in Nat
          /\ Len(Frame(m)) = HeaderCells + Len(Payload[m])
      BY <3>2, Frames, WireAssumption
    <3>5. Len(Stream) < Len(Frame(m))
      BY <3>1, <3>3, <3>4
    <3>6. ASSUME NEW j \in 1..Len(transit), transit[j].of = header[HeaderCells].of, transit[j].whole
          PROVE  FALSE
      <4>1. transit[j].msg = Stream[HeaderCells].msg /\ Len(Frame(transit[j].msg)) <= Len(Stream)
        BY <1>1, <3>2, <3>6, WholeInFront
      <4>2. Len(Frame(m)) <= Len(Stream)
        BY <3>2, <4>1
      <4>3. QED
        BY <3>3, <3>4, <3>5, <4>2
    <3>7. QED
      BY <1>3, <3>1, <3>6 DEF Late
  <2>5. QED
    BY <2>1, <2>2, <2>3, <2>4
<1>7. QED
  BY <1>5, <1>6

(* A payload that is late or does not verify is from a sending that is not *)
(* whole.                                                                  *)
LEMMA PayloadStep ==
  CellsTold /\ LinkInv /\ (PayloadTimeout \/ BadPayload) => FlowKept /\ Late'
<1> SUFFICES ASSUME CellsTold, LinkInv, PayloadTimeout \/ BadPayload PROVE FlowKept /\ Late'
  OBVIOUS
<1> DEFINE m == Verified(header)
           h == HeaderCells
           d == Len(header) + Len(payload)
<1>1. /\ rxState \in {"ReadingPayload", "CompletePayload"} /\ rxState' = "Initialize"
      /\ line' = line
      /\ received' = received /\ Discard(header \o payload)
  BY DEF PayloadTimeout, BadPayload, rest
<1>2. /\ Types /\ Flow(Stream, transit) /\ Len(header) = h /\ m # NoMessage
      /\ h \in Nat \ {0} /\ Len(payload) \in Nat
      /\ (Len(payload) < Len(Payload[m]) \/ Len(payload) = Len(Payload[m]))
  BY <1>1, WireAssumption DEF LinkInv, Types, BufferTypes, Phases
<1>3. /\ h \in 1..Len(Stream) /\ Stream[h] = header[h] /\ Stream[h].at = h
      /\ Stream[h].msg = m /\ m \in Message /\ Size(Stream[h]) = h + Len(Payload[m])
      /\ \A k \in 1..h : Stream[k].val = Frame(m)[k]
  BY <1>1, <1>2, LastCell
<1>4. /\ Len(Payload[m]) \in Nat /\ Len(Frame(m)) = h + Len(Payload[m])
      /\ \A i \in 1..Len(Payload[m]) : Frame(m)[h + i] = Payload[m][i]
      /\ Payload[m] \in Seq(Nodes(Payload[m]))
  BY <1>3, Frames
<1>5. ASSUME NEW j \in 1..Len(transit), transit[j].of = Stream[h].of, transit[j].whole
      PROVE  FALSE
  <2>1. CASE PayloadTimeout
    <3>1. rxState = "ReadingPayload" /\ elapsed >= Timeout
      BY <2>1 DEF PayloadTimeout
    <3>2. elapsed > 0
      BY <3>1, WireAssumption DEF LinkInv, Types, CounterTypes
    <3>3. QED
      BY <1>3, <1>5, <3>1, <3>2 DEF LinkInv, Late
  <2>2. CASE BadPayload
    <3>1. rxState = "CompletePayload" /\ ~VerifyPayload
      BY <2>2 DEF BadPayload
    <3>2. Len(payload) = Len(Payload[m]) /\ payload \in Seq(Cell)
      BY <3>1 DEF LinkInv, Types, Phases, BufferTypes
    <3>3. \A k \in 1..Len(Frame(m)) : Stream[k].val = Frame(m)[k]
      <4>1. /\ transit[j].msg = Stream[h].msg
            /\ \A k \in 1..Len(Frame(transit[j].msg)) :
                 Stream[k].val = Frame(transit[j].msg)[k]
        BY <1>2, <1>3, <1>5, WholeInFront
      <4>2. QED
        BY <1>3, <4>1
    <3>4. \A i \in 1..Len(payload) : Stream[h + i] = payload[i]
      BY <1>1, <1>2, StreamIs
    <3>5. \A i \in 1..Len(Payload[m]) : h + i \in 1..Len(Frame(m))
      BY <1>2, <1>4
    <3>6. \A i \in 1..Len(Payload[m]) : payload[i].val = Payload[m][i]
      BY <1>4, <3>2, <3>3, <3>4, <3>5
    <3>7. Values(payload) = [i \in 1..Len(Payload[m]) |-> payload[i].val]
      BY <3>2 DEF Values
    <3>8. Payload[m] = [i \in 1..Len(Payload[m]) |-> Payload[m][i]]
      BY <1>4
    <3> HIDE DEF m
    <3>9. Values(payload) = Payload[m]
      BY <3>6, <3>7, <3>8
    <3>10. QED
      BY <3>1, <3>9 DEF VerifyPayload, m
  <2>3. QED
    BY <2>1, <2>2
<1>6. h \in 1..d /\ d <= Size(Stream[h]) /\ h <= HeaderCells
  BY <1>2, <1>3, <1>4
<1>7. Taker(Stream, transit, d, h)
  BY <1>3, <1>5, <1>6 DEF Taker
<1>8. rxState # "Initialize" /\ LinkInv
  BY <1>1
<1> HIDE DEF d, h
<1>9. FlowKept
  <2>1. d = Len(header) + Len(payload)
    BY DEF d
  <2>2. \E k \in 1..d : Taker(Stream, transit, d, k)
    BY <1>6, <1>7
  <2>3. QED
    BY <1>1, <1>8, <2>1, <2>2, Ended
<1>10. QED
  BY <1>1, <1>9 DEF Late

(* What is dropped while a signature is looked for is of no whole sending. *)
LEMMA ResyncStep == CellsTold /\ LinkInv /\ WaitingForHeader => FlowKept /\ Late'
<1> SUFFICES ASSUME CellsTold, LinkInv, WaitingForHeader PROVE FlowKept /\ Late'
  OBVIOUS
<1>1. /\ Types /\ Flow(Stream, transit) /\ credit \in Nat /\ Paid(Stream, credit)
      /\ rxState = "WaitingForHeader" /\ payload = <<>> /\ payload' = payload
      /\ received' = received
      /\ rxState' \in {"ReadingHeader", "WaitingForHeader"}
      /\ line \in Seq(Cell) /\ header \in Seq(Cell)
      /\ HeaderCells \in Nat
  BY WireAssumption DEF LinkInv, Types, LineType, BufferTypes, Phases, WaitingForHeader, rest
<1>2. PICK n \in 0..HeaderCells :
        /\ Read(HeaderCells - Len(header), n)
        /\ header' = Synched(header \o Cells(n))
        /\ Discard(SubSeq(header \o Cells(n), 1,
                          Len(header \o Cells(n)) - Len(Synched(header \o Cells(n)))))
  BY DEF WaitingForHeader
<1> DEFINE got == header \o Cells(n)
           l == line'
<1>3. Cells(n) \in Seq(Cell) /\ l \in Seq(Cell) /\ Cells(n) \o l = line
  <2>1. n \in Nat
    BY <1>1
  <2>2. QED
    BY <1>1, <1>2, <2>1, LineTaken
<1>4. got \in Seq(Cell)
  BY <1>1, <1>3, BothRows
<1>5. Stream = got \o l
  <2>1. header \o payload = header
    BY <1>1, NoneJoined
  <2>2. Stream = header \o line
    BY <1>1, <2>1 DEF Stream
  <2>3. Cells(n) \in Seq(Cell) /\ l \in Seq(Cell) /\ header \in Seq(Cell)
    BY <1>1, <1>3
  <2> HIDE DEF l
  <2>4. got \o l = header \o (Cells(n) \o l)
    BY <2>3, Assoc
  <2>5. QED
    BY <1>3, <2>2, <2>4
<1> HIDE DEF got, l
<1>6. header' = Synched(got) /\ Discard(SubSeq(got, 1, Len(got) - Len(Synched(got))))
  BY <1>2 DEF got
<1>7. PICK d \in 0..Len(got) :
        /\ Synched(got) = SubSeq(got, d + 1, Len(got)) /\ Synched(got) \in Seq(Cell)
        /\ Len(Synched(got)) = Len(got) - d
        /\ \A j \in 1..d : ~Starts(SubSeq(got, j, Len(got)))
  BY <1>4, SynchedIs
<1> DEFINE s == SubSeq(got, 1, d)
           R == Synched(got) \o l
           S == got \o l
<1>8. Discard(s)
  <2>1. Len(got) - (Len(got) - d) = d
    BY <1>4
  <2>2. QED
    BY <1>6, <1>7, <2>1
<1>9. /\ Behind(R, S, d) /\ d \in 0..Len(S)
      /\ \A i \in 1..d : s[i] = S[i]
      /\ s \in Seq(Cell) /\ Len(s) = d
  BY <1>3, <1>4, <1>7, BehindFront
<1>10. Stream' = R
  <2>1. Stream' = (Synched(got) \o <<>>) \o l
    BY <1>1, <1>6 DEF Stream, l
  <2>2. Synched(got) \o <<>> = Synched(got)
    BY <1>7, NoneJoined
  <2>3. QED
    BY <2>1, <2>2
<1>11. Flow(S, transit) /\ Paid(S, credit)
  BY <1>1, <1>5
<1>12. ASSUME NEW j \in TakenAlong(S, transit, d) PROVE FALSE
  <2>1. j \in 1..Len(transit) /\ transit[j].whole /\ \E b \in 1..d : S[b].of = transit[j].of
    BY DEF TakenAlong, TouchedBy
  <2>2. PICK b \in 1..d : S[b].of = transit[j].of
    BY <2>1
  <2>3. Len(S) \in Nat /\ b \in 1..Len(S)
    <3> HIDE DEF S
    <3>1. Len(S) \in Nat
      BY <1>11, OneOwner
    <3>2. QED
      BY <1>9, <3>1
  <2> DEFINE m == transit[j].msg
  <2>4. PICK p \in 0..Len(S) :
          /\ Stands(S, transit[j], p) /\ m \in Message /\ Len(Frame(m)) \in Nat
          /\ HeaderCells <= Len(Frame(m)) /\ p + 1 <= b
    <3> HIDE DEF S
    <3>1. QED
      BY <1>11, <2>1, <2>2, <2>3, Placed
  <2>5. \A k \in 1..Len(Frame(m)) : /\ S[p + k].msg = m /\ S[p + k].at = k /\ Good(S[p + k])
    BY <2>4 DEF Stands
  <2>6. p + 1 \in 1..d /\ p \in 0..Len(got) /\ Len(got) \in Nat
    BY <1>4, <2>3, <2>4
  <2> DEFINE w == SubSeq(got, p + 1, Len(got))
  <2>7. Len(w) = Len(got) - p /\ \A i \in 1..Len(got) - p : w[i] = got[p + i]
    BY <1>4, <2>6, Pieces
  <2>8. \A i \in 1..Len(got) : S[i] = got[i]
    BY <1>3, <1>4, BothRows
  <2>9. /\ Signature[m] \in Signatures /\ SignatureCells \in Nat
        /\ \A i \in 1..SignatureCells : Frame(m)[i] = Signature[m][i]
        /\ SignatureCells < HeaderCells
    <3>1. Signature[m] \in Signatures /\ SignatureCells \in Nat /\ SignatureCells < HeaderCells
      BY <2>4, WireAssumption
    <3>2. /\ \A i \in 1..HeaderCells : Frame(m)[i] = Header(m)[i]
          /\ \A i \in 1..SignatureCells : Header(m)[i] = Signature[m][i]
      BY <2>4, Frames
    <3>3. \A i \in 1..SignatureCells : i \in 1..HeaderCells
      BY <1>1, <3>1
    <3>4. QED
      BY <3>1, <3>2, <3>3
  <2> HIDE DEF S, w, m
  <2>10. ASSUME NEW i \in 1..Len(w), i <= SignatureCells
         PROVE  w[i].val = Signature[m][i]
    <3>1. /\ i \in 1..SignatureCells /\ i \in 1..Len(Frame(m)) /\ p + i \in 1..Len(got)
          /\ i \in 1..Len(got) - p
      BY <1>1, <2>4, <2>6, <2>7, <2>9, <2>10
    <3>2. w[i] = S[p + i]
      BY <2>7, <2>8, <3>1
    <3>3. S[p + i].val = Frame(m)[i]
      BY <2>5, <3>1 DEF Good
    <3>4. QED
      BY <2>9, <3>1, <3>2, <3>3
  <2>11. Starts(w)
    BY <2>9, <2>10 DEF Starts
  <2>12. QED
    BY <1>7, <2>6, <2>11 DEF w
<1> HIDE DEF S, R, s
<1>13. TakenAlong(S, transit, d) = {}
  BY <1>12
<1>14. Flow(R, transit') /\ credit' \in Nat /\ Paid(R, credit') /\ LinkStep
  BY <1>1, <1>8, <1>9, <1>11, <1>13, Dropped
<1>15. QED
  BY <1>1, <1>10, <1>14 DEF FlowKept, Late

----------------------------------------------------------------------------
(* A message is sent.                                                      *)
LEMMA SendStep ==
  ASSUME CellsTold, LinkInv, NEW m \in Message, Send(m)
  PROVE  FlowKept /\ Late'
<1> DEFINE t == (sent + 1) % Cardinality(Transmissions)
           new == [msg |-> m, of |-> t, whole |-> TRUE]
<1>1. /\ Types /\ Late /\ Flow(Stream, transit) /\ credit \in Nat /\ Paid(Stream, credit)
      /\ header \in Seq(Cell) /\ payload \in Seq(Cell) /\ line \in Seq(Cell)
      /\ t \in Transmissions /\ transit \in Seq(Item)
  BY NextNumber DEF LinkInv, Types, BufferTypes, LineType, CounterTypes, LinkTypes
<1>2. /\ line' = line \o Sending(m, t) /\ transit' = Append(transit, new)
      /\ \A j \in 1..Len(transit) : transit[j].of # t
      /\ UNCHANGED <<rxState, header, payload, elapsed, received, credit>>
  BY <1>1 DEF Send
<1> HIDE DEF t
<1>3. Sending(m, t) \in Seq(Cell)
  BY <1>1, CellFields
<1>4. Stream' = Stream \o Sending(m, t)
  <2>1. header \o payload \in Seq(Cell)
    BY <1>1, BothRows
  <2>2. ((header \o payload) \o line) \o Sending(m, t)
          = (header \o payload) \o (line \o Sending(m, t))
    <3>1. /\ header \o payload \in Seq(Cell) /\ line \in Seq(Cell)
          /\ Sending(m, t) \in Seq(Cell)
      BY <1>1, <1>3, <2>1
    <3>2. QED
      BY ONLY <3>1, CellsAssoc, Zenon
  <2>3. CASE rxState = "Initialize"
    BY <1>2, <2>3 DEF Stream
  <2>4. CASE rxState # "Initialize"
    <3>1. Stream' = (header \o payload) \o (line \o Sending(m, t))
      BY <1>2, <2>4 DEF Stream
    <3>2. Stream = (header \o payload) \o line
      BY <2>4 DEF Stream
    <3>3. QED
      BY <2>2, <3>1, <3>2
  <2>5. QED
    BY <2>3, <2>4
<1> DEFINE S == Stream
           R == Stream \o Sending(m, t)
<1>5. Flow(R, Append(transit, new)) /\ Missing(R) \subseteq Missing(S)
  <2>1. Flow(S, transit)
    BY <1>1
  <2> HIDE DEF S
  <2>2. Flow(S \o Sending(m, t), Append(transit, [msg |-> m, of |-> t, whole |-> TRUE]))
    BY <1>1, <1>2, <2>1, SentFlow
  <2>3. Missing(S \o Sending(m, t)) \subseteq Missing(S)
    BY <1>1, <1>2, <2>1, SentFlow
  <2>4. QED
    BY <2>2, <2>3 DEF S
<1>6. Paid(R, credit)
  <2>1. S \in Seq(Cell) /\ R \in Seq(Cell)
    BY <1>1, <1>5 DEF Flow
  <2> HIDE DEF S, R
  <2>2. /\ IsFiniteSet(Missing(S)) /\ Cardinality(Missing(S)) \in Nat
        /\ Cardinality(Missing(R)) \in Nat
    BY <2>1, MissingFinite
  <2>3. Cardinality(Missing(R)) <= Cardinality(Missing(S))
    BY <1>5, <2>2, FS_Subset
  <2>4. Cardinality(Missing(S)) <= credit
    BY <1>1 DEF Paid, S
  <2>5. QED
    BY <1>1, <2>2, <2>3, <2>4 DEF Paid
<1>7. Late'
  <2> SUFFICES ASSUME rxState = "ReadingPayload", elapsed > 0, NEW j \in 1..Len(transit'),
                      transit'[j].of = header[HeaderCells].of
               PROVE  ~transit'[j].whole
    BY <1>2 DEF Late
  <2>1. new \in Item /\ new.of = t
    BY <1>1 DEF Item
  <2> HIDE DEF new
  <2>2. /\ Len(transit') = Len(transit) + 1 /\ transit'[Len(transit) + 1] = new
        /\ \A i \in 1..Len(transit) : transit'[i] = transit[i]
        /\ Len(transit) \in Nat
    BY <1>1, <1>2, <2>1, AppendProperties
  <2>3. CASE j \in 1..Len(transit)
    BY <1>1, <2>2, <2>3 DEF Late
  <2>4. CASE j = Len(transit) + 1
    <3>1. header[HeaderCells].of = t
      BY <2>1, <2>2, <2>4
    <3>2. Len(header) = HeaderCells /\ Verified(header) # NoMessage
      BY <1>1 DEF Types, BufferTypes
    <3>3. HeaderCells \in 1..Len(Stream) /\ Stream[HeaderCells] = header[HeaderCells]
      BY <3>2, LastCell
    <3>4. \E i \in 1..Len(transit) : transit[i].of = t
      BY <1>1, <3>1, <3>3 DEF Flow, Known
    <3>5. QED
      BY <1>2, <3>4
  <2>5. QED
    BY <2>2, <2>3, <2>4
<1>8. LinkStep
  <2>1. transit' \in Seq(Item)
    BY <1>2, <1>5 DEF Flow
  <2>2. InTransit = View(transit) /\ InTransit' = View(transit')
    BY <1>1, <2>1, InTransitIs
  <2> DEFINE pair == [msg |-> m, whole |-> TRUE]
  <2>3. new \in Item /\ [msg |-> new.msg, whole |-> new.whole] = pair /\ pair \in Pair
    BY <1>1 DEF Item, Pair
  <2> HIDE DEF new
  <2>4. /\ Len(transit') = Len(transit) + 1 /\ transit'[Len(transit) + 1] = new
        /\ \A i \in 1..Len(transit) : transit'[i] = transit[i]
        /\ Len(transit) \in Nat
    BY <1>1, <1>2, <2>3, AppendProperties
  <2>5. /\ View(transit) \in Seq(Pair) /\ Len(View(transit)) = Len(transit)
        /\ \A i \in 1..Len(transit) :
             View(transit)[i] = [msg |-> transit[i].msg, whole |-> transit[i].whole]
    BY <1>1, Viewed
  <2>6. /\ View(transit') \in Seq(Pair) /\ Len(View(transit')) = Len(transit')
        /\ \A i \in 1..Len(transit') :
             View(transit')[i] = [msg |-> transit'[i].msg, whole |-> transit'[i].whole]
    BY <2>1, Viewed
  <2> HIDE DEF pair
  <2>7. /\ Append(View(transit), pair) \in Seq(Pair)
        /\ Len(Append(View(transit), pair)) = Len(transit) + 1
        /\ \A i \in 1..Len(transit) : Append(View(transit), pair)[i] = View(transit)[i]
        /\ Append(View(transit), pair)[Len(transit) + 1] = pair
    BY <2>3, <2>5, AppendProperties
  <2>8. \A i \in 1..Len(transit) : View(transit')[i] = View(transit)[i]
    BY <2>4, <2>5, <2>6
  <2>9. View(transit')[Len(transit) + 1] = pair
    BY <2>3, <2>4, <2>6
  <2>10. View(transit') = Append(View(transit), pair)
    <3> DEFINE a == View(transit')
               b == Append(View(transit), pair)
    <3>1. /\ a \in Seq(Pair) /\ b \in Seq(Pair) /\ Len(a) = Len(b) /\ Len(a) = Len(transit) + 1
      BY <2>4, <2>6, <2>7
    <3>2. ASSUME NEW i \in 1..Len(a) PROVE a[i] = b[i]
      <4>1. i \in 1..Len(transit) \/ i = Len(transit) + 1
        BY <2>4, <3>1
      <4>2. QED
        BY <2>7, <2>8, <2>9, <4>1
    <3> HIDE DEF a, b
    <3>3. a = b
      BY <3>1, <3>2, SameSeq
    <3>4. QED
      BY <3>3 DEF a, b
  <2>11. Link!Send(m)
    BY <1>2, <2>2, <2>10 DEF Link!Send, pair
  <2>12. QED
    BY <2>11 DEF LinkStep, Link!Next
<1>9. QED
  BY <1>1, <1>2, <1>4, <1>5, <1>6, <1>7, <1>8 DEF FlowKept

----------------------------------------------------------------------------
(* A fault on the line is one in the stream.                               *)
LEMMA HitBehind ==
  ASSUME NEW a \in Seq(Cell), NEW S \in Seq(Cell), NEW R, NEW i \in 1..Len(S), NEW o,
         Hit(R, S, i, o)
  PROVE  Hit(a \o R, a \o S, Len(a) + i, o)
<1>1. /\ R \in Seq(Cell) /\ o \in {0, 1} /\ Len(R) = Len(S) - o
      /\ \A b \in 1..Len(S) : b < i => R[b] = S[b]
      /\ \A b \in 1..Len(S) : b > i => R[b - o] = S[b]
      /\ o = 0 => /\ R[i].of = S[i].of /\ R[i].msg = S[i].msg /\ R[i].at = S[i].at
                  /\ R[i].val = Noise
  BY DEF Hit
<1> DEFINE n == Len(a)
           x == a \o R
           y == a \o S
<1>2. /\ x \in Seq(Cell) /\ Len(x) = n + Len(R) /\ n \in Nat /\ Len(R) \in Nat
      /\ \A b \in 1..n : x[b] = a[b]
      /\ \A b \in 1..Len(R) : x[n + b] = R[b]
  <2>1. R \in Seq(Cell)
    BY <1>1
  <2>2. QED
    BY <2>1, BothRows
<1>3. /\ y \in Seq(Cell) /\ Len(y) = n + Len(S) /\ Len(S) \in Nat
      /\ \A b \in 1..n : y[b] = a[b]
      /\ \A b \in 1..Len(S) : y[n + b] = S[b]
  BY BothRows
<1> HIDE DEF n, x, y
<1>4. ASSUME NEW b \in 1..Len(y), b < n + i PROVE x[b] = y[b]
  <2>1. CASE b <= n
    BY <1>2, <1>3, <2>1
  <2>2. CASE n < b
    <3>1. /\ b - n \in 1..Len(S) /\ b - n < i /\ b - n \in 1..Len(R) /\ n + (b - n) = b
      BY <1>1, <1>2, <1>3, <1>4, <2>2
    <3>2. R[b - n] = S[b - n] /\ x[n + (b - n)] = R[b - n] /\ y[n + (b - n)] = S[b - n]
      BY <1>1, <1>2, <1>3, <3>1
    <3>3. QED
      BY <3>1, <3>2
  <2>3. b <= n \/ n < b
    BY <1>2
  <2>4. QED
    BY <2>1, <2>2, <2>3
<1>5. ASSUME NEW b \in 1..Len(y), b > n + i PROVE x[b - o] = y[b]
  <2>1. /\ b - n \in 1..Len(S) /\ b - n > i /\ (b - n) - o \in 1..Len(R) /\ n + (b - n) = b
        /\ n + ((b - n) - o) = b - o
    BY <1>1, <1>2, <1>3, <1>5
  <2>2. /\ R[(b - n) - o] = S[b - n]
        /\ x[n + ((b - n) - o)] = R[(b - n) - o] /\ y[n + (b - n)] = S[b - n]
    BY <1>1, <1>2, <1>3, <2>1
  <2>3. QED
    BY <2>1, <2>2
<1>6. ASSUME o = 0
      PROVE  /\ x[n + i].of = y[n + i].of /\ x[n + i].msg = y[n + i].msg
             /\ x[n + i].at = y[n + i].at /\ x[n + i].val = Noise
  <2>1. i \in 1..Len(R)
    BY <1>1, <1>2, <1>3, <1>6
  <2>2. x[n + i] = R[i] /\ y[n + i] = S[i]
    BY <1>2, <1>3, <2>1
  <2>3. QED
    BY <1>1, <1>6, <2>2
<1>7. Len(x) = Len(y) - o
  BY <1>1, <1>2, <1>3
<1>8. Hit(x, y, n + i, o)
  BY <1>1, <1>2, <1>4, <1>5, <1>6, <1>7 DEF Hit
<1>9. QED
  BY <1>8 DEF x, y, n

(* A fault hits one cell of the line.                                      *)
LEMMA FaultHits ==
  ASSUME line \in Seq(Cell), NEW i \in 1..Len(line),
         line' \in {RemoveAt(line, i), [line EXCEPT ![i].val = Noise]}
  PROVE  \E o : Hit(line', line, i, o)
<1>1. Len(line) \in Nat /\ line[i] \in Cell
  OBVIOUS
<1>2. CASE line' = RemoveAt(line, i)
  <2>1. /\ line' \in Seq(Cell) /\ Len(line') = Len(line) - 1
        /\ \A b \in 1..Len(line) - 1 : line'[b] = IF b < i THEN line[b] ELSE line[b + 1]
    BY <1>2, RemoveProperties
  <2>2. \A b \in 1..Len(line) : b < i => line'[b] = line[b]
    BY <1>1, <2>1
  <2>3. ASSUME NEW b \in 1..Len(line), b > i PROVE line'[b - 1] = line[b]
    <3>1. b - 1 \in 1..Len(line) - 1 /\ ~(b - 1 < i) /\ (b - 1) + 1 = b
      BY <1>1, <2>3
    <3>2. line'[b - 1] = line[(b - 1) + 1]
      BY <2>1, <3>1
    <3>3. QED
      BY <3>1, <3>2
  <2>4. Hit(line', line, i, 1)
    BY <2>1, <2>2, <2>3 DEF Hit
  <2>5. QED
    BY <2>4
<1>3. CASE line' = [line EXCEPT ![i].val = Noise]
  <2> DEFINE c == [line[i] EXCEPT !.val = Noise]
  <2>1. c \in Cell
    BY <1>1, CellFields
  <2>2. c.of = line[i].of /\ c.msg = line[i].msg /\ c.at = line[i].at /\ c.val = Noise
    BY <1>1 DEF Cell
  <2>3. line' = [line EXCEPT ![i] = c]
    BY <1>3
  <2> HIDE DEF c
  <2>4. line' \in Seq(Cell) /\ Len(line') = Len(line)
    BY <2>1, <2>3, ExceptSeq
  <2>5. line'[i] = c /\ \A b \in 1..Len(line) : b # i => line'[b] = line[b]
    BY <2>3
  <2>6. \A b \in 1..Len(line) : b < i => line'[b] = line[b]
    BY <2>5
  <2>7. ASSUME NEW b \in 1..Len(line), b > i PROVE line'[b - 0] = line[b]
    <3>1. b - 0 = b /\ b # i
      BY <2>7
    <3>2. QED
      BY <2>5, <3>1
  <2>8. Len(line') = Len(line) - 0
    BY <1>1, <2>4
  <2>9. Hit(line', line, i, 0)
    BY <2>2, <2>4, <2>5, <2>6, <2>7, <2>8 DEF Hit
  <2>10. QED
    BY <2>9
<1>4. QED
  BY <1>2, <1>3

(* The line or a cell on it is damaged.                                    *)
LEMMA FaultStep == CellsTold /\ LinkInv /\ Fault => FlowKept /\ Late'
<1> SUFFICES ASSUME CellsTold, LinkInv, Fault PROVE FlowKept /\ Late'
  OBVIOUS
<1>1. /\ Types /\ Late /\ Flow(Stream, transit) /\ credit \in Nat /\ Paid(Stream, credit)
      /\ header \in Seq(Cell) /\ payload \in Seq(Cell) /\ line \in Seq(Cell)
      /\ transit \in Seq(Item) /\ Stream \in Seq(Cell)
  BY DEF LinkInv, Types, BufferTypes, LineType, LinkTypes, Flow
<1>2. /\ credit' = credit + 1 /\ UNCHANGED <<rxState, header, payload, elapsed, received>>
      /\ \E i \in DOMAIN line :
           /\ line' \in {RemoveAt(line, i), [line EXCEPT ![i].val = Noise]}
           /\ Gone(<<line[i]>>)
  BY DEF Fault
<1>3. PICK i \in DOMAIN line :
        /\ line' \in {RemoveAt(line, i), [line EXCEPT ![i].val = Noise]}
        /\ Gone(<<line[i]>>)
  BY <1>2
<1>4. i \in 1..Len(line) /\ Len(line) \in Nat
  BY <1>1
<1>5. PICK o : Hit(line', line, i, o)
  BY <1>1, <1>3, <1>4, FaultHits
<1>6. PICK a \in Seq(Cell) : Stream = a \o line /\ Stream' = a \o line'
  <2>1. CASE rxState = "Initialize"
    <3>1. line' \in Seq(Cell)
      BY <1>5 DEF Hit
    <3>2. <<>> \o line = line /\ <<>> \o line' = line' /\ <<>> \in Seq(Cell)
      BY <1>1, <3>1, NoneJoined
    <3>3. QED
      BY <1>2, <2>1, <3>2 DEF Stream
  <2>2. CASE rxState # "Initialize"
    <3>1. header \o payload \in Seq(Cell)
      BY <1>1, BothRows
    <3>2. Stream = (header \o payload) \o line /\ Stream' = (header \o payload) \o line'
      BY <1>2, <2>2 DEF Stream
    <3>3. QED
      BY <3>1, <3>2
  <2>3. QED
    BY <2>1, <2>2
<1> DEFINE S == Stream
           R == a \o line'
           j == Len(a) + i
           P == {k \in 1..Len(transit) : transit[k].of = S[j].of}
<1>7. Hit(R, S, j, o) /\ j \in 1..Len(S) /\ S[j] = line[i]
  <2>1. /\ Len(a \o line) = Len(a) + Len(line) /\ Len(a) \in Nat
        /\ (a \o line)[Len(a) + i] = line[i]
    BY <1>1, <1>4, BothRows
  <2>2. Hit(R, a \o line, j, o)
    BY <1>1, <1>4, <1>5, HitBehind
  <2>3. j \in 1..Len(a \o line)
    BY <1>4, <2>1
  <2>4. QED
    BY <1>6, <2>1, <2>2, <2>3
<1>8. Marked(transit, transit', P)
  <2>1. Nodes(<<line[i]>>) = {line[i]}
    BY DEF Nodes
  <2>2. Touched(<<line[i]>>) = P
    <3>1. DOMAIN transit = 1..Len(transit)
      BY <1>1
    <3>2. Touched(<<line[i]>>) = {k \in 1..Len(transit) : line[i].of = transit[k].of}
      BY <2>1, <3>1 DEF Touched
    <3>3. QED
      BY <1>7, <3>2
  <2> HIDE DEF P
  <2>3. QED
    BY <1>1, <1>3, <2>2, GoneMarks
<1>9. P = {k \in 1..Len(transit) : transit[k].of = S[j].of}
  OBVIOUS
<1>10. Flow(S, transit) /\ Paid(S, credit) /\ S \in Seq(Cell)
  BY <1>1
<1> HIDE DEF P, R, S, j
<1>11. Flow(R, transit')
  BY <1>7, <1>8, <1>9, <1>10, HitFlow
<1>12. Missing(R) \subseteq Missing(S) \cup {<<S[j].of, S[j].at>>}
  BY <1>7, <1>10, HitMissing
<1>13. Paid(R, credit')
  <2> DEFINE e == <<S[j].of, S[j].at>>
             M == Missing(S)
             N == Missing(R)
  <2>1. IsFiniteSet(M) /\ Cardinality(M) \in Nat /\ Cardinality(N) \in Nat
    <3>1. R \in Seq(Cell)
      BY <1>11 DEF Flow
    <3>2. QED
      BY <1>10, <3>1, MissingFinite
  <2>2. N \in SUBSET (M \cup {e}) /\ Cardinality(M) <= credit
    BY <1>10, <1>12 DEF Paid
  <2> HIDE DEF e, M, N
  <2>3. IsFiniteSet(M \cup {e}) /\ Cardinality(M \cup {e}) <= Cardinality(M) + 1
    <3>1. IsFiniteSet(M)
      BY <2>1
    <3>2. /\ IsFiniteSet(M \cup {e})
          /\ Cardinality(M \cup {e}) = IF e \in M THEN Cardinality(M) ELSE Cardinality(M) + 1
      BY <3>1, FS_AddElement
    <3>3. QED
      BY <2>1, <3>2
  <2>4. Cardinality(N) <= Cardinality(M \cup {e}) /\ Cardinality(M \cup {e}) \in Nat
    BY <2>2, <2>3, FS_Subset, FS_CardinalityType
  <2>5. Cardinality(N) <= credit'
    BY <1>1, <1>2, <2>1, <2>2, <2>3, <2>4
  <2>6. QED
    BY <2>5 DEF Paid, N
<1>14. Late'
  <2> SUFFICES ASSUME rxState = "ReadingPayload", elapsed > 0, NEW k \in 1..Len(transit'),
                      transit'[k].of = header[HeaderCells].of
               PROVE  ~transit'[k].whole
    BY <1>2 DEF Late
  <2>1. /\ k \in 1..Len(transit) /\ transit'[k].of = transit[k].of
        /\ transit'[k].whole = (transit[k].whole /\ k \notin P)
    BY <1>8 DEF Marked
  <2>2. ~transit[k].whole
    BY <1>1, <2>1 DEF Late
  <2>3. QED
    BY <2>1, <2>2
<1>15. LinkStep
  <2>1. PICK k \in 1..Len(transit) : transit[k].of = S[j].of
    BY <1>7, <1>10 DEF Flow, Known
  <2>2. ASSUME NEW l \in 1..Len(transit) PROVE l \in P <=> l \in {k}
    <3>1. transit[l].of = transit[k].of => l = k
      BY <1>10, OneOwner
    <3>2. QED
      BY <1>9, <2>1, <3>1
  <2>3. Link!Spoilt({k})
    BY <1>1, <1>8, <2>2, SpoiltMarks
  <2>4. k \in DOMAIN InTransit
    <3>1. InTransit = View(transit) /\ DOMAIN View(transit) = 1..Len(transit)
      BY <1>1, InTransitIs, Viewed
    <3>2. QED
      BY <3>1
  <2>5. Link!Damage
    BY <1>2, <2>3, <2>4 DEF Link!Damage
  <2>6. QED
    BY <2>5 DEF LinkStep, Link!Next
<1>16. credit' \in Nat
  BY <1>1, <1>2
<1>17. QED
  BY <1>6, <1>11, <1>13, <1>14, <1>15, <1>16 DEF FlowKept, R

----------------------------------------------------------------------------
(* There is no memory for the payload.                                     *)
LEMMA RefuseStep == CellsTold /\ LinkInv /\ Refuse => FlowKept /\ Late'
<1> SUFFICES ASSUME CellsTold, LinkInv, Refuse PROVE FlowKept /\ Late'
  OBVIOUS
<1> DEFINE S == Stream
           T == transit
           d == HeaderCells
<1>1. /\ Types /\ Flow(S, T) /\ credit \in Nat /\ Paid(S, credit)
      /\ rxState = "CompleteHeader" /\ rxState' = "Initialize" /\ Verified(header) # NoMessage
      /\ Gone(header) /\ line' = line /\ received' = received /\ credit' = credit
  BY DEF LinkInv, Refuse
<1>2. /\ header \in Seq(Cell) /\ line \in Seq(Cell) /\ T \in Seq(Item)
      /\ Len(header) = d /\ payload = <<>> /\ d \in Nat \ {0}
  BY <1>1, WireAssumption DEF Types, BufferTypes, LineType, LinkTypes, Phases
<1>3. d \in 1..Len(S) /\ S[d] = header[d] /\ S[d].at = d
  BY <1>1, <1>2, LastCell
<1>4. S = header \o line /\ \A i \in 1..d : header[i] = S[i]
  <2>1. S = (header \o payload) \o line /\ \A i \in 1..Len(header) : S[i] = header[i]
    BY <1>1, StreamIs
  <2>2. header \o payload = header
    BY <1>2, NoneJoined
  <2>3. QED
    BY <1>2, <2>1, <2>2
<1>5. Behind(line, S, d) /\ d \in 0..Len(S)
  <2>1. d \in 0..Len(header) /\ d = Len(header)
    BY <1>2
  <2>2. Behind(SubSeq(header, d + 1, Len(header)) \o line, header \o line, d)
    BY <1>2, <2>1, BehindFront
  <2>3. SubSeq(header, d + 1, Len(header)) = <<>>
    <3>1. /\ SubSeq(header, d + 1, Len(header)) \in Seq(Cell)
          /\ Len(SubSeq(header, d + 1, Len(header))) = Len(header) - d
      BY <1>2, <2>1, Pieces
    <3>2. Len(header) - d = 0
      BY <1>2
    <3>3. QED
      BY <3>1, <3>2, EmptySeq
  <2>4. <<>> \o line = line
    BY <1>2, NoneJoined
  <2>5. d \in 0..Len(S)
    BY <1>2, <1>3
  <2>6. QED
    BY <1>4, <2>2, <2>3, <2>4, <2>5
<1>6. Marked(T, transit', TouchedBy(S, T, d))
  <2>1. S \in Seq(Cell) /\ Len(header) <= Len(S) /\ Len(S) \in Nat
    BY <1>1, <1>2, <1>3, StreamIs
  <2>2. Touched(header) = TouchedBy(S, T, d)
    BY <1>2, <1>4, <2>1, TouchedFront
  <2>3. QED
    BY <1>1, <1>2, <2>2, GoneMarks
<1>7. PICK n \in 1..Len(T) : T[n].of = S[d].of
  BY <1>1, <1>3 DEF Flow, Known
<1> HIDE DEF S, d
<1>8. Flow(line, transit') /\ Missing(line) \subseteq Missing(S)
  BY <1>1, <1>5, <1>6, BehindFlow, BehindMissingAll
<1>9. Paid(line, credit')
  <2>1. IsFiniteSet(Missing(S)) /\ Cardinality(Missing(S)) \in Nat
    BY <1>1, MissingFinite DEF Flow
  <2>2. Cardinality(Missing(line)) <= Cardinality(Missing(S)) /\ Cardinality(Missing(line)) \in Nat
    BY <1>2, <1>8, <2>1, FS_Subset, MissingFinite
  <2>3. QED
    BY <1>1, <2>1, <2>2 DEF Paid
<1>10. Stream' = line
  BY <1>1 DEF Stream
<1>11. ASSUME NEW j \in 1..Len(T), T[j].whole
       PROVE  j \in TouchedBy(S, T, d) <=> j \in {n}
  <2>1. ASSUME j \in TouchedBy(S, T, d), j # n PROVE FALSE
    <3>1. PICK b \in 1..d : S[b].of = T[j].of
      BY <2>1 DEF TouchedBy
    <3>2. PICK p \in 0..Len(S) :
            /\ Stands(S, T[j], p) /\ Len(Frame(T[j].msg)) \in Nat
            /\ HeaderCells <= Len(Frame(T[j].msg))
            /\ p + Len(Frame(T[j].msg)) <= Len(S)
      BY <1>1, <1>11, Placed
    <3> DEFINE l == Len(Frame(T[j].msg))
    <3>3. /\ Len(S) \in Nat /\ Len(T) \in Nat /\ InOrder(S, T) /\ d \in 1..Len(S)
          /\ b \in 1..Len(S) /\ d = HeaderCells
      <4>1. Len(S) \in Nat /\ Len(T) \in Nat /\ InOrder(S, T)
        BY <1>1, OneOwner DEF Flow
      <4>2. QED
        BY <1>3, <4>1 DEF d
    <3>4. CASE j < n
      <4>1. l \in 1..l /\ p + l \in 1..Len(S)
        BY <3>2, <3>3
      <4>2. S[p + l].of = T[j].of
        BY <3>2, <4>1 DEF Stands
      <4>3. p + l < d
        BY <1>3, <1>7, <3>3, <3>4, <4>1, <4>2 DEF InOrder
      <4>4. QED
        BY <3>2, <3>3, <4>3
    <3>5. CASE n < j
      <4>1. d < b
        BY <1>3, <1>7, <3>1, <3>3, <3>5 DEF InOrder
      <4>2. QED
        BY <3>3, <4>1
    <3>6. QED
      BY <2>1, <3>3, <3>4, <3>5
  <2>2. n \in TouchedBy(S, T, d)
    <3>1. d \in 1..d
      BY <1>2 DEF d
    <3>2. QED
      BY <1>7, <3>1 DEF TouchedBy
  <2>3. QED
    BY <2>1, <2>2
<1>12. LinkStep
  <2>1. Link!Spoilt({n})
    BY <1>2, <1>6, <1>11, SpoiltMarks
  <2>2. /\ InTransit = View(T) /\ DOMAIN InTransit = 1..Len(T)
        /\ \A i \in 1..Len(T) : InTransit[i].whole = T[i].whole
    BY <1>2, InTransitIs, Viewed
  <2>3. CASE T[n].whole
    <3>1. ASSUME NEW i \in 1..n - 1, T[i].whole PROVE FALSE
      <4>1. i \in 1..Len(T) /\ i < n /\ i # n
        BY <1>2
      <4>2. n \in TouchedBy(S, T, d)
        BY <1>11, <2>3
      <4>3. d \in 0..Len(S) /\ Flow(S, T)
        BY <1>1, <1>5
      <4>4. i \in TouchedBy(S, T, d)
        <5> HIDE DEF T
        <5>1. i <= n
          BY <4>1
        <5>2. QED
          BY <3>1, <4>1, <4>2, <4>3, <5>1, FirstTouched
      <4>5. QED
        BY <1>11, <3>1, <4>1, <4>4
    <3>2. n \in DOMAIN InTransit /\ InTransit[n].whole
      BY <2>2, <2>3
    <3>3. \A i \in 1..n - 1 : ~InTransit[i].whole
      <4>1. \A i \in 1..n - 1 : i \in 1..Len(T)
        BY <1>2
      <4>2. QED
        BY <2>2, <3>1, <4>1
    <3>4. Link!Refuse
      BY <1>1, <2>1, <3>2, <3>3 DEF Link!Refuse
    <3>5. QED
      BY <3>4 DEF LinkStep, Link!Next
  <2>4. CASE ~T[n].whole
    <3>1. ASSUME NEW i \in 1..Len(T)
          PROVE  transit'[i].msg = T[i].msg /\ transit'[i].whole = T[i].whole
      <4>1. /\ transit'[i].msg = T[i].msg
            /\ transit'[i].whole = (T[i].whole /\ i \notin TouchedBy(S, T, d))
        BY <1>6 DEF Marked
      <4>2. T[i].whole \in BOOLEAN
        BY <1>1, OneOwner
      <4>3. T[i].whole => i \notin TouchedBy(S, T, d)
        BY <1>11, <2>4
      <4>4. QED
        BY <4>1, <4>2, <4>3
    <3>2. transit' \in Seq(Item) /\ Len(transit') = Len(T)
      BY <1>6 DEF Marked
    <3>3. View(transit') = View(T)
      BY <3>1, <3>2 DEF View
    <3>4. InTransit' = InTransit
      BY <2>2, <3>2, <3>3, InTransitIs
    <3>5. QED
      BY <1>1, <3>4 DEF LinkStep
  <2>5. QED
    BY <2>3, <2>4
<1>13. QED
  BY <1>1, <1>8, <1>9, <1>10, <1>12 DEF FlowKept, Late

----------------------------------------------------------------------------
(* The stream begins with the cells of message m, those of the sending n   *)
(* among them.                                                             *)
Complete(S, T, m, n, d) ==
  /\ m \in Message /\ n \in 1..Len(T)
  /\ d = Len(Frame(m)) /\ d \in 0..Len(S)
  /\ \A k \in 1..d : S[k].val = Frame(m)[k]
  /\ HeaderCells \in 1..d /\ S[HeaderCells].at = HeaderCells /\ S[HeaderCells].msg = m
  /\ S[HeaderCells].of = T[n].of

(* The sendings before it are not whole; what is behind it is of the later *)
(* ones.                                                                   *)
LEMMA CompleteOwners ==
  ASSUME NEW S, NEW T, Flow(S, T), NEW m, NEW n, NEW d, Complete(S, T, m, n, d)
  PROVE  /\ \A i \in 1..n - 1 : ~T[i].whole
         /\ \A b \in d + 1..Len(S), j \in 1..Len(T) : S[b].of = T[j].of => n < j
         /\ \A b \in 1..HeaderCells, j \in 1..Len(T) : S[b].of = T[j].of => j <= n
         /\ Len(S) \in Nat /\ Len(T) \in Nat /\ d \in Nat /\ n \in 1..Len(T)
         /\ HeaderCells \in 1..Len(S) /\ HeaderCells \in Nat
<1> DEFINE h == HeaderCells
<1>1. /\ Len(S) \in Nat /\ Len(T) \in Nat /\ InOrder(S, T) /\ h \in Nat
      /\ n \in 1..Len(T) /\ d \in 0..Len(S) /\ h \in 1..d
      /\ S[h].at = h /\ S[h].of = T[n].of /\ d = Len(Frame(m))
  <2>1. Len(S) \in Nat /\ Len(T) \in Nat /\ InOrder(S, T)
    BY OneOwner DEF Flow
  <2>2. h \in Nat
    BY WireAssumption
  <2>3. QED
    BY <2>1, <2>2 DEF Complete
<1>2. h \in 1..Len(S) /\ d \in Nat
  BY <1>1
<1>3. ASSUME NEW i \in 1..n - 1, T[i].whole PROVE FALSE
  <2>1. i \in 1..Len(T) /\ i < n
    BY <1>1
  <2>2. PICK p \in 0..Len(S) :
          /\ Stands(S, T[i], p) /\ Len(Frame(T[i].msg)) \in Nat
          /\ HeaderCells <= Len(Frame(T[i].msg))
          /\ p + Len(Frame(T[i].msg)) <= Len(S)
    BY <1>3, <2>1, Placed
  <2> DEFINE l == Len(Frame(T[i].msg))
  <2>3. l \in 1..l /\ p + l \in 1..Len(S)
    BY <1>1, <2>2
  <2>4. S[p + l].of = T[i].of
    BY <2>2, <2>3 DEF Stands
  <2>5. p + l < h
    BY <1>1, <1>2, <2>1, <2>3, <2>4 DEF InOrder
  <2>6. QED
    BY <1>1, <2>2, <2>5
<1>4. ASSUME NEW b \in d + 1..Len(S), NEW j \in 1..Len(T), S[b].of = T[j].of
      PROVE  n < j
  <2>1. b \in 1..Len(S) /\ h < b
    BY <1>1
  <2>2. ~(j < n)
    <3>1. j < n => b < h
      BY <1>1, <1>2, <1>4, <2>1 DEF InOrder
    <3>2. QED
      BY <1>1, <2>1, <3>1
  <2>3. j # n
    <3>1. ASSUME j = n PROVE FALSE
      <4>1. S[h].of = S[b].of
        BY <1>1, <1>4, <3>1
      <4>2. S[h].at + (b - h) <= S[b].at
        BY <1>1, <1>2, <2>1, <4>1, RisesEach
      <4>3. S[b].at \in 1..Size(S[b]) /\ Size(S[b]) \in Nat /\ S[b].msg = S[h].msg
        BY <1>2, <2>1, <4>1, OneOwner
      <4>4. Size(S[b]) = d
        BY <1>1, <4>3 DEF Size, Complete
      <4>5. b \in d + 1..Len(S) /\ Len(S) \in Nat /\ d \in Nat /\ h \in Nat
        BY <1>1, <1>2
      <4>6. h + (b - h) <= S[b].at /\ S[b].at \in 1..d
        BY <1>1, <4>2, <4>3, <4>4
      <4>7. QED
        BY <4>5, <4>6
    <3>2. QED
      BY <3>1
  <2>4. QED
    BY <1>1, <2>2, <2>3
<1>5. ASSUME NEW b \in 1..h, NEW j \in 1..Len(T), S[b].of = T[j].of
      PROVE  j <= n
  <2>1. b \in 1..Len(S) /\ b <= h
    BY <1>1
  <2>2. n < j => h < b
    BY <1>1, <1>2, <1>5, <2>1 DEF InOrder
  <2>3. QED
    BY <1>1, <2>1, <2>2
<1>6. QED
  BY <1>1, <1>2, <1>3, <1>4, <1>5

(* A row that ends in another still does with their first d cells gone.    *)
LEMMA Shifted ==
  ASSUME NEW a \in Nat, NEW d \in Nat, NEW p \in Nat, NEW l \in Nat, p + l <= a, ~(p + 1 <= d)
  PROVE  p - d \in 0..a - d /\ (p - d) + l <= a - d
OBVIOUS

(* What is left when it has arrived.                                       *)
LEMMA CompleteFlow ==
  ASSUME CellsTold, NEW S, NEW T, Flow(S, T), NEW m, NEW n, NEW d, Complete(S, T, m, n, d),
         NEW R, Behind(R, S, d), NEW U \in Seq(Item), Len(U) = Len(T) - n,
         \A i \in 1..Len(T) - n : U[i] = T[n + i]
  PROVE  Flow(R, U)
<1>1. /\ Len(S) \in Nat /\ Len(T) \in Nat /\ Len(U) \in Nat /\ d \in Nat /\ n \in 1..Len(T)
      /\ T \in Seq(Item) /\ S \in Seq(Cell)
      /\ InOrder(S, T) /\ Intact(S, T) /\ Broken(S, T) /\ d \in 0..Len(S)
      /\ \A b \in d + 1..Len(S), j \in 1..Len(T) : S[b].of = T[j].of => n < j
      /\ HeaderCells \in 1..Len(S) /\ HeaderCells \in Nat
  <2>1. d \in 0..Len(S)
    BY DEF Complete
  <2>2. T \in Seq(Item) /\ S \in Seq(Cell) /\ InOrder(S, T) /\ Intact(S, T) /\ Broken(S, T)
    BY DEF Flow
  <2>3. Len(U) \in Nat
    OBVIOUS
  <2>4. /\ Len(S) \in Nat /\ Len(T) \in Nat /\ d \in Nat /\ n \in 1..Len(T)
        /\ HeaderCells \in 1..Len(S) /\ HeaderCells \in Nat
    BY CompleteOwners
  <2>5. \A b \in d + 1..Len(S), j \in 1..Len(T) : S[b].of = T[j].of => n < j
    BY CompleteOwners
  <2>6. QED
    BY <2>1, <2>2, <2>3, <2>4, <2>5
<1>2. /\ R \in Seq(Cell) /\ Len(R) = Len(S) - d /\ Len(R) \in Nat
      /\ \A i \in 1..Len(R) : d + i \in 1..Len(S) /\ R[i] = S[d + i]
      /\ Thinner(R, S, [i \in 1..Len(R) |-> d + i])
  <2>1. S \in Seq(Cell) /\ d \in 0..Len(S)
    BY <1>1
  <2>2. QED
    BY <2>1, BehindIsThinner
<1>3. Marked(T, T, {})
  <2>1. \A i \in 1..Len(T) : T[i].whole \in BOOLEAN
    BY OneOwner
  <2>2. QED
    BY <1>1, <2>1 DEF Marked
<1>4. Proper(R) /\ Known(R, T) /\ InOrder(R, T) /\ Rising(R)
  BY <1>2, <1>3, ThinnerFlow
<1>5. \A j \in 1..Len(U) : n + j \in 1..Len(T) /\ U[j] = T[n + j]
  BY <1>1
<1>6. ASSUME NEW a \in 1..Len(R), NEW j \in 1..Len(T), R[a].of = T[j].of
      PROVE  j - n \in 1..Len(U) /\ U[j - n] = T[j]
  <2>1. d + a \in d + 1..Len(S) /\ S[d + a].of = T[j].of
    BY <1>1, <1>2, <1>6
  <2>2. n < j
    BY <1>1, <2>1
  <2>3. j - n \in 1..Len(U) /\ n + (j - n) = j
    BY <1>1, <2>2
  <2>4. QED
    BY <1>5, <2>3
<1>7. Known(R, U)
  BY <1>4, <1>6 DEF Known
<1>8. InOrder(R, U)
  <2> SUFFICES ASSUME NEW i \in 1..Len(U), NEW j \in 1..Len(U), i < j
               PROVE  /\ U[i].of # U[j].of
                      /\ \A a, b \in 1..Len(R) : R[a].of = U[i].of /\ R[b].of = U[j].of => a < b
    BY DEF InOrder
  <2>1. /\ n + i \in 1..Len(T) /\ n + j \in 1..Len(T) /\ n + i < n + j
        /\ U[i] = T[n + i] /\ U[j] = T[n + j]
    BY <1>1, <1>5
  <2>2. /\ T[n + i].of # T[n + j].of
        /\ \A a, b \in 1..Len(R) : R[a].of = T[n + i].of /\ R[b].of = T[n + j].of => a < b
    BY <1>4, <2>1 DEF InOrder
  <2>3. QED
    BY <2>1, <2>2
<1>9. Intact(R, U)
  <2> SUFFICES ASSUME NEW j \in 1..Len(U), U[j].whole
               PROVE  \E p \in 0..Len(R) : Stands(R, U[j], p)
    BY DEF Intact
  <2> DEFINE w == U[j]
             l == Len(Frame(w.msg))
  <2>1. n + j \in 1..Len(T) /\ w = T[n + j] /\ n < n + j
    BY <1>1, <1>5
  <2>2. PICK p \in 0..Len(S) :
          /\ Stands(S, w, p) /\ w.msg \in Message /\ l \in Nat
          /\ HeaderCells <= l /\ p + l <= Len(S)
    <3>1. T[n + j].whole
      BY <2>1
    <3>2. QED
      BY <2>1, <3>1, Placed
  <2>3. \A k \in 1..l : /\ S[p + k].of = w.of /\ S[p + k].msg = w.msg
                        /\ S[p + k].at = k /\ Good(S[p + k])
    BY <2>2 DEF Stands
  <2>4. HeaderCells \in 1..d /\ S[HeaderCells].of = T[n].of /\ m \in Message
        /\ d = Len(Frame(m)) /\ \A k \in 1..d : S[k].val = Frame(m)[k]
    BY DEF Complete
  <2>5. 1 \in 1..l /\ p + 1 \in 1..Len(S)
    BY <1>1, <2>2, <2>4
  <2>6. HeaderCells < p + 1
    <3>1. S[p + 1].of = T[n + j].of
      BY <2>1, <2>3, <2>5
    <3>2. QED
      BY <1>1, <2>1, <2>4, <2>5, <3>1 DEF InOrder
  <2>7. ASSUME p + 1 <= d PROVE FALSE
    <3>1. p + 1 \in 1..d /\ p + 1 # 1
      BY <1>1, <2>4, <2>6, <2>7
    <3>2. S[p + 1].val = Frame(m)[p + 1] /\ S[p + 1].val = Frame(w.msg)[1]
      BY <2>3, <2>4, <2>5, <3>1 DEF Good
    <3>3. Frame(w.msg)[1] = Signature[w.msg][1] /\ Signature[w.msg] \in Signatures
      <4>1. /\ 1 \in 1..HeaderCells /\ 1 \in 1..SignatureCells
            /\ Signature[w.msg] \in Signatures
        BY <2>2, WireAssumption
      <4>2. /\ \A i \in 1..HeaderCells : Frame(w.msg)[i] = Header(w.msg)[i]
            /\ \A i \in 1..SignatureCells : Header(w.msg)[i] = Signature[w.msg][i]
        BY <2>2, Frames
      <4>3. QED
        BY <4>1, <4>2
    <3>4. QED
      BY <2>4, <3>1, <3>2, <3>3 DEF CellsTold
  <2> HIDE DEF w, l
  <2>8. p - d \in 0..Len(R) /\ (p - d) + l <= Len(R)
    <3>1. /\ Len(S) \in Nat /\ d \in Nat /\ Len(R) = Len(S) - d
          /\ p \in 0..Len(S) /\ p \in Nat /\ l \in Nat /\ p + l <= Len(S) /\ ~(p + 1 <= d)
      BY <1>1, <1>2, <2>2, <2>7
    <3>2. p - d \in 0..Len(S) - d /\ (p - d) + l <= Len(S) - d
      BY <3>1, Shifted
    <3>3. QED
      BY <3>1, <3>2
  <2>9. ASSUME NEW k \in 1..l PROVE R[(p - d) + k] = S[p + k]
    <3>1. (p - d) + k \in 1..Len(R) /\ d + ((p - d) + k) = p + k
      BY <1>1, <1>2, <2>2, <2>8
    <3>2. QED
      BY <1>2, <3>1
  <2>10. Stands(R, w, p - d)
    BY <2>3, <2>8, <2>9 DEF Stands, l
  <2>11. QED
    BY <2>8, <2>10 DEF w
<1>10. Broken(R, U)
  <2> SUFFICES ASSUME NEW a \in 1..Len(R), NEW j \in 1..Len(U),
                      R[a].of = U[j].of, ~U[j].whole, R[a].at = 1, Good(R[a])
               PROVE  \E k \in MissingBehind(R, a) : TRUE
    BY DEF Broken
  <2>1. d + a \in 1..Len(S) /\ R[a] = S[d + a] /\ n + j \in 1..Len(T) /\ U[j] = T[n + j]
    BY <1>2, <1>5
  <2>2. PICK k \in MissingBehind(S, d + a) : TRUE
    BY <1>1, <2>1 DEF Broken
  <2>3. MissingBehind(R, a) = MissingBehind(S, d + a)
    BY <1>1, BehindMissing
  <2>4. QED
    BY <2>2, <2>3
<1>11. QED
  BY <1>2, <1>4, <1>7, <1>8, <1>9, <1>10 DEF Flow

(* A message that is not whole has arrived with cells of others; something *)
(* was missing until then.                                                 *)
LEMMA CompletePaid ==
  ASSUME CellsTold, NEW S, NEW T, Flow(S, T), NEW m, NEW n, NEW d, Complete(S, T, m, n, d),
         NEW R, Behind(R, S, d)
  PROVE  /\ Cardinality(Missing(S)) \in Nat /\ Cardinality(Missing(R)) \in Nat
         /\ Cardinality(Missing(R)) <= Cardinality(Missing(S))
         /\ ~T[n].whole => Cardinality(Missing(R)) < Cardinality(Missing(S))
<1>1. /\ Len(S) \in Nat /\ Len(T) \in Nat /\ d \in Nat /\ n \in 1..Len(T)
      /\ \A i \in 1..n - 1 : ~T[i].whole
      /\ \A b \in d + 1..Len(S), j \in 1..Len(T) : S[b].of = T[j].of => n < j
      /\ \A b \in 1..HeaderCells, j \in 1..Len(T) : S[b].of = T[j].of => j <= n
      /\ HeaderCells \in 1..Len(S) /\ HeaderCells \in Nat
      /\ Known(S, T) /\ Broken(S, T) /\ Proper(S) /\ S \in Seq(Cell)
  BY CompleteOwners DEF Flow
<1>2. d \in 0..Len(S) /\ m \in Message /\ d = Len(Frame(m)) /\ HeaderCells \in 1..d
      /\ \A k \in 1..d : S[k].val = Frame(m)[k]
  BY DEF Complete
<1>3. /\ IsFiniteSet(Missing(S)) /\ Cardinality(Missing(S)) \in Nat
      /\ Cardinality(Missing(R)) \in Nat /\ Missing(R) \in SUBSET Missing(S)
  <2>1. IsFiniteSet(Missing(S)) /\ Cardinality(Missing(S)) \in Nat
    BY <1>1, MissingFinite
  <2>2. Cardinality(Missing(R)) \in Nat
    BY MissingFinite DEF Behind
  <2>3. Missing(R) \in SUBSET Missing(S)
    BY <1>2, BehindMissingAll
  <2>4. QED
    BY <2>1, <2>2, <2>3
<1>4. /\ Cardinality(Missing(R)) <= Cardinality(Missing(S))
      /\ Cardinality(Missing(R)) = Cardinality(Missing(S)) => Missing(S) = Missing(R)
  BY <1>3, FS_Subset
<1>5. ASSUME ~T[n].whole PROVE Missing(S) # Missing(R)
  <2>1. 1 \in 1..d /\ 1 \in 1..Len(S) /\ 1 \in 1..HeaderCells
    BY <1>1, <1>2
  <2>2. S[1].val = Signature[m][1] /\ Signature[m] \in Signatures
    <3>1. 1 \in 1..SignatureCells /\ Signature[m] \in Signatures
      BY <1>2, WireAssumption
    <3>2. /\ \A i \in 1..HeaderCells : Frame(m)[i] = Header(m)[i]
          /\ \A i \in 1..SignatureCells : Header(m)[i] = Signature[m][i]
      BY <1>2, Frames
    <3>3. QED
      BY <1>2, <2>1, <3>1, <3>2
  <2>3. Good(S[1]) /\ S[1].at \in 1..Len(Frame(S[1].msg)) /\ S[1].msg \in Message
    <3>1. S[1].at \in 1..Size(S[1]) /\ S[1].msg \in Message
      BY <2>1, OneOwner
    <3>2. S[1].val # Noise
      BY <2>2 DEF CellsTold
    <3>3. QED
      BY <1>1, <2>1, <3>1, <3>2 DEF Proper, Size
  <2>4. S[1].at = 1
    <3>1. Frame(S[1].msg)[S[1].at] = Signature[m][1]
      BY <2>2, <2>3 DEF Good
    <3>2. QED
      BY <2>2, <2>3, <3>1 DEF CellsTold
  <2>5. PICK j \in 1..Len(T) : S[1].of = T[j].of
    BY <1>1, <2>1 DEF Known
  <2>6. j <= n
    BY <1>1, <2>1, <2>5
  <2>7. ~T[j].whole
    <3>1. j = n \/ j \in 1..n - 1
      BY <1>1, <2>6
    <3>2. QED
      BY <1>1, <1>5, <3>1
  <2>8. PICK k \in MissingBehind(S, 1) : TRUE
    BY <1>1, <2>1, <2>3, <2>4, <2>5, <2>7 DEF Broken
  <2> DEFINE x == <<S[1].of, k>>
  <2>9. x \in Missing(S)
    BY <2>1, <2>8, InMissing
  <2>10. ASSUME x \in Missing(R) PROVE FALSE
    <3>1. PICK i \in d + 1..Len(S) : S[1].of = S[i].of
      BY <1>2, <2>10, BehindMissingAll
    <3>2. S[i].of = T[j].of
      BY <2>5, <3>1
    <3>3. n < j
      BY <1>1, <3>2
    <3>4. QED
      BY <1>1, <2>6, <3>3
  <2>11. QED
    BY <2>9, <2>10
<1>6. QED
  BY <1>3, <1>4, <1>5

(* A message is given to ProcessPayload.                                   *)
LEMMA DeliverStep == CellsTold /\ LinkInv /\ Deliver => FlowKept /\ Late'
<1> SUFFICES ASSUME CellsTold, LinkInv, Deliver PROVE FlowKept /\ Late'
  OBVIOUS
<1> DEFINE S == Stream
           T == transit
           m == Verified(header)
           h == HeaderCells
           d == Len(header) + Len(payload)
           n == Place(header[h])
<1>1. /\ Types /\ Flow(S, T) /\ credit \in Nat /\ Paid(S, credit)
      /\ rxState = "CompletePayload" /\ rxState' = "Initialize" /\ VerifyPayload /\ line' = line
      /\ received' = [msg |-> m, odd |-> ~received.odd]
      /\ Arrived(header[h])
  BY DEF LinkInv, Deliver
<1>2. /\ header \in Seq(Cell) /\ payload \in Seq(Cell) /\ line \in Seq(Cell) /\ T \in Seq(Item)
      /\ Len(header) = h /\ m # NoMessage /\ Len(payload) = Len(Payload[m])
      /\ h \in Nat \ {0} /\ Len(payload) \in Nat
  BY <1>1, WireAssumption DEF Types, BufferTypes, LineType, LinkTypes, Phases
<1>3. /\ h \in 1..Len(S) /\ S[h] = header[h] /\ S[h].at = h /\ S[h].msg = m /\ m \in Message
      /\ \A k \in 1..h : S[k].val = Frame(m)[k]
  BY <1>1, <1>2, LastCell
<1>4. /\ S = (header \o payload) \o line /\ header \o payload \in Seq(Cell)
      /\ Len(header \o payload) = d /\ Len(S) = h + Len(payload) + Len(line) /\ Len(line) \in Nat
      /\ \A i \in 1..Len(payload) : S[h + i] = payload[i]
  <2>1. /\ S = (header \o payload) \o line /\ header \o payload \in Seq(Cell)
        /\ Len(header \o payload) = Len(header) + Len(payload)
        /\ Len(S) = Len(header) + Len(payload) + Len(line) /\ Len(line) \in Nat
        /\ \A i \in 1..Len(payload) : S[Len(header) + i] = payload[i]
    BY <1>1, StreamIs
  <2>2. QED
    BY <1>2, <2>1
<1>5. /\ Len(Frame(m)) = h + Len(payload)
      /\ \A i \in 1..Len(payload) : Frame(m)[h + i] = Payload[m][i]
  BY <1>2, <1>3, Frames
<1>6. \A k \in 1..d : S[k].val = Frame(m)[k]
  <2> SUFFICES ASSUME NEW k \in 1..d PROVE S[k].val = Frame(m)[k]
    OBVIOUS
  <2>1. CASE k \in 1..h
    BY <1>3, <2>1
  <2>2. CASE k \notin 1..h
    <3>1. k - h \in 1..Len(payload) /\ h + (k - h) = k
      BY <1>2, <2>2
    <3>2. \A i \in 1..Len(payload) : Values(payload)[i] = payload[i].val
      BY <1>2 DEF Values
    <3>3. payload[k - h].val = Payload[m][k - h]
      BY <1>1, <3>1, <3>2 DEF VerifyPayload
    <3>4. S[h + (k - h)] = payload[k - h] /\ Frame(m)[h + (k - h)] = Payload[m][k - h]
      BY <1>4, <1>5, <3>1
    <3>5. QED
      BY <3>1, <3>3, <3>4
  <2>3. QED
    BY <2>1, <2>2
<1>7. /\ n \in 0..Len(T) /\ (n # 0 => T[n].of = header[h].of)
      /\ (n = 0 => \A i \in 1..Len(T) : T[i].of # header[h].of)
  BY <1>2, PlaceIs
<1>8. n \in 1..Len(T) /\ T[n].of = S[h].of
  <2>1. \E i \in 1..Len(T) : T[i].of = S[h].of
    BY <1>1, <1>3 DEF Flow, Known
  <2>2. n # 0
    BY <1>3, <1>7, <2>1
  <2>3. QED
    BY <1>3, <1>7, <2>2
<1>9. Complete(S, T, m, n, d)
  <2>1. d = Len(Frame(m)) /\ d \in 0..Len(S) /\ h \in 1..d
    BY <1>2, <1>4, <1>5
  <2>2. QED
    BY <1>3, <1>6, <1>8, <2>1 DEF Complete
<1>10. Behind(line, S, d)
  <2> DEFINE a == header \o payload
  <2>1. a \in Seq(Cell) /\ Len(a) = d /\ S = a \o line /\ d \in Nat
    BY <1>2, <1>4
  <2> HIDE DEF a, d, S
  <2>2. d \in 0..Len(a)
    BY <2>1
  <2>3. Behind(SubSeq(a, d + 1, Len(a)) \o line, a \o line, d)
    BY <1>2, <2>1, <2>2, BehindFront
  <2>4. SubSeq(a, d + 1, Len(a)) = <<>>
    <3>1. SubSeq(a, d + 1, Len(a)) \in Seq(Cell) /\ Len(SubSeq(a, d + 1, Len(a))) = Len(a) - d
      BY <2>1, <2>2, Pieces
    <3>2. Len(a) - d = 0
      BY <2>1
    <3>3. QED
      BY <3>1, <3>2, EmptySeq
  <2>5. <<>> \o line = line
    BY <1>2, NoneJoined
  <2>6. QED
    BY <2>1, <2>3, <2>4, <2>5
<1>11. /\ transit' \in Seq(Item) /\ Len(transit') = Len(T) - n
       /\ \A i \in 1..Len(T) - n : transit'[i] = T[n + i]
       /\ transit' = SubSeq(T, n + 1, Len(T))
       /\ Charge(IF T[n].whole THEN 0 ELSE 1)
  <2>1. credit \in Nat \cup {-1}
    BY <1>1
  <2>2. /\ transit' \in Seq(Item) /\ Len(transit') = Len(T) - n
        /\ \A i \in 1..Len(T) - n : transit'[i] = T[n + i]
    BY <1>1, <1>2, <2>1, ArrivedTypes
  <2>3. /\ transit' = SubSeq(T, n + 1, Len(T))
        /\ Charge(IF \E i \in DOMAIN T : i = n /\ T[i].whole THEN 0 ELSE 1)
    BY <1>1 DEF Arrived
  <2>4. DOMAIN T = 1..Len(T)
    BY <1>2
  <2> HIDE DEF T, n
  <2>5. (\E i \in DOMAIN T : i = n /\ T[i].whole) <=> T[n].whole
    BY <1>8, <2>4
  <2>6. Charge(IF T[n].whole THEN 0 ELSE 1)
    BY <2>3, <2>5
  <2>7. QED
    BY <2>2, <2>3, <2>6 DEF T, n
<1> HIDE DEF S, T, m, n, d, h
<1>12. Flow(line, transit')
  <2> DEFINE U == transit'
  <2>1. /\ U \in Seq(Item) /\ Len(U) = Len(T) - n
        /\ \A i \in 1..Len(T) - n : U[i] = T[n + i]
    BY <1>11
  <2>2. Flow(S, T)
    BY <1>1
  <2> HIDE DEF U
  <2>3. Flow(line, U)
    BY <1>9, <1>10, <2>1, <2>2, CompleteFlow
  <2>4. QED
    BY <2>3 DEF U
<1>13. /\ Cardinality(Missing(S)) \in Nat /\ Cardinality(Missing(line)) \in Nat
       /\ Cardinality(Missing(line)) <= Cardinality(Missing(S))
       /\ ~T[n].whole => Cardinality(Missing(line)) < Cardinality(Missing(S))
  BY <1>1, <1>9, <1>10, CompletePaid
<1>14. /\ credit' \in Nat /\ Paid(line, credit')
       /\ IF T[n].whole THEN credit' = credit ELSE credit > 0 /\ credit' = credit - 1
  <2>1. Cardinality(Missing(S)) <= credit
    BY <1>1 DEF Paid
  <2>2. CASE T[n].whole
    <3>1. Charge(0)
      BY <1>11, <2>2
    <3>2. credit' = credit
      BY <1>1, <3>1 DEF Charge
    <3>3. QED
      BY <1>1, <1>13, <2>1, <2>2, <3>2 DEF Paid
  <2>3. CASE ~T[n].whole
    <3>1. Charge(1) /\ credit > 0
      BY <1>1, <1>11, <1>13, <2>1, <2>3
    <3>2. credit' = credit - 1
      BY <1>1, <3>1 DEF Charge
    <3>3. QED
      BY <1>1, <1>13, <2>1, <2>3, <3>1, <3>2 DEF Paid
  <2>4. QED
    BY <2>2, <2>3
<1>15. Stream' = line
  BY <1>1 DEF Stream
<1>16. Link!Receive
  <2>1. /\ InTransit = View(T) /\ DOMAIN InTransit = 1..Len(T) /\ Len(InTransit) = Len(T)
        /\ \A i \in 1..Len(T) : InTransit[i].whole = T[i].whole /\ InTransit[i].msg = T[i].msg
        /\ \A i \in 1..Len(T) : InTransit[i] = [msg |-> T[i].msg, whole |-> T[i].whole]
        /\ InTransit \in Seq(Pair) /\ Len(T) \in Nat
    <3>1. T \in Seq(Item)
      BY <1>2
    <3>2. InTransit = View(T)
      BY <3>1, InTransitIs DEF T
    <3>3. /\ View(T) \in Seq(Pair) /\ Len(View(T)) = Len(T) /\ Len(T) \in Nat
          /\ DOMAIN View(T) = 1..Len(T)
      BY <3>1, Viewed
    <3>4. \A i \in 1..Len(T) : /\ View(T)[i] = [msg |-> T[i].msg, whole |-> T[i].whole]
                               /\ View(T)[i].msg = T[i].msg /\ View(T)[i].whole = T[i].whole
      BY <3>1, Viewed
    <3> DEFINE I == InTransit
               V == View(T)
    <3> HIDE DEF T, I, V
    <3>5. /\ I = V /\ I \in Seq(Pair) /\ Len(I) = Len(T) /\ Len(T) \in Nat
          /\ DOMAIN I = 1..Len(T)
      BY <3>2, <3>3 DEF I, V
    <3>6. \A i \in 1..Len(T) : I[i].whole = T[i].whole /\ I[i].msg = T[i].msg
      BY <3>4, <3>5 DEF V
    <3>7. \A i \in 1..Len(T) : I[i] = [msg |-> T[i].msg, whole |-> T[i].whole]
      BY <3>4, <3>5 DEF V
    <3>8. QED
      BY <3>5, <3>6, <3>7 DEF I, V
  <2>2. \A i \in 1..n - 1 : ~T[i].whole
    BY <1>1, <1>9, CompleteOwners
  <2>3. \A i \in 1..n - 1 : ~InTransit[i].whole
    <3>1. \A i \in 1..n - 1 : i \in 1..Len(T)
      BY <1>8, <2>1
    <3>2. QED
      BY <2>1, <2>2, <3>1
  <2>4. InTransit[n].msg = m
    <3>1. T[n].msg = S[h].msg
      BY <1>1, <1>3, <1>8, OneOwner
    <3>2. QED
      BY <1>3, <1>8, <2>1, <3>1
  <2>5. InTransit' = SubSeq(InTransit, n + 1, Len(InTransit))
    <3> DEFINE a == View(transit')
               b == SubSeq(InTransit, n + 1, Len(InTransit))
    <3>1. InTransit' = a
      BY <1>11, InTransitIs
    <3>2. /\ a \in Seq(Pair) /\ Len(a) = Len(transit')
          /\ \A i \in 1..Len(transit') :
               a[i] = [msg |-> transit'[i].msg, whole |-> transit'[i].whole]
      BY <1>11, Viewed
    <3>3. /\ b \in Seq(Pair) /\ Len(b) = Len(T) - n
          /\ \A i \in 1..Len(T) - n : b[i] = InTransit[n + i]
      <4>1. n \in 0..Len(InTransit)
        BY <1>8, <2>1
      <4>2. InTransit \in Seq(Pair) /\ Len(InTransit) = Len(T)
        BY <2>1
      <4>3. QED
        BY <4>1, <4>2, Pieces
    <3> HIDE DEF a, b
    <3>4. Len(a) = Len(b) /\ Len(a) = Len(T) - n
      BY <1>11, <3>2, <3>3
    <3>5. ASSUME NEW i \in 1..Len(a) PROVE a[i] = b[i]
      <4>1. i \in 1..Len(T) - n /\ i \in 1..Len(transit') /\ n + i \in 1..Len(T)
        <5>1. /\ Len(T) \in Nat /\ n \in 1..Len(T) /\ Len(a) = Len(T) - n
              /\ Len(transit') = Len(T) - n
          BY <1>8, <1>11, <2>1, <3>4
        <5>2. QED
          BY <5>1
      <4>2. transit'[i] = T[n + i]
        BY <1>11, <4>1
      <4>3. InTransit[n + i] = [msg |-> T[n + i].msg, whole |-> T[n + i].whole]
        BY <2>1, <4>1
      <4>4. QED
        BY <3>2, <3>3, <4>1, <4>2, <4>3
    <3>6. a = b
      <4>1. a \in Seq(Pair) /\ b \in Seq(Pair) /\ Len(a) = Len(b)
        BY <3>2, <3>3, <3>4
      <4>2. QED
        BY <3>5, <4>1, SameSeq
    <3>7. QED
      BY <3>1, <3>6 DEF b
  <2>6. n \in DOMAIN InTransit /\ InTransit[n].whole = T[n].whole
    BY <1>8, <2>1
  <2>7. received' = [msg |-> InTransit[n].msg, odd |-> ~received.odd]
    BY <1>1, <2>4
  <2>8. IF InTransit[n].whole THEN credit' = credit ELSE credit > 0 /\ credit' = credit - 1
    BY <1>14, <2>6
  <2>9. QED
    BY <2>3, <2>5, <2>6, <2>7, <2>8 DEF Link!Receive
<1>17. LinkStep
  BY <1>16 DEF LinkStep, Link!Next
<1>18. QED
  BY <1>1, <1>12, <1>14, <1>15, <1>17 DEF FlowKept, Late

----------------------------------------------------------------------------
(* The first state has the invariant and is one of the lossy link.         *)
LEMMA LinkFirst == Init => LinkInv /\ Link!Init
<1> SUFFICES ASSUME Init PROVE LinkInv /\ Link!Init
  OBVIOUS
<1>1. /\ line = <<>> /\ transit = <<>> /\ rxState = "Initialize" /\ credit = 0 /\ elapsed = 0
      /\ received = [msg |-> NoMessage, odd |-> FALSE]
  BY DEF Init
<1>2. Types /\ Late
  BY <1>1, FirstTypes DEF Late
<1>3. Stream = <<>>
  BY <1>1 DEF Stream
<1>4. <<>> \in Seq(Cell) /\ <<>> \in Seq(Item) /\ Len(<<>>) = 0
  OBVIOUS
<1>5. Flow(<<>>, <<>>)
  BY <1>4 DEF Flow, Proper, Known, InOrder, Rising, Intact, Broken
<1>6. Paid(<<>>, 0)
  <2>1. Missing(<<>>) = {}
    <3>1. \A x \in Missing(<<>>) : FALSE
      BY <1>4, InMissing
    <3>2. QED
      BY <3>1
  <2>2. QED
    BY <2>1, FS_EmptySet DEF Paid
<1>7. InTransit = <<>>
  <2>1. InTransit \in Seq(Pair) /\ Len(InTransit) = 0
    BY <1>1, <1>4, InTransitIs, Viewed
  <2>2. QED
    BY <2>1, EmptySeq
<1>8. LinkInv
  BY <1>1, <1>2, <1>3, <1>5, <1>6 DEF LinkInv
<1>9. Link!Init
  BY <1>1, <1>7 DEF Link!Init
<1>10. QED
  BY <1>8, <1>9

(* Every step keeps the invariant and is a step of the lossy link.         *)
LEMMA LinkKept == CellsTold /\ LinkInv /\ [Next]_vars => LinkInv' /\ LinkStep
<1> SUFFICES ASSUME CellsTold, LinkInv, [Next]_vars PROVE LinkInv' /\ LinkStep
  OBVIOUS
<1>1. Types'
  BY TypesKept DEF LinkInv
<1>2. FlowKept /\ Late'
  <2>1. CASE Initialize \/ ReadingHeader \/ ReadingPayload \/ Poll \/ Tick \/ UNCHANGED vars
    BY <2>1, QuietStep
  <2>2. CASE WaitingForHeader
    BY <2>2, ResyncStep
  <2>3. CASE CompleteHeader
    BY <2>3, VerifyStep
  <2>4. CASE Refuse
    BY <2>4, RefuseStep
  <2>5. CASE PayloadTimeout \/ BadPayload
    BY <2>5, PayloadStep
  <2>6. CASE Deliver
    BY <2>6, DeliverStep
  <2>7. CASE Fault
    BY <2>7, FaultStep
  <2>8. CASE \E m \in Message : Send(m)
    BY <2>8, SendStep
  <2>9. QED
    BY <2>1, <2>2, <2>3, <2>4, <2>5, <2>6, <2>7, <2>8 DEF Next, Process
<1>3. LinkInv'
  <2>1. (Flow(Stream, transit))' /\ (Paid(Stream, credit))' /\ (credit \in Nat)'
    BY <1>2 DEF FlowKept
  <2>2. QED
    BY <1>1, <1>2, <2>1 DEF LinkInv
<1>4. QED
  BY <1>2, <1>3 DEF FlowKept

(* When no cell can be taken for one of another place, what the receiver   *)
(* does behind a line that loses and damages any number of cells is what a *)
(* lossy link does.                                                        *)
THEOREM ImplementsLossyLink == ASSUME CellsTold PROVE Spec => ImplementsLink
<1>1. LinkInv /\ [Next]_vars => LinkInv' /\ LinkStep
  BY LinkKept
<1>2. LinkStep => [Link!Next]_(Link!vars)
  BY DEF LinkStep, Link!vars
<1>3. QED
  BY <1>1, <1>2, LinkFirst, PTL DEF Spec, ImplementsLink, Link!Spec

-----------------------------------------------------------------------------
(* The serial port.                                                        *)
USE UsartAssumption

(* TypeOK in two parts, because arithmetic and truth values are proved by  *)
(* different means.                                                        *)
Numbers ==
  /\ tx \in 0..TxSize /\ forth \in 0..Transmitter /\ rx \in 0..RxSize
  /\ wanted \in 0..RxSize /\ lostXon \in 0..MaxLostXon
  /\ back \in Seq({"XON", "XOFF"}) /\ Len(back) <= Transmitter

Flags ==
  /\ {txe, xon, expired, comEvent, wrote} \subseteq BOOLEAN
  /\ {backTxe, xoffed, dataEventSet, posted, overrun} \subseteq BOOLEAN
  /\ writer \in {"idle", "write", "push1", "push2", "enable", "wait", "flush"}
  /\ pending \subseteq {"XON", "XOFF"} /\ reader \in {"idle", "read", "done"}

(* The marks are numbers below the size of the queue; what they are is not *)
(* looked at again.                                                        *)
LEMMA Marks ==
  /\ High \in Nat /\ Low \in Nat /\ High <= RxSize
  /\ Low < High \/ High = Low
  /\ EnoughRoom => MarksApart /\ High < RxSize
<1>1. /\ High \in Nat /\ Low \in Nat /\ High <= RxSize
      /\ Low < High \/ High = Low
  BY DEF High, Low
<1>2. ASSUME EnoughRoom PROVE MarksApart /\ High < RxSize
  <2>1. High + 5 <= RxSize
    BY <1>1, <1>2 DEF EnoughRoom, Transmitter
  <2>2. RxSize >= 17
    BY <2>1 DEF High
  <2>3. QED
    BY <2>1, <2>2 DEF MarksApart, High, Low
<1>3. QED
  BY <1>1, <1>2

(* What a step of an interrupt routine of the reader may do to the control *)
(* characters in its transmitter.                                          *)
LEMMA Control ==
  ASSUME NEW s \in Seq({"XON", "XOFF"}), NEW c \in {"XON", "XOFF"}
  PROVE  /\ Len(s) \in Nat
         /\ Append(s, c) \in Seq({"XON", "XOFF"}) /\ Len(Append(s, c)) = Len(s) + 1
         /\ Append(s, c) # <<>> /\ Append(s, c)[Len(s) + 1] = c
         /\ s = <<>> => Append(s, c) = <<c>>
         /\ s = <<>> <=> Len(s) = 0
         /\ s # <<>> => /\ Tail(s) \in Seq({"XON", "XOFF"}) /\ Head(s) = s[1]
                        /\ Len(Tail(s)) = Len(s) - 1
                        /\ Len(s) > 1 => Tail(s)[Len(s) - 1] = s[Len(s)]
<1>1. Len(s) \in Nat /\ (s = <<>> <=> Len(s) = 0)
  OBVIOUS
<1>2. /\ Append(s, c) \in Seq({"XON", "XOFF"}) /\ Len(Append(s, c)) = Len(s) + 1
      /\ Append(s, c) # <<>> /\ Append(s, c)[Len(s) + 1] = c
  OBVIOUS
<1>3. s = <<>> => Append(s, c) = <<c>>
  OBVIOUS
<1>4. ASSUME s # <<>>
      PROVE  /\ Tail(s) \in Seq({"XON", "XOFF"}) /\ Head(s) = s[1]
             /\ Len(Tail(s)) = Len(s) - 1
             /\ Len(s) > 1 => Tail(s)[Len(s) - 1] = s[Len(s)]
  <2>1. Len(Tail(s)) = Len(s) - 1 /\ Head(s) = s[1] /\ Tail(s) \in Seq({"XON", "XOFF"})
    BY <1>4
  <2>2. \A i \in 1..Len(s) - 1 : Tail(s)[i] = s[i + 1]
    BY <1>4
  <2>3. Len(s) > 1 => Len(s) - 1 \in 1..Len(s) - 1 /\ (Len(s) - 1) + 1 = Len(s)
    BY <1>1
  <2>4. QED
    BY <2>1, <2>2, <2>3
<1>5. QED
  BY <1>1, <1>2, <1>3, <1>4

----------------------------------------------------------------------------
(* Every step keeps the types.                                             *)
LEMMA PortTypesKept == Numbers /\ Flags /\ [PortNext]_PortVars => (Numbers /\ Flags)'
<1> SUFFICES ASSUME Numbers, Flags, [PortNext]_PortVars
             PROVE  Numbers' /\ Flags'
  OBVIOUS
<1>1. CASE StartWrite
  BY <1>1 DEF StartWrite, Numbers, Flags, Sender, receiver
<1>2. CASE Write
  BY <1>2 DEF Write, Numbers, Flags, Sender, receiver
<1>3. CASE Push
  <2>1. Numbers'
    BY <1>3 DEF Push, Numbers, Sender, receiver
  <2>2. Flags'
    BY <1>3 DEF Push, Flags, Sender, receiver
  <2>3. QED
    BY <2>1, <2>2
<1>4. CASE EnableTx
  BY <1>4 DEF EnableTx, Numbers, Flags, Sender, receiver
<1>5. CASE ProcessActivity
  BY <1>5 DEF ProcessActivity, Numbers, Flags, Sender, receiver
<1>6. CASE Flush \/ FlushDone
  <2>1. Numbers'
    BY <1>6 DEF Flush, FlushDone, Numbers, Sender, receiver
  <2>2. Flags'
    BY <1>6 DEF Flush, FlushDone, Flags, Sender, receiver
  <2>3. QED
    BY <2>1, <2>2
<1>7. CASE DiscardOutBuffer
  BY <1>7 DEF DiscardOutBuffer, Numbers, Flags, Sender, receiver
<1>8. CASE TxEmpty
  <2>1. Numbers'
    <3>1. CASE tx > 0
      BY <1>8, <3>1 DEF TxEmpty, Numbers, Sender, receiver, Transmitter
    <3>2. CASE ~(tx > 0)
      BY <1>8, <3>2 DEF TxEmpty, Numbers, Sender, receiver
    <3>3. QED
      BY <3>1, <3>2
  <2>2. Flags'
    BY <1>8 DEF TxEmpty, Flags, Sender, receiver
  <2>3. QED
    BY <2>1, <2>2
<1>9. CASE Expire
  BY <1>9 DEF Expire, Numbers, Flags, Sender, receiver
<1>10. CASE DataReceived
  <2>1. Numbers'
    BY <1>10 DEF DataReceived, Numbers, Receiver, sender
  <2>2. Flags'
    BY <1>10 DEF DataReceived, Flags, Receiver, sender
  <2>3. QED
    BY <2>1, <2>2
<1>11. CASE ReadSome
  <2>1. Numbers'
    BY <1>11 DEF ReadSome, Numbers, Receiver, sender
  <2>2. Flags'
    BY <1>11 DEF ReadSome, SendXON, Flags, Receiver, sender
  <2>3. QED
    BY <2>1, <2>2
<1>12. CASE ReadDone
  BY <1>12 DEF ReadDone, Numbers, Flags, Receiver, sender
<1>13. CASE ClearDataEvent
  <2>1. Numbers'
    BY <1>13 DEF ClearDataEvent, Numbers, Receiver, sender
  <2>2. Flags'
    <3>1. (rx > 0) \in BOOLEAN
      OBVIOUS
    <3>2. QED
      BY <1>13, <3>1, Zenon DEF ClearDataEvent, Flags, Receiver, sender
  <2>3. QED
    BY <2>1, <2>2
<1>14. CASE DiscardInBuffer
  <2>1. Numbers'
    BY <1>14 DEF DiscardInBuffer, Numbers, Receiver, sender
  <2>2. Flags'
    BY <1>14 DEF DiscardInBuffer, SendXON, Flags, Receiver, sender
  <2>3. QED
    BY <2>1, <2>2
<1>15. CASE BackTxEmpty
  <2>1. back' \in Seq({"XON", "XOFF"}) /\ Len(back') <= Transmitter
    <3>1. back \in Seq({"XON", "XOFF"}) /\ Len(back) < 2
      BY <1>15 DEF BackTxEmpty, Numbers, Transmitter
    <3>2. \A c \in {"XON", "XOFF"} : /\ Append(back, c) \in Seq({"XON", "XOFF"})
                                     /\ Len(Append(back, c)) <= 2
      BY <3>1, Control
    <3>3. back' = back \/ \E c \in {"XON", "XOFF"} : back' = Append(back, c)
      BY <1>15 DEF BackTxEmpty
    <3>4. QED
      BY <3>1, <3>2, <3>3 DEF Transmitter
  <2>2. Numbers'
    BY <1>15, <2>1 DEF BackTxEmpty, Numbers, Receiver, sender
  <2>3. Flags'
    BY <1>15 DEF BackTxEmpty, Flags, Receiver, sender
  <2>4. QED
    BY <2>2, <2>3
<1>16. CASE CharacterTime
  <2>1. back' \in Seq({"XON", "XOFF"}) /\ Len(back') <= Transmitter
    BY <1>16, Control DEF CharacterTime, Numbers, Transmitter
  <2>2. forth' \in 0..Transmitter /\ rx' \in 0..RxSize
    <3>1. CASE forth > 0
      BY <1>16, <3>1 DEF CharacterTime, AddCharToRxBuffer, Numbers, Transmitter
    <3>2. CASE ~(forth > 0)
      BY <1>16, <3>2 DEF CharacterTime, Numbers
    <3>3. QED
      BY <3>1, <3>2
  <2>3. lostXon' \in 0..MaxLostXon
    BY <1>16 DEF CharacterTime, AddControl, Numbers
  <2>4. Numbers'
    BY <1>16, <2>1, <2>2, <2>3 DEF CharacterTime, Numbers
  <2>5. Flags'
    BY <1>16 DEF CharacterTime, AddCharToRxBuffer, AddControl, SendXOFF, SetDataEvent, Flags
  <2>6. QED
    BY <2>4, <2>5
<1>17. CASE UNCHANGED PortVars
  BY <1>17 DEF PortVars, sender, receiver, Numbers, Flags
<1>18. QED
  BY <1>1, <1>2, <1>3, <1>4, <1>5, <1>6, <1>7, <1>8, <1>9, <1>10, <1>11, <1>12,
     <1>13, <1>14, <1>15, <1>16, <1>17 DEF PortNext, Interrupt, WriteOn, ReadOn

(* Every step keeps it.                                                    *)
LEMMA AnnouncementKept ==
  Numbers /\ Flags /\ AnnouncedOnce /\ DataAnnounced /\ [PortNext]_PortVars
    => (AnnouncedOnce /\ DataAnnounced)'
<1> SUFFICES ASSUME Numbers, Flags, AnnouncedOnce, DataAnnounced, [PortNext]_PortVars
             PROVE  AnnouncedOnce' /\ DataAnnounced'
  OBVIOUS
<1> DEFINE data == <<rx, dataEventSet, posted, reader>>
<1>1. CASE UNCHANGED data
  BY <1>1 DEF AnnouncedOnce, DataAnnounced
<1>2. CASE DataReceived
  BY <1>2 DEF DataReceived, AnnouncedOnce, DataAnnounced
<1>3. CASE ReadSome
  BY <1>3 DEF ReadSome, AnnouncedOnce, DataAnnounced
<1>4. CASE ReadDone
  BY <1>4 DEF ReadDone, AnnouncedOnce, DataAnnounced
<1>5. CASE ClearDataEvent
  <2>1. reader = "done" /\ reader' = "idle" /\ ~posted /\ rx' = rx
    BY <1>5 DEF ClearDataEvent, AnnouncedOnce, Receiver, sender
  <2>2. dataEventSet' = (rx > 0) /\ posted' = (posted \/ rx > 0)
    BY <1>5 DEF ClearDataEvent
  <2>3. posted' = (rx > 0)
    BY <2>1, <2>2
  <2>4. dataEventSet' = (posted' \/ reader' # "idle")
    BY <2>1, <2>2, <2>3
  <2>5. QED
    BY <2>1, <2>3, <2>4 DEF AnnouncedOnce, DataAnnounced
<1>6. CASE DiscardInBuffer
  BY <1>6 DEF DiscardInBuffer, AnnouncedOnce, DataAnnounced
<1>7. CASE CharacterTime
  BY <1>7 DEF CharacterTime, AddCharToRxBuffer, SetDataEvent, Numbers, Flags,
              AnnouncedOnce, DataAnnounced
<1>8. CASE Interrupt /\ ~CharacterTime
  BY <1>1, <1>8 DEF Interrupt, TxEmpty, BackTxEmpty, Sender, Receiver, receiver
<1>9. CASE WriteOn \/ Expire
  BY <1>1, <1>9 DEF WriteOn, Expire, Write, Push, EnableTx, ProcessActivity, FlushDone,
                    Sender, receiver
<1>10. CASE StartWrite \/ Flush \/ DiscardOutBuffer \/ UNCHANGED PortVars
  BY <1>1, <1>10 DEF StartWrite, Flush, DiscardOutBuffer, PortVars, Sender, receiver
<1>11. QED
  BY <1>2, <1>3, <1>4, <1>5, <1>6, <1>7, <1>8, <1>9, <1>10 DEF PortNext, ReadOn

(* The types and the announcement hold in every state.                     *)
LEMMA BasicInvariance ==
  PortSpec => [](Numbers /\ Flags /\ AnnouncedOnce /\ DataAnnounced)
<1>1. PortInit => Numbers /\ Flags /\ AnnouncedOnce /\ DataAnnounced
  <2> SUFFICES ASSUME PortInit PROVE Numbers /\ Flags /\ AnnouncedOnce /\ DataAnnounced
    OBVIOUS
  <2>1. Numbers
    BY DEF PortInit, Numbers, Transmitter
  <2>2. Flags
    BY DEF PortInit, Flags
  <2>3. AnnouncedOnce /\ DataAnnounced
    <3>1. rx = 0 /\ ~(rx > 0)
      BY DEF PortInit
    <3>2. dataEventSet = FALSE /\ posted = FALSE /\ reader = "idle"
      BY DEF PortInit
    <3>3. QED
      BY <3>1, <3>2 DEF AnnouncedOnce, DataAnnounced
  <2>4. QED
    BY <2>1, <2>2, <2>3
<1>2. QED
  BY <1>1, PortTypesKept, AnnouncementKept, PTL DEF PortSpec

(* The variables keep their types: no queue holds more than it has room    *)
(* for, and a posted event is remembered in fDataEventSet.                 *)
THEOREM PortTypeCorrect == PortSpec => []PortTypeOK
<1>1. Numbers /\ Flags /\ AnnouncedOnce => PortTypeOK
  <2> SUFFICES ASSUME Numbers, Flags, AnnouncedOnce PROVE PortTypeOK
    OBVIOUS
  <2>1. posted => dataEventSet
    BY DEF Flags, AnnouncedOnce
  <2>2. QED
    BY <2>1 DEF PortTypeOK, Numbers, Flags
<1>2. QED
  BY <1>1, BasicInvariance, PTL

(* Whatever waits in the receive queue has been announced to the           *)
(* application, or the handler of the event is about to look again, for    *)
(* queues of any size and handlers that read any numbers of characters.    *)
THEOREM Announced == PortSpec => []DataAnnounced
BY BasicInvariance, PTL

----------------------------------------------------------------------------
(* OnTheWay of some back and pending; in particular of back' and pending'. *)
OnWay(b, p) == Len(b) + (IF "XON" \in p THEN 1 ELSE 0) + (IF "XOFF" \in p THEN 1 ELSE 0)

(* What is on the way back: nothing only when nothing is pending and       *)
(* nothing is in the transmitter.                                          *)
LEMMA Way ==
  ASSUME NEW b \in Seq({"XON", "XOFF"}), NEW p \in SUBSET {"XON", "XOFF"}, Len(b) <= 2
  PROVE  /\ OnWay(b, p) \in 0..4 /\ Len(b) \in 0..2
         /\ b = <<>> <=> Len(b) = 0
         /\ p = {} => OnWay(b, p) = Len(b)
         /\ OnWay(b, p) = 0 <=> p = {} /\ b = <<>>
<1>1. Len(b) \in Nat /\ (b = <<>> <=> Len(b) = 0)
  BY Control
<1>2. Len(b) \in 0..2
  <2>1. \A l \in Nat : l <= 2 => l \in 0..2
    OBVIOUS
  <2>2. QED
    BY <1>1, <2>1, Zenon
<1>3. p = {} <=> "XON" \notin p /\ "XOFF" \notin p
  OBVIOUS
<1> DEFINE m == IF "XON" \in p THEN 1 ELSE 0
           n == IF "XOFF" \in p THEN 1 ELSE 0
<1>4. m \in 0..1 /\ n \in 0..1 /\ (p = {} <=> m = 0 /\ n = 0)
  BY <1>3
<1>5. OnWay(b, p) = Len(b) + m + n
  BY DEF OnWay
<1> HIDE DEF m, n
<1>6. QED
  BY <1>1, <1>2, <1>4, <1>5

(* The same of the present state.                                          *)
LEMMA WayNow ==
  /\ Numbers /\ Flags =>
       /\ OnTheWay \in 0..4 /\ Len(back) \in 0..2
       /\ back = <<>> <=> Len(back) = 0
       /\ pending = {} => OnTheWay = Len(back)
       /\ OnTheWay = 0 <=> pending = {} /\ back = <<>>
  /\ (Numbers /\ Flags)' => OnTheWay' \in 0..4
<1>1. OnTheWay = OnWay(back, pending) /\ OnTheWay' = OnWay(back', pending')
  BY DEF OnTheWay, OnWay
<1>2. Numbers => back \in Seq({"XON", "XOFF"}) /\ Len(back) <= 2
  BY DEF Numbers, Transmitter
<1>3. Numbers' => back' \in Seq({"XON", "XOFF"}) /\ Len(back') <= 2
  BY DEF Numbers, Transmitter
<1>4. /\ Flags => pending \in SUBSET {"XON", "XOFF"}
      /\ Flags' => pending' \in SUBSET {"XON", "XOFF"}
  BY DEF Flags
<1>5. QED
  BY <1>1, <1>2, <1>3, <1>4, Way

(* The reader reads below its low-water mark, or discards what it has. *)
LEMMA XonSent ==
  ASSUME MarksApart, Numbers, Numbers', Flags', ControlInStep,
         SendXON, rx' \in 0..Low, UNCHANGED <<back, xon, expired, lostXon>>
  PROVE  ControlInStep'
<1>1. ~xoffed' /\ backTxe' /\ pending' = pending \cup {"XON"} /\ "XON" \in pending'
  BY DEF SendXON
<1>2. OnTheWay' \in 0..4
  BY WayNow
<1>3. High \in Nat /\ Low \in Nat /\ Low + 4 < High
  BY Marks DEF MarksApart
<1>4. rx' < High /\ rx' + OnTheWay' <= Low + 4
  <2>1. \A l, h \in Nat : l + 4 < h =>
          \A r \in 0..l, n \in 0..4 : r < h /\ r + n <= l + 4
    OBVIOUS
  <2>2. QED
    BY <1>2, <1>3, <2>1, Zenon
<1>5. FewOnTheWay'
  BY <1>1, <1>4 DEF FewOnTheWay
<1>6. LastSent'
  BY <1>1 DEF LastSent
<1>7. QED
  BY <1>5, <1>6 DEF ControlInStep

(* The service routine takes a pending character.                          *)
LEMMA XonOrXoffTaken ==
  ASSUME Numbers, Flags, ControlInStep, BackTxEmpty, Numbers', Flags'
  PROVE  ControlInStep'
<1>1. UNCHANGED <<rx, xoffed, xon, expired, lostXon>>
  BY DEF BackTxEmpty, Receiver, sender
<1>2. CASE pending = {}
  <2>1. pending' = {} /\ back' = back
    BY <1>2 DEF BackTxEmpty
  <2>2. FewOnTheWay'
    BY <1>1, <1>2, <2>1 DEF ControlInStep, FewOnTheWay, OnTheWay
  <2>3. LastSent'
    BY <1>1, <1>2, <2>1 DEF ControlInStep, LastSent
  <2>4. QED
    BY <2>2, <2>3 DEF ControlInStep
<1>3. CASE pending # {}
  <2>1. PICK c \in {"XON", "XOFF"} :
           /\ c \in pending /\ ("XOFF" \in pending => c = "XOFF")
           /\ back' = Append(back, c) /\ pending' = pending \ {c} /\ backTxe' = backTxe
    <3>1. CASE "XOFF" \in pending
      BY <1>3, <3>1 DEF BackTxEmpty
    <3>2. CASE "XOFF" \notin pending
      BY <1>3, <3>2 DEF BackTxEmpty, Flags
    <3>3. QED
      BY <3>1, <3>2
  <2>2. /\ back' # <<>> /\ Len(back') = Len(back) + 1 /\ back'[Len(back')] = c
        /\ back = <<>> => back' = <<c>>
        /\ Len(back) \in Nat
    <3>1. back \in Seq({"XON", "XOFF"})
      BY DEF Numbers
    <3>2. QED
      BY <2>1, <3>1, Control
  <2>3. OnTheWay' = OnTheWay
    <3>1. CASE c = "XON"
      BY <2>1, <2>2, <3>1 DEF OnTheWay
    <3>2. CASE c = "XOFF"
      BY <2>1, <2>2, <3>2 DEF OnTheWay
    <3>3. QED
      BY <3>1, <3>2
  <2>4. FewOnTheWay'
    BY <1>1, <2>3 DEF ControlInStep, FewOnTheWay
  <2>5. LastSent'
    <3>1. CASE c = "XON"
      <4>1. pending' = {} /\ ~xoffed
        BY <2>1, <3>1 DEF Flags, ControlInStep, LastSent
      <4>2. QED
        BY <1>1, <2>2, <3>1, <4>1 DEF LastSent
    <3>2. CASE c = "XOFF" /\ "XON" \in pending
      <4>1. pending' # {} /\ ~xoffed /\ "XOFF" \notin pending'
        BY <2>1, <3>2 DEF ControlInStep, LastSent
      <4>2. QED
        BY <1>1, <2>1, <3>2, <4>1 DEF ControlInStep, LastSent
    <3>3. CASE c = "XOFF" /\ "XON" \notin pending
      <4>1. pending' = {} /\ xoffed /\ back' = <<"XOFF">>
        BY <2>1, <2>2, <3>3 DEF Flags, ControlInStep, LastSent
      <4>2. QED
        BY <1>1, <2>2, <4>1 DEF LastSent
    <3>4. QED
      BY <3>1, <3>2, <3>3
  <2>6. QED
    BY <2>4, <2>5 DEF ControlInStep
<1>4. QED
  BY <1>2, <1>3

(* A character and an XON or XOFF arrive. *)
LEMMA ControlAfterCharacter ==
  ASSUME MarksApart, Numbers, Flags, Numbers', Flags', ControlInStep, CharacterTime
  PROVE  ControlInStep'
<1>1. /\ High \in Nat /\ Low \in Nat /\ Low + 4 < High
      /\ rx \in Nat /\ rx' \in Nat /\ OnTheWay \in 0..4
  <2>1. rx \in Nat
    BY DEF Numbers
  <2>2. rx' \in Nat
    BY DEF Numbers
  <2>3. OnTheWay \in 0..4
    BY WayNow
  <2>4. QED
    BY <2>1, <2>2, <2>3, Marks DEF MarksApart
<1>2. pending # {} => back # <<>>
  <2>1. pending # {} => ~(Len(back) < Transmitter)
    BY DEF CharacterTime, ControlInStep, LastSent
  <2>2. QED
    BY <2>1, WayNow DEF Transmitter
<1>3. \/ back = <<>> /\ back' = <<>> /\ UNCHANGED <<xon, expired, lostXon>>
      \/ /\ back # <<>> /\ back' = Tail(back)
         /\ \/ xon' = (Head(back) = "XON") /\ ~expired' /\ UNCHANGED lostXon
            \/ lostXon' # 0 /\ Head(back) = "XON"
  BY DEF CharacterTime, AddControl, Numbers
<1>4. /\ back # <<>> => /\ Head(back) = back[1] /\ Len(Tail(back)) = Len(back) - 1
                        /\ Len(back) > 1 => Tail(back)[Len(back) - 1] = back[Len(back)]
      /\ Len(back) \in 0..2 /\ (back = <<>> <=> Len(back) = 0)
      /\ (back' = <<>> <=> Len(back') = 0)
  <2>1. back \in Seq({"XON", "XOFF"}) /\ back' \in Seq({"XON", "XOFF"})
    BY DEF Numbers
  <2>2. Len(back) \in 0..2
    BY WayNow
  <2>3. QED
    BY <2>1, <2>2, Control, Zenon
<1>5. \/ /\ UNCHANGED <<xoffed, backTxe, pending>> /\ rx' <= rx + 1
         /\ ~xoffed => rx' < High
      \/ /\ ~xoffed /\ rx + 1 >= High /\ xoffed' /\ backTxe'
         /\ pending' = pending \cup {"XOFF"}
  <2>1. CASE UNCHANGED <<rx, xoffed, backTxe, pending>>
    BY <1>1, <2>1 DEF ControlInStep, FewOnTheWay
  <2>2. CASE rx' = rx + 1 /\ rx' >= High /\ SendXOFF
    <3>1. CASE xoffed
      BY <1>1, <2>2, <3>1 DEF SendXOFF
    <3>2. CASE ~xoffed
      BY <1>1, <2>2, <3>2 DEF SendXOFF
    <3>3. QED
      BY <3>1, <3>2
  <2>3. CASE rx' = rx + 1 /\ ~(rx' >= High) /\ UNCHANGED <<xoffed, backTxe, pending>>
    BY <1>1, <2>3
  <2>4. QED
    BY <2>1, <2>2, <2>3 DEF CharacterTime, AddCharToRxBuffer
<1>6. CASE UNCHANGED <<xoffed, backTxe, pending>> /\ rx' <= rx + 1 /\ (~xoffed => rx' < High)
  <2>1. ~xoffed => (OnTheWay' > 0 => rx' + OnTheWay' <= Low + 4)
    <3>1. CASE back = <<>>
      <4>1. OnTheWay' = OnTheWay /\ OnTheWay = 0
        BY <1>2, <1>3, <1>6, <3>1, WayNow DEF OnTheWay
      <4>2. QED
        BY <4>1
    <3>2. CASE back # <<>>
      <4>1. Len(back') = Len(back) - 1 /\ pending' = pending
        BY <1>3, <1>4, <1>6, <3>2
      <4>2. OnTheWay' = OnTheWay - 1
        <5> DEFINE m == IF "XON" \in pending THEN 1 ELSE 0
                   n == IF "XOFF" \in pending THEN 1 ELSE 0
        <5>1. m \in 0..1 /\ n \in 0..1
          OBVIOUS
        <5>2. OnTheWay = Len(back) + m + n /\ OnTheWay' = (Len(back) - 1) + m + n
          BY <4>1 DEF OnTheWay
        <5>3. Len(back) \in Nat
          BY <1>4
        <5> HIDE DEF m, n
        <5>4. \A l \in Nat : \A v, w : v = l + m + n /\ w = (l - 1) + m + n => w = v - 1
          BY <5>1
        <5>5. QED
          BY <5>2, <5>3, <5>4
      <4>3. ~xoffed /\ OnTheWay > 0 => rx + OnTheWay <= Low + 4
        BY DEF ControlInStep, FewOnTheWay
      <4>4. OnTheWay # 0
        BY <3>2, WayNow
      <4>5. OnTheWay > 0
        BY <1>1, <4>4
      <4>6. \A o, s, t, d \in Nat : s <= t + 1 /\ t + o <= d => s + (o - 1) <= d
        OBVIOUS
      <4>7. OnTheWay \in Nat /\ Low + 4 \in Nat
        BY <1>1
      <4>8. ~xoffed => rx' + (OnTheWay - 1) <= Low + 4
        BY <1>1, <1>6, <4>3, <4>5, <4>6, <4>7, Zenon
      <4>9. QED
        BY <4>2, <4>8
    <3>3. QED
      BY <3>1, <3>2
  <2>2. FewOnTheWay'
    BY <1>6, <2>1 DEF FewOnTheWay
  <2>3. CASE back = <<>>
    <3>1. pending = {} /\ back' = back /\ UNCHANGED <<xon, expired, lostXon>>
      BY <1>2, <1>3, <2>3
    <3>2. LastSent'
      BY <1>6, <2>3, <3>1 DEF ControlInStep, LastSent
    <3>3. QED
      BY <2>2, <3>2 DEF ControlInStep
  <2>4. CASE back # <<>> /\ xoffed
    <3>1. pending = {} /\ back = <<"XOFF">>
      BY <2>4 DEF ControlInStep, LastSent
    <3>2. Head(back) = "XOFF" /\ back' = <<>>
      BY <1>3, <1>4, <2>4, <3>1
    <3>3. ~xon' /\ ~expired'
      BY <1>3, <2>4, <3>2
    <3>4. LastSent'
      BY <1>6, <2>4, <3>1, <3>2, <3>3 DEF LastSent
    <3>5. QED
      BY <2>2, <3>4 DEF ControlInStep
  <2>5. CASE back # <<>> /\ ~xoffed
    <3>1. pending = {} => back[Len(back)] = "XON"
      BY <2>5 DEF ControlInStep, LastSent
    <3>2. pending = {} /\ back' # <<>> => back'[Len(back')] = "XON"
      <4>1. back' # <<>> => Len(back) > 1 /\ Len(back') = Len(back) - 1
        BY <1>3, <1>4, <2>5
      <4>2. QED
        BY <1>3, <1>4, <2>5, <3>1, <4>1
    <3>3. pending = {} /\ back' = <<>> /\ lostXon' = 0 => xon'
      <4>1. back' = <<>> => Len(back) = 1
        BY <1>3, <1>4, <2>5
      <4>2. pending = {} /\ back' = <<>> => Head(back) = "XON"
        BY <1>4, <2>5, <3>1, <4>1
      <4>3. QED
        BY <1>3, <2>5, <4>2
    <3>4. LastSent'
      BY <1>6, <2>5, <3>2, <3>3 DEF ControlInStep, LastSent
    <3>5. QED
      BY <2>2, <3>4 DEF ControlInStep
  <2>6. QED
    BY <2>2, <2>3, <2>4, <2>5 DEF ControlInStep
<1>7. CASE /\ ~xoffed /\ rx + 1 >= High /\ xoffed' /\ backTxe'
           /\ pending' = pending \cup {"XOFF"}
  <2>1. OnTheWay = 0
    <3>1. OnTheWay > 0 => rx + OnTheWay <= Low + 4
      BY <1>7 DEF ControlInStep, FewOnTheWay
    <3>2. QED
      BY <1>1, <1>7, <3>1
  <2>2. back = <<>> /\ back' = <<>> /\ pending' = {"XOFF"}
    <3>1. pending = {} /\ back = <<>>
      BY <2>1, WayNow
    <3>2. QED
      BY <1>3, <1>7, <3>1
  <2>3. LastSent'
    BY <1>7, <2>2 DEF LastSent
  <2>4. FewOnTheWay'
    BY <1>7 DEF FewOnTheWay
  <2>5. QED
    BY <2>3, <2>4 DEF ControlInStep
<1>8. QED
  BY <1>5, <1>6, <1>7

(* Every step keeps the order of XON and XOFF.                             *)
LEMMA ControlKept ==
  ASSUME MarksApart, Numbers, Flags, Numbers', Flags', ControlInStep, [PortNext]_PortVars
  PROVE  ControlInStep'
<1> DEFINE control == <<rx, back, backTxe, pending, xoffed, xon, expired, lostXon>>
<1>1. CASE UNCHANGED control
  BY <1>1 DEF ControlInStep, FewOnTheWay, LastSent, OnTheWay
<1>2. CASE Write \/ Expire
  <2>1. /\ UNCHANGED <<rx, back, backTxe, pending, xoffed, lostXon>>
        /\ \/ UNCHANGED xon /\ (expired' = expired \/ ~xoffed)
           \/ (xon \/ expired) /\ xon' /\ UNCHANGED expired
    BY <1>2 DEF Write, Expire, Sender, receiver
  <2>2. FewOnTheWay'
    BY <2>1 DEF ControlInStep, FewOnTheWay, OnTheWay
  <2>3. LastSent'
    BY <2>1 DEF ControlInStep, LastSent
  <2>4. QED
    BY <2>2, <2>3 DEF ControlInStep
<1>3. CASE ReadSome
  <2>1. PICK n \in 1..wanted :
          /\ n <= rx /\ rx' = rx - n
          /\ IF PassesLow(rx, rx') THEN SendXON ELSE UNCHANGED <<xoffed, backTxe, pending>>
    BY <1>3 DEF ReadSome
  <2>2. UNCHANGED <<back, xon, expired, lostXon>>
    BY <1>3 DEF ReadSome, Receiver, sender
  <2>3. rx' \in Nat /\ rx' <= rx /\ rx \in Nat
    BY <2>1 DEF Numbers
  <2>4. CASE PassesLow(rx, rx')
    <3>1. rx' \in 0..Low
      BY <2>3, <2>4, Marks DEF PassesLow
    <3>2. QED
      BY <2>1, <2>2, <2>4, <3>1, XonSent
  <2>5. CASE ~PassesLow(rx, rx')
    <3>1. UNCHANGED <<back, backTxe, pending, xoffed, xon, expired, lostXon>>
      BY <2>1, <2>2, <2>5
    <3>2. OnTheWay' = OnTheWay
      BY <3>1 DEF OnTheWay
    <3>3. FewOnTheWay'
      <4>1. \A r, s \in Nat, h \in Nat, o \in 0..4 :
              s <= r => (r < h => s < h) /\ (r + o <= h => s + o <= h)
        OBVIOUS
      <4>2. High \in Nat /\ Low + 4 \in Nat /\ OnTheWay \in 0..4
        BY Marks, WayNow
      <4>3. rx < High => rx' < High
        BY <2>3, <4>1, <4>2
      <4>4. rx + OnTheWay <= Low + 4 => rx' + OnTheWay <= Low + 4
        BY <2>3, <4>1, <4>2
      <4>5. QED
        BY <3>1, <3>2, <4>3, <4>4, Zenon DEF ControlInStep, FewOnTheWay
    <3>4. LastSent'
      BY <3>1 DEF ControlInStep, LastSent
    <3>5. QED
      BY <3>3, <3>4 DEF ControlInStep
  <2>6. QED
    BY <2>4, <2>5
<1>4. CASE DiscardInBuffer
  <2>1. rx' \in 0..Low
    BY <1>4, Marks DEF DiscardInBuffer
  <2>2. SendXON /\ UNCHANGED <<back, xon, expired, lostXon>>
    BY <1>4 DEF DiscardInBuffer, Receiver, sender
  <2>3. QED
    BY <2>1, <2>2, XonSent
<1>5. CASE BackTxEmpty
  BY <1>5, XonOrXoffTaken
<1>6. CASE CharacterTime
  BY <1>6, ControlAfterCharacter
<1>7. CASE TxEmpty \/ Push \/ EnableTx \/ ProcessActivity \/ FlushDone
  BY <1>1, <1>7 DEF TxEmpty, Push, EnableTx, ProcessActivity, FlushDone, Sender, receiver
<1>8. CASE StartWrite \/ Flush \/ DiscardOutBuffer \/ UNCHANGED PortVars
  BY <1>1, <1>8 DEF StartWrite, Flush, DiscardOutBuffer, PortVars, Sender, sender, receiver
<1>9. CASE DataReceived \/ ReadDone \/ ClearDataEvent
  BY <1>1, <1>9 DEF DataReceived, ReadDone, ClearDataEvent, Receiver, sender
<1>10. QED
  BY <1>2, <1>3, <1>4, <1>5, <1>6, <1>7, <1>8, <1>9 DEF PortNext, Interrupt, WriteOn, ReadOn

(* It holds in every state.                                                *)
LEMMA ControlInvariance ==
  ASSUME MarksApart
  PROVE  PortSpec => [](Numbers /\ Flags /\ ControlInStep)
<1>1. PortInit => ControlInStep
  <2> SUFFICES ASSUME PortInit PROVE ControlInStep
    OBVIOUS
  <2>1. rx = 0 /\ pending = {} /\ back = <<>> /\ ~xoffed /\ xon /\ Len(back) = 0
    BY DEF PortInit
  <2>2. OnTheWay = 0
    BY <2>1 DEF OnTheWay
  <2>3. FewOnTheWay
    <3>1. High \in Nat /\ Low \in Nat /\ 0 < High
      BY Marks DEF MarksApart
    <3>2. QED
      BY <2>1, <2>2, <3>1 DEF FewOnTheWay
  <2>4. LastSent
    BY <2>1 DEF LastSent
  <2>5. QED
    BY <2>3, <2>4 DEF ControlInStep
<1>2. Numbers /\ Flags /\ (Numbers /\ Flags)' /\ ControlInStep /\ [PortNext]_PortVars
        => ControlInStep'
  BY ControlKept
<1>3. QED
  BY <1>1, <1>2, BasicInvariance, PTL DEF PortSpec

(* Between two characters the two sides agree on who may send, for queues  *)
(* of any size whose marks are more than four characters apart:            *)
(* RemoveCharFromTxBuffer sends XOFF first when XOFF and XON are pending,  *)
(* and never has an XON pending that is older than the XOFF.               *)
THEOREM SidesInStep ==
  ASSUME MarksApart
  PROVE  PortSpec => []InStep
<1>1. Numbers /\ Flags /\ ControlInStep => InStep
  <2> SUFFICES ASSUME Numbers, Flags, ControlInStep, lostXon = 0
               PROVE  ToldXon = ~xoffed
    BY DEF InStep
  <2>1. CASE "XON" \in pending
    BY <2>1 DEF ToldXon, Flags, ControlInStep, LastSent
  <2>2. CASE "XON" \notin pending /\ "XOFF" \in pending
    BY <2>2 DEF ToldXon, Flags, ControlInStep, LastSent
  <2>3. CASE pending = {} /\ back # <<>>
    <3>1. ToldXon = (back[Len(back)] = "XON")
      BY <2>3 DEF ToldXon, Last
    <3>2. CASE xoffed
      <4>1. back = <<"XOFF">>
        BY <2>3, <3>2 DEF ControlInStep, LastSent
      <4>2. back[Len(back)] = "XOFF"
        BY <4>1
      <4>3. QED
        BY <3>1, <3>2, <4>2 DEF Flags
    <3>3. CASE ~xoffed
      BY <2>3, <3>1, <3>3 DEF Flags, ControlInStep, LastSent
    <3>4. QED
      BY <3>2, <3>3
  <2>4. CASE pending = {} /\ back = <<>>
    BY <2>4 DEF ToldXon, Flags, ControlInStep, LastSent
  <2>5. QED
    BY <2>1, <2>2, <2>3, <2>4 DEF Flags
<1>2. QED
  BY <1>1, ControlInvariance, PTL

----------------------------------------------------------------------------
(* What the writing thread pushes into the TxQueue was owed, and what goes *)
(* into the transmitter has left the TxQueue.                              *)
LEMMA RoomKeptByWriter ==
  ASSUME Numbers, Flags, Numbers', ControlInStep, RoomLeft,
         UNCHANGED receiver,
         \/ Write \/ Push \/ EnableTx \/ StartWrite \/ Flush \/ FlushDone
         \/ ProcessActivity \/ DiscardOutBuffer \/ TxEmpty
  PROVE  RoomLeft'
<1>1. UNCHANGED <<rx, xoffed, pending, back>>
  BY DEF receiver
<1>2. SUFFICES ASSUME xoffed, pending = {}, back = <<>>
               PROVE  rx + forth' + tx' + Owed' <= RxSize
  <2>1. CASE xoffed /\ pending = {} /\ back = <<>>
    BY <1>1, <1>2, <2>1 DEF RoomLeft
  <2>2. CASE ~(xoffed /\ pending = {} /\ back = <<>>)
    BY <1>1, <2>2 DEF RoomLeft
  <2>3. QED
    BY <2>1, <2>2
<1>3. ~xon /\ ~expired /\ rx + forth + tx + Owed <= RxSize
  BY <1>2 DEF RoomLeft, ControlInStep, LastSent
<1>4. /\ rx \in Nat /\ forth \in Nat /\ tx \in 0..TxSize /\ Owed \in Nat
      /\ TxSize \in Nat /\ RxSize \in Nat
  BY DEF Numbers, Owed
<1>5. CASE UNCHANGED <<forth, tx, Owed>>
  BY <1>3, <1>5
<1>6. CASE Write
  <2>1. writer = "write" /\ writer' = "wait" /\ UNCHANGED <<forth, tx>>
    BY <1>3, <1>6 DEF Write
  <2>2. QED
    BY <1>5, <2>1 DEF Owed
<1>7. CASE Push
  <2>1. /\ UNCHANGED forth /\ writer \in {"push1", "push2"}
        /\ \/ /\ \E n \in 1..TxSize - tx : tx' = tx + n
              /\ writer' \in IF writer = "push1" THEN {"push2", "enable"} ELSE {"enable"}
           \/ UNCHANGED tx /\ writer' = "enable"
    BY <1>7 DEF Push
  <2>2. tx' - tx <= TxSize /\ tx' \in Nat
    BY <1>4, <2>1
  <2>3. \A r, l, t, u, o, w \in Nat :
          r + l + t + o <= RxSize /\ u - t <= TxSize /\ w + TxSize <= o
            => r + l + u + w <= RxSize
    OBVIOUS
  <2>4. rx \in Nat /\ forth \in Nat /\ tx \in Nat /\ Owed \in Nat
    BY <1>4
  <2>5. Owed' \in Nat
    <3>1. 0 \in Nat /\ TxSize \in Nat /\ 2 * TxSize \in Nat
      BY <1>4
    <3>2. QED
      BY <3>1, Zenon DEF Owed
  <2>6. Owed' + TxSize <= Owed
    <3>1. CASE writer = "push1" /\ writer' = "push2"
      <4>1. Owed = 2 * TxSize /\ Owed' = TxSize
        BY <3>1 DEF Owed
      <4>2. TxSize + TxSize <= 2 * TxSize
        BY <1>4
      <4>3. QED
        BY <4>1, <4>2, Zenon
    <3>2. CASE writer = "push1" /\ writer' = "enable"
      <4>1. Owed = 2 * TxSize /\ Owed' = 0
        BY <3>2 DEF Owed
      <4>2. 0 + TxSize <= 2 * TxSize
        BY <1>4
      <4>3. QED
        BY <4>1, <4>2, Zenon
    <3>3. CASE writer = "push2" /\ writer' = "enable"
      <4>1. Owed = TxSize /\ Owed' = 0
        BY <3>3 DEF Owed
      <4>2. 0 + TxSize <= TxSize
        BY <1>4
      <4>3. QED
        BY <4>1, <4>2, Zenon
    <3>4. QED
      BY <2>1, <3>1, <3>2, <3>3
  <2>7. QED
    BY <1>3, <2>1, <2>2, <2>3, <2>4, <2>5, <2>6
<1>8. CASE EnableTx \/ StartWrite \/ Flush \/ FlushDone \/ ProcessActivity
  BY <1>5, <1>8 DEF EnableTx, StartWrite, Flush, FlushDone, ProcessActivity, Owed
<1>9. CASE DiscardOutBuffer
  <2>1. tx' = 0 /\ UNCHANGED <<forth, Owed>>
    BY <1>9 DEF DiscardOutBuffer, Owed
  <2>2. QED
    BY <1>3, <1>4, <2>1
<1>10. CASE TxEmpty
  <2>1. UNCHANGED Owed
    BY <1>10 DEF TxEmpty, Owed
  <2>2. CASE tx > 0
    <3>1. tx' = tx - 1 /\ forth' = forth + 1
      BY <1>10, <2>2 DEF TxEmpty
    <3>2. QED
      BY <1>3, <1>4, <2>1, <3>1
  <2>3. CASE ~(tx > 0)
    BY <1>5, <1>10, <2>1, <2>3 DEF TxEmpty
  <2>4. QED
    BY <2>2, <2>3
<1>11. QED
  BY <1>6, <1>7, <1>8, <1>9, <1>10

(* While characters come there is room for one more, and an XOFF that is   *)
(* raised or delivered leaves the room that RoomLeft promises.             *)
LEMMA RoomKeptByCharacter ==
  ASSUME EnoughRoom, Numbers, Flags, Numbers', ControlInStep, RoomLeft, NoOverrun,
         CharacterTime
  PROVE  RoomLeft' /\ NoOverrun'
<1> USE DEF Transmitter
<1>1. /\ rx \in Nat /\ forth \in 0..2 /\ tx \in 0..TxSize
      /\ TxSize \in Nat \ {0} /\ RxSize \in Nat
      /\ Owed \in 0..2 * TxSize
  BY DEF Numbers, Owed
<1>2. High \in Nat /\ High < RxSize /\ High + 3 * TxSize + 2 <= RxSize
  BY Marks DEF EnoughRoom
<1>3. pending # {} => back # <<>>
  <2>1. pending # {} => ~(Len(back) < 2)
    BY DEF CharacterTime, ControlInStep, LastSent
  <2>2. back = <<>> => Len(back) = 0
    BY WayNow
  <2>3. QED
    BY <2>1, <2>2
<1>4. UNCHANGED <<tx, Owed>>
  BY DEF CharacterTime, Owed
<1>5. xoffed /\ pending = {} /\ back = <<>> => rx + forth + tx + Owed <= RxSize
  BY DEF RoomLeft
<1>6. xoffed /\ ~(pending = {} /\ back = <<>>) => rx + 3 * TxSize + 2 <= RxSize
  BY DEF RoomLeft
<1>7. ~xoffed => rx < High
  BY DEF ControlInStep, FewOnTheWay
<1>8. forth > 0 => rx < RxSize
  <2>1. CASE xoffed /\ pending = {} /\ back = <<>>
    BY <1>1, <1>5, <2>1
  <2>2. CASE xoffed /\ ~(pending = {} /\ back = <<>>)
    BY <1>1, <1>6, <2>2
  <2>3. CASE ~xoffed
    BY <1>1, <1>2, <1>7, <2>3
  <2>4. QED
    BY <2>1, <2>2, <2>3
<1>9. /\ UNCHANGED overrun
      /\ \/ forth = 0 /\ forth' = forth /\ rx' = rx
         \/ forth > 0 /\ forth' = forth - 1 /\ rx' = rx + 1
  BY <1>1, <1>8 DEF CharacterTime, AddCharToRxBuffer
<1>10. xoffed => UNCHANGED <<xoffed, pending>>
  BY DEF CharacterTime, AddCharToRxBuffer, SendXOFF
<1>11. ~xoffed /\ xoffed' => pending' # {} /\ rx' = rx + 1
  BY <1>1, <1>8 DEF CharacterTime, AddCharToRxBuffer, SendXOFF
<1>12. /\ back = <<>> => back' = <<>>
       /\ back # <<>> => back' = Tail(back)
  BY DEF CharacterTime
<1>13. NoOverrun'
  BY <1>9 DEF NoOverrun
<1>14. CASE xoffed /\ back = <<>>
  <2>1. pending = {} /\ rx' + forth' = rx + forth
    BY <1>1, <1>3, <1>9, <1>14
  <2>2. rx' + forth' + tx' + Owed' <= RxSize
    <3>1. rx' + forth' + tx + Owed <= RxSize
      BY <1>1, <1>5, <1>9, <1>14, <2>1
    <3>2. QED
      BY <1>4, <3>1, Zenon
  <2>3. RoomLeft'
    BY <1>10, <1>12, <1>14, <2>1, <2>2 DEF RoomLeft
  <2>4. QED
    BY <1>13, <2>3
<1>15. CASE xoffed /\ back # <<>>
  <2>1. pending = {} /\ back = <<"XOFF">>
    BY <1>15 DEF ControlInStep, LastSent
  <2>2. pending' = {} /\ back' = <<>>
    BY <1>10, <1>12, <1>15, <2>1
  <2>3. rx + 3 * TxSize + 2 <= RxSize
    BY <1>6, <1>15
  <2>4. rx' + forth' + tx' + Owed' <= RxSize
    <3>1. rx' + forth' + tx + Owed <= RxSize
      BY <1>1, <1>9, <2>3
    <3>2. QED
      BY <1>4, <3>1, Zenon
  <2>5. RoomLeft'
    BY <2>2, <2>4 DEF RoomLeft
  <2>6. QED
    BY <1>13, <2>5
<1>16. CASE ~xoffed
  <2>1. xoffed' => rx' + 3 * TxSize + 2 <= RxSize
    BY <1>1, <1>2, <1>7, <1>11, <1>16
  <2>2. RoomLeft'
    BY <1>11, <1>16, <2>1 DEF RoomLeft
  <2>3. QED
    BY <1>13, <2>2
<1>17. QED
  BY <1>14, <1>15, <1>16

(* Every step leaves the room that is needed.                              *)
LEMMA RoomKept ==
  ASSUME EnoughRoom, Numbers, Flags, Numbers', ControlInStep, RoomLeft, NoOverrun,
         [PortNext]_PortVars
  PROVE  RoomLeft' /\ NoOverrun'
<1>1. CASE \/ Write \/ Push \/ EnableTx \/ StartWrite \/ Flush \/ FlushDone
           \/ ProcessActivity \/ DiscardOutBuffer \/ TxEmpty
  <2>1. Sender
    BY <1>1 DEF Write, Push, EnableTx, StartWrite, Flush, FlushDone, ProcessActivity,
                DiscardOutBuffer, TxEmpty
  <2>2. UNCHANGED receiver /\ UNCHANGED overrun
    BY <2>1 DEF Sender
  <2>3. QED
    BY <1>1, <2>2, RoomKeptByWriter DEF NoOverrun
<1>2. CASE CharacterTime
  BY <1>2, RoomKeptByCharacter
<1>3. CASE Expire
  <2>1. ~xoffed /\ UNCHANGED <<xoffed, overrun>>
    BY <1>3 DEF Expire, Sender, receiver
  <2>2. QED
    BY <2>1 DEF RoomLeft, NoOverrun
<1>4. CASE DiscardInBuffer
  <2>1. ~xoffed' /\ UNCHANGED overrun
    BY <1>4 DEF DiscardInBuffer, SendXON, Receiver
  <2>2. QED
    BY <2>1 DEF RoomLeft, NoOverrun
<1>5. CASE ReadSome
  <2>1. PICK n \in 1..wanted :
          /\ n <= rx /\ rx' = rx - n
          /\ IF PassesLow(rx, rx') THEN SendXON ELSE UNCHANGED <<xoffed, backTxe, pending>>
    BY <1>5 DEF ReadSome
  <2>2. /\ UNCHANGED <<back, forth, tx, Owed, overrun>>
        /\ ~xoffed' \/ UNCHANGED <<xoffed, pending>>
    BY <1>5, <2>1 DEF ReadSome, Receiver, sender, SendXON, Owed
  <2>3. /\ rx \in Nat /\ rx' \in Nat /\ rx' <= rx
        /\ forth \in Nat /\ tx \in Nat /\ TxSize \in Nat /\ Owed \in Nat
    BY <2>1 DEF Numbers, Owed
  <2>4. /\ rx + forth + tx + Owed <= RxSize => rx' + forth + tx + Owed <= RxSize
        /\ rx + 3 * TxSize + Transmitter <= RxSize
             => rx' + 3 * TxSize + Transmitter <= RxSize
    BY <2>3 DEF Transmitter
  <2>5. RoomLeft'
    BY <2>2, <2>4, Zenon DEF RoomLeft
  <2>6. QED
    BY <2>2, <2>5 DEF NoOverrun
<1>6. CASE BackTxEmpty
  <2>1. UNCHANGED <<rx, xoffed, forth, tx, Owed, overrun>>
    BY <1>6 DEF BackTxEmpty, Receiver, sender, Owed
  <2>2. CASE pending = {}
    <3>1. UNCHANGED <<pending, back>>
      BY <1>6, <2>2 DEF BackTxEmpty
    <3>2. QED
      BY <2>1, <3>1, Zenon DEF RoomLeft, NoOverrun
  <2>3. CASE pending # {}
    <3>1. back' # <<>>
      <4>1. \E c \in {"XON", "XOFF"} : back' = Append(back, c)
        BY <1>6, <2>3 DEF BackTxEmpty
      <4>2. back \in Seq({"XON", "XOFF"})
        BY DEF Numbers
      <4>3. QED
        BY <4>1, <4>2, Control
    <3>2. RoomLeft'
      BY <2>1, <2>3, <3>1, Zenon DEF RoomLeft
    <3>3. QED
      BY <2>1, <3>2 DEF NoOverrun
  <2>4. QED
    BY <2>2, <2>3
<1>7. CASE DataReceived \/ ReadDone \/ ClearDataEvent \/ UNCHANGED PortVars
  <2>1. UNCHANGED <<rx, back, pending, xoffed, forth, tx, Owed, overrun>>
    BY <1>7 DEF DataReceived, ReadDone, ClearDataEvent, PortVars, Receiver, receiver, sender, Owed
  <2>2. QED
    BY <2>1, Zenon DEF RoomLeft, NoOverrun
<1>8. QED
  BY <1>1, <1>2, <1>3, <1>4, <1>5, <1>6, <1>7 DEF PortNext, Interrupt, WriteOn, ReadOn

(* AddCharToRxBuffer always finds room, for queues of any size with enough *)
(* room above the high-water mark: for all that a Write that has begun and *)
(* the TxQueue still send after the XOFF, and for what is in the           *)
(* transmitter when it arrives.                                            *)
THEOREM NothingLost ==
  ASSUME EnoughRoom
  PROVE  PortSpec => []NoOverrun
<1>1. PortInit => RoomLeft /\ NoOverrun
  BY DEF PortInit, RoomLeft, NoOverrun
<1>2. Numbers /\ Flags /\ ControlInStep /\ Numbers' /\ RoomLeft /\ NoOverrun /\ [PortNext]_PortVars
        => (RoomLeft /\ NoOverrun)'
  BY RoomKept
<1>3. MarksApart
  BY Marks
<1>4. PortSpec => [](Numbers /\ Flags /\ ControlInStep)
  BY <1>3, ControlInvariance
<1>5. QED
  BY <1>1, <1>2, <1>4, PTL DEF PortSpec
=============================================================================
