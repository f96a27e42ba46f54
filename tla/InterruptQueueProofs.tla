------------------------ MODULE InterruptQueueProofs ------------------------
(***************************************************************************)
(* What is proved about the interrupts of the ports, for rings, ports and  *)
(* numbers of interrupts of every size (InterruptHandler.cpp and           *)
(* CLR_RT_HeapBlock_IOPort.cpp, with Hal_Queue_UnknownSize of tinyhal.h):  *)
(*                                                                         *)
(*   - TypeCorrect, also that m_queuedInterrupts counts the records;       *)
(*   - RecordsLive: no record that waits points to a port that was         *)
(*     released;                                                           *)
(*   - ImplementsEventQueue: the ring, the transfer to the application     *)
(*     queue and the dispatching together are the one queue of EventQueue; *)
(*   - InterruptsInOrder: what is overwritten in the full queue is its     *)
(*     oldest record.                                                      *)
(*                                                                         *)
(* The ring is first shown to be a sequence, with what SaveToHALQueue, the *)
(* pop and RemoveFromHALQueue do to it.  What the dispatcher and the       *)
(* collector do to the application queue is one relation, Drawn: they      *)
(* leave some of the records, and the thread may get one that stood in     *)
(* front of all of these.                                                  *)
(***************************************************************************)
EXTENDS InterruptQueue, DblLinkedListProofs

(* What is assumed of the constants.                                       *)
LEMMA Parameters ==
  /\ QueueSize \in Nat \ {0} /\ MaxRaised \in Nat /\ MaxFaults \in Nat
  /\ NoPort \notin Port /\ LevelPort \subseteq Port
BY InterruptQueueAssumption

----------------------------------------------------------------------------
(* The HAL queue is a ring; what is in it is a sequence.                   *)
Slot == Record \cup {NoRecord}

Count(w, r, f) == IF f THEN QueueSize ELSE (QueueSize + w - r) % QueueSize
Place(r, i) == (r + i - 1) % QueueSize
RingSeq(s, w, r, f) == [i \in 1..Count(w, r, f) |-> s[Place(r, i)]]

RingTyped(s, w, r, f) ==
  /\ s \in [0..QueueSize - 1 -> Slot]
  /\ w \in 0..QueueSize - 1 /\ r \in 0..QueueSize - 1
  /\ f \in BOOLEAN /\ (f => r = w)

(* The records of the HAL queue are what the ring of the slots holds.      *)
LEMMA RingIs ==
  /\ HalRecords = RingSeq(slots, writer, reader, full)
  /\ HalRecords' = RingSeq(slots', writer', reader', full')
  /\ NumberOfElements = Count(writer, reader, full)
BY DEF HalRecords, NumberOfElements, RingSeq, Count, Place

(* An index beyond the end goes on from the other end.                     *)
LEMMA Modulo ==
  ASSUME NEW n \in Nat \ {0}, NEW a \in Int, -n <= a, a < 2 * n
  PROVE  a % n = IF a < 0 THEN a + n ELSE IF a < n THEN a ELSE a - n
<1>1. CASE a < 0
  BY <1>1
<1>2. CASE a >= 0 /\ a < n
  BY <1>2
<1>3. CASE a >= n
  BY <1>3
<1>4. QED
  BY <1>1, <1>2, <1>3

(* After the last slot comes the first.                                    *)
LEMMA Turning ==
  ASSUME NEW r \in 0..QueueSize - 1
  PROVE  /\ After(r) = (IF r = QueueSize - 1 THEN 0 ELSE r + 1)
         /\ After(r) \in 0..QueueSize - 1
<1> DEFINE a == r + 1
<1>1. QueueSize \in Nat \ {0}
  BY Parameters
<1>2. a \in Int /\ -QueueSize <= a /\ a < 2 * QueueSize /\ ~(a < 0)
  BY <1>1
<1>3. a % QueueSize = IF a < QueueSize THEN a ELSE a - QueueSize
  <2> HIDE DEF a
  <2>1. QED
    BY <1>1, <1>2, Modulo
<1>4. After(r) = a % QueueSize
  BY DEF After
<1>5. QED
  BY <1>1, <1>3, <1>4

(* Where the record at a place of the queue stands in the ring.            *)
LEMMA Placing ==
  ASSUME NEW r \in 0..QueueSize - 1, NEW i \in 1..QueueSize
  PROVE  /\ Place(r, i) = (IF r + i <= QueueSize THEN (r + i) - 1
                           ELSE ((r + i) - 1) - QueueSize)
         /\ Place(r, i) \in 0..QueueSize - 1
<1> DEFINE a == r + i - 1
<1>1. QueueSize \in Nat \ {0}
  BY Parameters
<1>2. a \in Int /\ -QueueSize <= a /\ a < 2 * QueueSize /\ ~(a < 0)
  BY <1>1
<1>3. a % QueueSize = IF a < QueueSize THEN a ELSE a - QueueSize
  <2> HIDE DEF a
  <2>1. QED
    BY <1>1, <1>2, Modulo
<1>4. Place(r, i) = a % QueueSize
  BY DEF Place
<1>5. QED
  BY <1>1, <1>3, <1>4

(* NumberOfElements without the modulus; it is the size of the ring        *)
(* exactly when the ring is full.                                          *)
LEMMA Counting ==
  ASSUME NEW s, NEW w, NEW r, NEW f, RingTyped(s, w, r, f)
  PROVE  /\ Count(w, r, f) = (IF f THEN QueueSize
                              ELSE IF w >= r THEN w - r ELSE QueueSize + w - r)
         /\ Count(w, r, f) \in 0..QueueSize
         /\ Count(w, r, f) = QueueSize <=> f
<1>1. QueueSize \in Nat \ {0} /\ w \in 0..QueueSize - 1 /\ r \in 0..QueueSize - 1
      /\ f \in BOOLEAN
  BY Parameters DEF RingTyped
<1>2. (QueueSize + w - r) % QueueSize = IF w >= r THEN w - r ELSE QueueSize + w - r
  <2> DEFINE a == QueueSize + w - r
  <2>1. a \in Int /\ -QueueSize <= a /\ a < 2 * QueueSize /\ ~(a < 0)
        /\ (a < QueueSize <=> ~(w >= r)) /\ a - QueueSize = w - r
    BY <1>1
  <2> HIDE DEF a
  <2>2. a % QueueSize = IF a < QueueSize THEN a ELSE a - QueueSize
    BY <1>1, <2>1, Modulo
  <2>3. QED
    BY <2>1, <2>2 DEF a
<1>3. QED
  BY <1>1, <1>2 DEF Count

(* What the ring holds is a sequence of slots.                             *)
LEMMA RingElements ==
  ASSUME NEW s, NEW w, NEW r, NEW f, RingTyped(s, w, r, f)
  PROVE  /\ RingSeq(s, w, r, f) \in Seq(Slot)
         /\ Len(RingSeq(s, w, r, f)) = Count(w, r, f)
         /\ \A i \in 1..Count(w, r, f) : RingSeq(s, w, r, f)[i] = s[Place(r, i)]
<1>1. Count(w, r, f) \in Nat /\ \A i \in 1..Count(w, r, f) : i \in 1..QueueSize
  BY Counting, Parameters
<1>2. \A i \in 1..Count(w, r, f) : s[Place(r, i)] \in Slot
  BY <1>1, Placing DEF RingTyped
<1>3. QED
  BY <1>1, <1>2 DEF RingSeq

(* SaveToHALQueue: the record is put behind the others, and where there is *)
(* no room the one in front goes.                                          *)
RingPut(e, s, w, r, f, s2, w2, r2, f2) ==
  /\ s2 = [s EXCEPT ![w] = e] /\ w2 = After(w)
  /\ r2 = IF f THEN After(r) ELSE r
  /\ f2 \in BOOLEAN /\ (f2 <=> w2 = r2)

(* The writer having passed, the ring holds the records followed by the    *)
(* new one, less the first if it was full.                                 *)
LEMMA RingSaved ==
  ASSUME NEW s, NEW w, NEW r, NEW f, RingTyped(s, w, r, f), NEW e \in Slot,
         NEW s2, NEW w2, NEW r2, NEW f2, RingPut(e, s, w, r, f, s2, w2, r2, f2)
  PROVE  /\ RingTyped(s2, w2, r2, f2)
         /\ RingSeq(s2, w2, r2, f2) =
              IF f THEN Append(Tail(RingSeq(s, w, r, f)), e) ELSE Append(RingSeq(s, w, r, f), e)
<1> USE DEF RingPut
<1> DEFINE q == RingSeq(s, w, r, f)
           q2 == RingSeq(s2, w2, r2, f2)
           n == Count(w, r, f)
<1>1. /\ QueueSize \in Nat \ {0} /\ w \in 0..QueueSize - 1 /\ r \in 0..QueueSize - 1
      /\ f \in BOOLEAN /\ s \in [0..QueueSize - 1 -> Slot] /\ (f => w = r)
  BY Parameters DEF RingTyped
<1>2. /\ w2 \in 0..QueueSize - 1 /\ w2 = IF w = QueueSize - 1 THEN 0 ELSE w + 1
      /\ r2 \in 0..QueueSize - 1 /\ (f => r2 = w2)
  BY <1>1, Turning
<1>3. RingTyped(s2, w2, r2, f2)
  BY <1>1, <1>2 DEF RingTyped
<1>4. /\ n \in 0..QueueSize /\ (n = QueueSize <=> f)
      /\ n = IF f THEN QueueSize ELSE IF w >= r THEN w - r ELSE QueueSize + w - r
  BY Counting
<1>5. Count(w2, r2, f2) = IF f THEN n ELSE n + 1
  <2>1. Count(w2, r2, f2) =
          IF f2 THEN QueueSize ELSE IF w2 >= r2 THEN w2 - r2 ELSE QueueSize + w2 - r2
    BY <1>3, Counting
  <2> DEFINE c == Count(w2, r2, f2)
  <2>2. /\ c = IF f2 THEN QueueSize ELSE IF w2 >= r2 THEN w2 - r2 ELSE (QueueSize - r2) + w2
        /\ n = IF f THEN QueueSize ELSE IF w >= r THEN w - r ELSE (QueueSize - r) + w
    BY <1>1, <1>2, <1>4, <2>1
  <2>3. (f2 <=> w2 = r2) /\ r2 = IF f THEN (IF r = QueueSize - 1 THEN 0 ELSE r + 1) ELSE r
    BY <1>1, <1>2, Turning
  <2> HIDE DEF c, n
  <2>4. CASE f
    <3>1. w2 = r2 /\ n = QueueSize /\ c = QueueSize
      BY <1>1, <1>2, <2>2, <2>3, <2>4
    <3>2. QED
      BY <2>4, <3>1 DEF c
  <2>5. CASE ~f /\ w = QueueSize - 1
    <3>1. w2 = 0 /\ r2 = r /\ n = w - r /\ (f2 <=> r = 0)
      BY <1>1, <1>2, <2>2, <2>3, <2>5
    <3>2. c = n + 1
      <4>1. CASE r = 0
        BY <1>1, <2>2, <2>5, <3>1, <4>1
      <4>2. CASE r # 0
        BY <1>1, <2>2, <2>5, <3>1, <4>2
      <4>3. QED
        BY <4>1, <4>2
    <3>3. QED
      BY <2>5, <3>2 DEF c
  <2>6. CASE ~f /\ w # QueueSize - 1
    <3>1. w2 = w + 1 /\ r2 = r /\ (f2 <=> r = w + 1)
      BY <1>1, <1>2, <2>3, <2>6
    <3>2. c = n + 1
      <4>1. CASE w >= r
        BY <1>1, <2>2, <2>6, <3>1, <4>1
      <4>2. CASE ~(w >= r) /\ r = w + 1
        BY <1>1, <2>2, <2>6, <3>1, <4>2
      <4>3. CASE ~(w >= r) /\ r # w + 1
        BY <1>1, <2>2, <2>6, <3>1, <4>3
      <4>4. QED
        BY <4>1, <4>2, <4>3
    <3>3. QED
      BY <2>6, <3>2 DEF c
  <2>7. QED
    BY <1>1, <2>4, <2>5, <2>6
<1>6. /\ q \in Seq(Slot) /\ Len(q) = n /\ \A i \in 1..n : q[i] = s[Place(r, i)]
  BY RingElements
<1>7. /\ q2 \in Seq(Slot) /\ Len(q2) = (IF f THEN n ELSE n + 1)
      /\ \A i \in 1..Len(q2) : q2[i] = s2[Place(r2, i)]
  <2>1. /\ q2 \in Seq(Slot) /\ Len(q2) = Count(w2, r2, f2)
        /\ \A i \in 1..Count(w2, r2, f2) : q2[i] = s2[Place(r2, i)]
    BY ONLY <1>3, RingElements
  <2> HIDE DEF q2, n
  <2>2. QED
    BY <1>5, <2>1
<1> HIDE DEF q, q2, n
<1>8. CASE f
  <2>1. /\ n = QueueSize /\ r2 = After(r) /\ w = r /\ Len(q2) = n
        /\ r2 = IF w = QueueSize - 1 THEN 0 ELSE w + 1
    BY <1>1, <1>2, <1>4, <1>7, <1>8
  <2>2. q # <<>>
    BY <1>1, <1>6, <2>1
  <2>3. /\ Tail(q) \in Seq(Slot) /\ Len(Tail(q)) = n - 1
        /\ \A i \in 1..n - 1 : Tail(q)[i] = q[i + 1]
    BY <1>6, <2>2, HeadTailProperties
  <2>4. /\ Append(Tail(q), e) \in Seq(Slot) /\ Len(Append(Tail(q), e)) = n
        /\ \A i \in 1..n - 1 : Append(Tail(q), e)[i] = Tail(q)[i]
        /\ Append(Tail(q), e)[n] = e
    <3>1. (n - 1) + 1 = n
      BY <1>4
    <3>2. QED
      BY <2>3, <3>1, AppendProperties
  <2>5. ASSUME NEW i \in 1..n PROVE q2[i] = Append(Tail(q), e)[i]
    <3>1. /\ i \in 1..QueueSize /\ q2[i] = s2[Place(r2, i)] /\ Place(r2, i) \in 0..QueueSize - 1
          /\ Place(r2, i) = (IF r2 + i <= QueueSize THEN (r2 + i) - 1 ELSE ((r2 + i) - 1) - QueueSize)
      BY <1>2, <1>7, <2>1, Placing
    <3>2. CASE i = n
      <4>1. Place(r2, i) = w
        <5>1. CASE w = QueueSize - 1
          BY <1>1, <2>1, <3>1, <3>2, <5>1
        <5>2. CASE w # QueueSize - 1
          BY <1>1, <2>1, <3>1, <3>2, <5>2
        <5>3. QED
          BY <5>1, <5>2
      <4>2. QED
        BY <1>1, <2>4, <3>1, <3>2, <4>1
    <3>3. CASE i # n
      <4>1. i \in 1..n - 1 /\ i + 1 \in 1..n
        BY <1>1, <2>1, <3>3
      <4>2. Place(r, i + 1) =
              (IF r + (i + 1) <= QueueSize THEN (r + (i + 1)) - 1
               ELSE ((r + (i + 1)) - 1) - QueueSize)
        BY <1>1, <2>1, <4>1, Placing
      <4>3. Place(r2, i) = Place(r, i + 1) /\ Place(r2, i) # w
        <5>1. CASE w = QueueSize - 1
          BY <1>1, <2>1, <3>1, <4>1, <4>2, <5>1
        <5>2. CASE w # QueueSize - 1
          BY <1>1, <2>1, <3>1, <4>1, <4>2, <5>2
        <5>3. QED
          BY <5>1, <5>2
      <4>4. q2[i] = s[Place(r, i + 1)]
        BY <1>1, <3>1, <4>3
      <4>5. q2[i] = q[i + 1]
        BY <1>6, <4>1, <4>4
      <4>6. QED
        BY <2>3, <2>4, <4>1, <4>5
    <3>4. QED
      BY <3>2, <3>3
  <2>6. q2 = Append(Tail(q), e)
    BY <1>7, <2>1, <2>4, <2>5, SameSeq
  <2>7. QED
    BY <1>3, <1>8, <2>6 DEF q, q2
<1>9. CASE ~f
  <2>1. n < QueueSize /\ r2 = r /\ Len(q2) = n + 1 /\ n \in Nat
    BY <1>1, <1>4, <1>7, <1>9
  <2>2. /\ Append(q, e) \in Seq(Slot) /\ Len(Append(q, e)) = n + 1
        /\ \A i \in 1..n : Append(q, e)[i] = q[i]
        /\ Append(q, e)[n + 1] = e
    BY <1>6, AppendProperties
  <2>3. ASSUME NEW i \in 1..n + 1 PROVE q2[i] = Append(q, e)[i]
    <3>1. i \in 1..QueueSize /\ q2[i] = s2[Place(r, i)]
      BY <1>1, <1>7, <2>1
    <3>2. /\ Place(r, i) \in 0..QueueSize - 1
          /\ Place(r, i) = (IF r + i <= QueueSize THEN (r + i) - 1 ELSE ((r + i) - 1) - QueueSize)
      BY <1>1, <3>1, Placing
    <3>3. CASE i = n + 1
      <4>1. Place(r, i) = w
        BY <1>1, <1>4, <1>9, <2>1, <3>1, <3>2, <3>3
      <4>2. QED
        BY <1>1, <2>1, <2>2, <3>1, <3>3, <4>1
    <3>4. CASE i # n + 1
      <4>1. i \in 1..n
        BY <2>1, <3>4
      <4>2. Place(r, i) # w
        BY <1>1, <1>4, <1>9, <2>1, <3>1, <3>2, <4>1
      <4>3. q2[i] = s[Place(r, i)]
        BY <1>1, <3>1, <3>2, <4>2
      <4>4. QED
        BY <1>6, <2>2, <4>1, <4>3
    <3>5. QED
      BY <3>3, <3>4
  <2>4. q2 = Append(q, e)
    BY <1>7, <2>1, <2>2, <2>3, SameSeq
  <2>5. QED
    BY <1>3, <1>9, <2>4 DEF q, q2
<1>10. QED
  BY <1>1, <1>8, <1>9

(* The pop of the record in front.                                         *)
RingNotFull(f) == f \in BOOLEAN /\ ~f

(* The reader having passed, the ring holds the records but the first.     *)
LEMMA RingPopped ==
  ASSUME NEW s, NEW w, NEW r, NEW f, RingTyped(s, w, r, f),
         RingSeq(s, w, r, f) # <<>>, NEW r2, NEW f2, r2 = After(r), RingNotFull(f2)
  PROVE  /\ RingTyped(s, w, r2, f2)
         /\ RingSeq(s, w, r2, f2) = Tail(RingSeq(s, w, r, f))
<1> USE DEF RingNotFull
<1> DEFINE q == RingSeq(s, w, r, f)
           q2 == RingSeq(s, w, r2, f2)
           n == Count(w, r, f)
<1>1. /\ QueueSize \in Nat \ {0} /\ w \in 0..QueueSize - 1 /\ r \in 0..QueueSize - 1
      /\ f \in BOOLEAN /\ s \in [0..QueueSize - 1 -> Slot] /\ (f => w = r)
  BY Parameters DEF RingTyped
<1>2. r2 \in 0..QueueSize - 1 /\ r2 = IF r = QueueSize - 1 THEN 0 ELSE r + 1
  BY <1>1, Turning
<1>3. RingTyped(s, w, r2, f2)
  BY <1>1, <1>2 DEF RingTyped
<1>4. /\ n \in 0..QueueSize
      /\ n = IF f THEN QueueSize ELSE IF w >= r THEN w - r ELSE QueueSize + w - r
  BY Counting
<1>5. /\ q \in Seq(Slot) /\ Len(q) = n /\ \A i \in 1..n : q[i] = s[Place(r, i)]
  BY RingElements
<1>6. n > 0
  BY <1>4, <1>5
<1>7. Count(w, r2, f2) = n - 1
  <2>1. Count(w, r2, f2) =
          IF w >= r2 THEN w - r2 ELSE QueueSize + w - r2
    BY <1>3, Counting
  <2>2. QED
    BY <1>1, <1>2, <1>4, <1>6, <2>1
<1>8. /\ q2 \in Seq(Slot) /\ Len(q2) = n - 1
      /\ \A i \in 1..n - 1 : q2[i] = s[Place(r2, i)]
  BY <1>3, <1>7, RingElements
<1>9. /\ Tail(q) \in Seq(Slot) /\ Len(Tail(q)) = n - 1
      /\ \A i \in 1..n - 1 : Tail(q)[i] = q[i + 1]
  BY <1>5, HeadTailProperties
<1> HIDE DEF q, q2, n
<1>10. ASSUME NEW i \in 1..n - 1 PROVE q2[i] = Tail(q)[i]
  <2>1. i \in 1..QueueSize /\ i + 1 \in 1..QueueSize /\ i + 1 \in 1..n
    BY <1>1, <1>4
  <2>2. Place(r2, i) = Place(r, i + 1)
    <3>1. Place(r2, i) = (IF r2 + i <= QueueSize THEN (r2 + i) - 1
                          ELSE ((r2 + i) - 1) - QueueSize)
      BY <1>2, <2>1, Placing
    <3>2. Place(r, i + 1) = (IF r + (i + 1) <= QueueSize THEN (r + (i + 1)) - 1
                             ELSE ((r + (i + 1)) - 1) - QueueSize)
      BY <1>1, <2>1, Placing
    <3>3. QED
      BY <1>1, <1>2, <2>1, <3>1, <3>2
  <2>3. q2[i] = s[Place(r, i + 1)]
    BY <1>8, <2>2
  <2>4. QED
    BY <1>5, <1>9, <2>1, <2>3
<1>11. q2 = Tail(q)
  BY <1>8, <1>9, <1>10, SameSeq
<1>12. QED
  BY <1>3, <1>11 DEF q, q2

(* The queue is emptied.                                                   *)
LEMMA RingEmptied ==
  ASSUME NEW s, NEW w, NEW r, NEW f, RingTyped(s, w, r, f), NEW f2 \in BOOLEAN, ~f2
  PROVE  RingTyped(s, w, w, f2) /\ RingSeq(s, w, w, f2) = <<>>
<1>1. RingTyped(s, w, w, f2) /\ w \in Int
  <2>1. s \in [0..QueueSize - 1 -> Slot] /\ w \in 0..QueueSize - 1 /\ QueueSize \in Nat
    BY Parameters DEF RingTyped
  <2>2. QED
    BY <2>1 DEF RingTyped
<1>2. Count(w, w, f2) = 0
  BY <1>1, Counting
<1>3. RingSeq(s, w, w, f2) \in Seq(Slot) /\ Len(RingSeq(s, w, w, f2)) = 0
  BY <1>1, <1>2, RingElements
<1>4. QED
  BY <1>1, <1>3

(* The records that are kept are put into the ring from the writer on.     *)
RingFill(k, s, w, s2, w2, f2) ==
  /\ s2 = [i \in DOMAIN s |-> IF ((i - w) % QueueSize) + 1 <= Len(k)
                             THEN k[((i - w) % QueueSize) + 1] ELSE s[i]]
  /\ w2 = (w + Len(k)) % QueueSize
  /\ f2 \in BOOLEAN /\ (f2 <=> Len(k) = QueueSize)

(* What is put into the emptied ring is what it holds.                     *)
LEMMA RingFilled ==
  ASSUME NEW s, NEW w, NEW r, NEW f, RingTyped(s, w, r, f),
         NEW k \in Seq(Slot), Len(k) <= QueueSize,
         NEW s2, NEW w2, NEW f2, RingFill(k, s, w, s2, w2, f2)
  PROVE  RingTyped(s2, w2, w, f2) /\ RingSeq(s2, w2, w, f2) = k
<1> USE DEF RingFill
<1> DEFINE place(i) == ((i - w) % QueueSize) + 1
           n == Len(k)
<1>1. /\ QueueSize \in Nat \ {0} /\ w \in 0..QueueSize - 1 /\ n \in 0..QueueSize
      /\ s \in [0..QueueSize - 1 -> Slot] /\ DOMAIN s = 0..QueueSize - 1
  BY Parameters, LenProperties DEF RingTyped
<1>2. ASSUME NEW i \in 0..QueueSize - 1
      PROVE  /\ place(i) = IF i < w THEN ((i - w) + QueueSize) + 1 ELSE (i - w) + 1
             /\ place(i) \in 1..QueueSize
  <2> DEFINE a == i - w
  <2>1. a \in Int /\ -QueueSize <= a /\ a < 2 * QueueSize /\ a < QueueSize /\ (a < 0 <=> i < w)
    BY <1>1
  <2>2. a % QueueSize = IF a < 0 THEN a + QueueSize ELSE a
    <3> HIDE DEF a
    <3>1. QED
      BY <1>1, <2>1, Modulo
  <2>3. place(i) = (a % QueueSize) + 1 /\ a = i - w
    OBVIOUS
  <2> HIDE DEF a, place
  <2>4. /\ place(i) = IF i < w THEN (a + QueueSize) + 1 ELSE a + 1
        /\ place(i) \in 1..QueueSize
    BY ONLY <1>1, <2>1, <2>2, <2>3
  <2>5. QED
    BY ONLY <2>3, <2>4
<1>3. w2 = IF w + n < QueueSize THEN w + n ELSE (w + n) - QueueSize
  <2> DEFINE a == w + n
  <2>1. a \in Int /\ -QueueSize <= a /\ a < 2 * QueueSize /\ ~(a < 0)
    <3> HIDE DEF n
    <3>1. QED
      BY ONLY <1>1
  <2>2. a % QueueSize = IF a < QueueSize THEN a ELSE a - QueueSize
    <3> HIDE DEF a
    <3>1. QED
      BY <1>1, <2>1, Modulo
  <2>3. QED
    BY <2>1, <2>2
<1>4. s2 \in [0..QueueSize - 1 -> Slot]
  <2>1. ASSUME NEW i \in 0..QueueSize - 1
        PROVE  (IF place(i) <= Len(k) THEN k[place(i)] ELSE s[i]) \in Slot
    <3>1. place(i) \in 1..QueueSize
      BY <1>2
    <3> HIDE DEF place
    <3>2. CASE place(i) <= Len(k)
      <4>1. place(i) \in 1..Len(k)
        BY <1>1, <3>1, <3>2
      <4>2. k[place(i)] \in Slot
        BY <4>1, ElementOfSeq
      <4>3. QED
        BY <3>2, <4>2
    <3>3. CASE ~(place(i) <= Len(k))
      BY <1>1, <3>3
    <3>4. QED
      BY <3>2, <3>3
  <2> HIDE DEF place
  <2>2. QED
    BY <1>1, <2>1
<1>5. w2 \in 0..QueueSize - 1 /\ (f2 <=> n = QueueSize) /\ (f2 => w2 = w)
  <2>1. f2 <=> n = QueueSize
    OBVIOUS
  <2> HIDE DEF n
  <2>2. QED
    BY ONLY <1>1, <1>3, <2>1
<1>6. RingTyped(s2, w2, w, f2)
  BY <1>1, <1>4, <1>5 DEF RingTyped
<1>7. Count(w2, w, f2) = n
  <2>1. Count(w2, w, f2) = IF f2 THEN QueueSize ELSE IF w2 >= w THEN w2 - w ELSE QueueSize + w2 - w
    BY ONLY <1>6, Counting
  <2> DEFINE c == Count(w2, w, f2)
  <2> HIDE DEF c, n
  <2>2. c = IF f2 THEN QueueSize ELSE IF w2 >= w THEN w2 - w ELSE (QueueSize - w) + w2
    BY ONLY <1>1, <1>5, <2>1 DEF c
  <2>3. c = n
    BY ONLY <1>1, <1>3, <1>5, <2>2
  <2>4. QED
    BY <2>3 DEF c
<1>8. /\ RingSeq(s2, w2, w, f2) \in Seq(Slot) /\ Len(RingSeq(s2, w2, w, f2)) = n
      /\ \A i \in 1..n : RingSeq(s2, w2, w, f2)[i] = s2[Place(w, i)]
  <2>1. /\ RingSeq(s2, w2, w, f2) \in Seq(Slot)
        /\ Len(RingSeq(s2, w2, w, f2)) = Count(w2, w, f2)
        /\ \A i \in 1..Count(w2, w, f2) : RingSeq(s2, w2, w, f2)[i] = s2[Place(w, i)]
    BY ONLY <1>6, RingElements
  <2>2. QED
    BY ONLY <1>7, <2>1
<1>9. ASSUME NEW i \in 1..n PROVE s2[Place(w, i)] = k[i]
  <2>1. /\ i \in 1..QueueSize /\ Place(w, i) \in 0..QueueSize - 1
        /\ Place(w, i) = (IF w + i <= QueueSize THEN (w + i) - 1 ELSE ((w + i) - 1) - QueueSize)
    <3>1. i \in 1..QueueSize
      BY <1>1
    <3>2. QED
      BY <1>1, <3>1, Placing
  <2>2. place(Place(w, i)) = IF Place(w, i) < w THEN ((Place(w, i) - w) + QueueSize) + 1
                             ELSE (Place(w, i) - w) + 1
    BY <1>2, <2>1
  <2>3. s2[Place(w, i)] = IF place(Place(w, i)) <= Len(k) THEN k[place(Place(w, i))]
                          ELSE s[Place(w, i)]
    BY <1>1, <2>1
  <2> DEFINE x == Place(w, i)
  <2> HIDE DEF place, n, x
  <2>4. place(x) = i
    <3>1. /\ i \in 1..n /\ i \in 1..QueueSize /\ x \in 0..QueueSize - 1
          /\ x = (IF w + i <= QueueSize THEN (w + i) - 1 ELSE ((w + i) - 1) - QueueSize)
          /\ place(x) = IF x < w THEN ((x - w) + QueueSize) + 1 ELSE (x - w) + 1
      BY <2>1, <2>2 DEF x
    <3>2. CASE w + i <= QueueSize
      BY ONLY <1>1, <3>1, <3>2
    <3>3. CASE ~(w + i <= QueueSize)
      <4>1. x < w
        BY ONLY <1>1, <3>1, <3>3
      <4>2. QED
        BY ONLY <1>1, <3>1, <3>3, <4>1
    <3>4. QED
      BY <3>2, <3>3
  <2>5. i <= Len(k)
    BY <1>1 DEF n
  <2>6. s2[Place(w, i)] = k[place(x)]
    BY ONLY <2>3, <2>4, <2>5 DEF x
  <2>7. QED
    BY ONLY <2>4, <2>6
<1>10. RingSeq(s2, w2, w, f2) = k
  <2> DEFINE q == RingSeq(s2, w2, w, f2)
  <2> HIDE DEF q
  <2>1. /\ q \in Seq(Slot) /\ k \in Seq(Slot) /\ Len(q) = Len(k)
        /\ \A i \in 1..Len(q) : q[i] = k[i]
    BY <1>8, <1>9 DEF q, n
  <2>2. q = k
    BY ONLY <2>1, SameSeq
  <2>3. QED
    BY <2>2 DEF q
<1>11. QED
  BY <1>6, <1>10
----------------------------------------------------------------------------
(* The dispatcher takes the records from the front: it leaves some of the  *)
(* queue a, and if the thread had no record it may have one that stood in  *)
(* front of them.                                                          *)
Drawn(a, now, a2, now2) ==
  \E P \in SUBSET (1..Len(a)) :
    /\ a2 = Keep(a, P)
    /\ \/ now2 = now
       \/ /\ now = NoRecord
          /\ \E k \in 1..Len(a) : now2 = a[k] /\ \A i \in P : k < i

(* The least number of a set that is not empty.                            *)
LEMMA LeastIs ==
  ASSUME NEW S \in SUBSET Nat, S # {}
  PROVE  Min(S) \in S /\ \A i \in S : Min(S) <= i
BY LeastPosition DEF Min

(* SpawnDispatcher draws from the queue.                                   *)
LEMMA SpawnedDraws ==
  ASSUME NEW s \in Seq(Record), NEW now, NEW gone
  PROVE  Drawn(s, now, Spawned(s, now, gone).app, Spawned(s, now, gone).running)
<1> DEFINE startable == {i \in 1..Len(s) : Startable(s[i]) /\ s[i].port \notin gone}
           first == Min(startable)
           d == Spawned(s, now, gone)
<1>1. d = IF now # NoRecord THEN [app |-> s, running |-> now]
          ELSE IF startable = {} THEN [app |-> <<>>, running |-> NoRecord]
          ELSE [app |-> SubSeq(s, first + 1, Len(s)), running |-> s[first]]
  BY DEF Spawned
<1>2. startable \in SUBSET (1..Len(s)) /\ startable \in SUBSET Nat
  OBVIOUS
<1> HIDE DEF startable, d
<1>3. CASE now # NoRecord
  <2>1. d.app = s /\ d.running = now
    BY <1>1, <1>3
  <2>2. s = Keep(s, 1..Len(s)) /\ 1..Len(s) \in SUBSET (1..Len(s))
    BY KeepAll
  <2>3. QED
    BY <2>1, <2>2 DEF d, Drawn
<1>4. CASE now = NoRecord /\ startable = {}
  <2>1. d.app = <<>> /\ d.running = now
    BY <1>1, <1>4
  <2>2. {} \in SUBSET (1..Len(s)) /\ Cardinality({}) = 0
    BY FS_EmptySet
  <2>3. Keep(s, {}) \in Seq(Record) /\ Len(Keep(s, {})) = 0
    BY <2>2, KeepProperties
  <2>4. Keep(s, {}) = <<>>
    BY <2>3
  <2>5. QED
    BY <2>1, <2>2, <2>4 DEF d, Drawn
<1>5. CASE now = NoRecord /\ startable # {}
  <2>1. first \in 1..Len(s)
    BY <1>2, <1>5, LeastIs
  <2> HIDE DEF first
  <2>2. d.app = SubSeq(s, first + 1, Len(s)) /\ d.running = s[first]
    BY <1>1, <1>5
  <2>3. SubSeq(s, first + 1, Len(s)) = Keep(s, first + 1..Len(s))
    BY <2>1, KeepRest
  <2>4. first + 1..Len(s) \in SUBSET (1..Len(s)) /\ \A i \in first + 1..Len(s) : first < i
    BY <2>1
  <2>5. QED
    BY <1>5, <2>1, <2>2, <2>3, <2>4 DEF d, Drawn
<1>6. QED
  BY <1>3, <1>4, <1>5

(* The same of a queue of which records have been removed ...              *)
LEMMA DrawnOfKept ==
  ASSUME NEW a \in Seq(Record), NEW P \in SUBSET (1..Len(a)), NEW now, NEW a2, NEW now2,
         Drawn(Keep(a, P), now, a2, now2)
  PROVE  Drawn(a, now, a2, now2)
<1> DEFINE b == Keep(a, P)
<1>1. PICK f : KeptBy(f, a, P, b)
  BY KeepKept
<1>2. PICK R \in SUBSET (1..Len(b)) :
        /\ a2 = Keep(b, R)
        /\ \/ now2 = now
           \/ /\ now = NoRecord
              /\ \E k \in 1..Len(b) : now2 = b[k] /\ \A i \in R : k < i
  BY DEF Drawn
<1> DEFINE S == FormerPlaces(f, R)
<1>3. S \in SUBSET (1..Len(a)) /\ a2 = Keep(a, S)
  BY <1>1, <1>2 DEF KeptBy
<1> HIDE DEF b
<1>4. CASE now2 = now
  <2> HIDE DEF S
  <2>1. QED
    BY <1>3, <1>4 DEF Drawn
<1>5. ASSUME now = NoRecord, NEW k \in 1..Len(b), now2 = b[k], \A i \in R : k < i
      PROVE  Drawn(a, now, a2, now2)
  <2>1. f[k] \in 1..Len(a) /\ now2 = a[f[k]]
    BY <1>1, <1>5 DEF Counts, KeptBy
  <2>2. ASSUME NEW j \in S PROVE f[k] < j
    <3>1. PICK i \in R : j = f[i]
      BY DEF FormerPlaces
    <3>2. QED
      BY <1>1, <1>5, <3>1 DEF Counts, KeptBy
  <2> HIDE DEF S
  <2>3. QED
    BY <1>3, <1>5, <2>1, <2>2 DEF Drawn
<1>6. QED
  BY <1>2, <1>4, <1>5

(* ... and when records are removed of what is left.                       *)
LEMMA DrawnThenKept ==
  ASSUME NEW a \in Seq(Record), NEW now, NEW b, NEW now2, Drawn(a, now, b, now2),
         NEW R \in SUBSET (1..Len(b))
  PROVE  Drawn(a, now, Keep(b, R), now2)
<1>1. PICK P \in SUBSET (1..Len(a)) :
        /\ b = Keep(a, P)
        /\ \/ now2 = now
           \/ /\ now = NoRecord
              /\ \E k \in 1..Len(a) : now2 = a[k] /\ \A i \in P : k < i
  BY DEF Drawn
<1>2. PICK S \in SUBSET P : Keep(b, R) = Keep(a, S)
  <2>1. PICK f : KeptBy(f, a, P, b)
    BY <1>1, KeepKept
  <2>2. QED
    BY <2>1 DEF KeptBy
<1>3. S \in SUBSET (1..Len(a)) /\ \A i \in S : i \in P
  OBVIOUS
<1>4. QED
  BY <1>1, <1>2, <1>3 DEF Drawn

(* What is left is in the queue, and the thread's record is one.           *)
LEMMA DrawnTyped ==
  ASSUME NEW a \in Seq(Record), NEW now \in Record \cup {NoRecord}, NEW a2, NEW now2,
         Drawn(a, now, a2, now2)
  PROVE  /\ a2 \in Seq(Record) /\ now2 \in Record \cup {NoRecord}
         /\ Len(a2) \in 0..Len(a) /\ Nodes(a2) \subseteq Nodes(a)
<1>1. PICK P \in SUBSET (1..Len(a)) :
        /\ a2 = Keep(a, P)
        /\ \/ now2 = now
           \/ /\ now = NoRecord
              /\ \E k \in 1..Len(a) : now2 = a[k] /\ \A i \in P : k < i
  BY DEF Drawn
<1>2. a2 \in Seq(Record) /\ Len(a2) = Cardinality(P) /\ Nodes(a2) = {a[i] : i \in P}
  BY <1>1, KeepProperties, KeepNodes
<1>3. Nodes(a2) \subseteq Nodes(a)
  BY <1>2 DEF Nodes
<1>4. Cardinality(P) \in 0..Len(a)
  <2>1. IsFiniteSet(1..Len(a)) /\ Cardinality(1..Len(a)) = Len(a)
    <3>1. Len(a) \in Nat /\ 1 \in Int /\ Len(a) \in Int
      OBVIOUS
    <3>2. Cardinality(1..Len(a)) = (IF 1 > Len(a) THEN 0 ELSE (Len(a) - 1) + 1)
          /\ IsFiniteSet(1..Len(a))
      BY <3>1, FS_Interval
    <3>3. QED
      BY <3>1, <3>2
  <2>2. Cardinality(P) \in Nat /\ Cardinality(P) <= Cardinality(1..Len(a))
    BY <2>1, FS_Subset, FS_CardinalityType
  <2>3. QED
    BY <2>1, <2>2
<1>5. now2 \in Record \cup {NoRecord}
  BY <1>1, ElementOfSeq
<1>6. QED
  BY <1>2, <1>3, <1>4, <1>5
----------------------------------------------------------------------------
(* What the operations of the HAL queue do to the records in it.           *)
LEMMA HalTyped ==
  ASSUME TypeOK
  PROVE  /\ RingTyped(slots, writer, reader, full)
         /\ Len(HalRecords) = NumberOfElements
         /\ NumberOfElements = QueueSize <=> full
         /\ NumberOfElements \in 0..QueueSize
         /\ HalRecords # <<>> => HalRecords[1] = slots[reader]
<1>1. RingTyped(slots, writer, reader, full)
  BY DEF TypeOK, RingTyped, Slot
<1> DEFINE n == Count(writer, reader, full)
           q == RingSeq(slots, writer, reader, full)
<1>2. HalRecords = q /\ NumberOfElements = n
  BY RingIs
<1>3. q \in Seq(Slot) /\ Len(q) = n /\ \A i \in 1..n : q[i] = slots[Place(reader, i)]
  BY <1>1, RingElements
<1>4. (n = QueueSize <=> full) /\ n \in 0..QueueSize
  BY <1>1, Counting
<1>5. reader \in 0..QueueSize - 1 /\ QueueSize \in Nat \ {0}
  BY <1>1, Parameters DEF RingTyped
<1> HIDE DEF q, n
<1>6. ASSUME q # <<>> PROVE q[1] = slots[reader]
  <2>1. 1 \in 1..n /\ 1 \in 1..QueueSize /\ reader + 1 <= QueueSize /\ (reader + 1) - 1 = reader
    BY <1>3, <1>4, <1>5, <1>6
  <2>2. Place(reader, 1) = reader
    BY <1>5, <2>1, Placing
  <2>3. QED
    BY <1>3, <2>1, <2>2
<1>7. QED
  BY <1>1, <1>2, <1>3, <1>4, <1>6

(* A step that leaves the ring alone leaves its records.                   *)
LEMMA SameRecords ==
  ASSUME UNCHANGED hal
  PROVE  HalRecords' = HalRecords /\ NumberOfElements' = NumberOfElements
BY DEF hal, HalRecords, NumberOfElements

(* SaveToHALQueue puts the record behind the others; the first is lost if  *)
(* the ring is full.                                                       *)
LEMMA RecordSaved ==
  ASSUME TypeOK, HalRecords \in Seq(Record), NEW e \in Record, SaveToHALQueue(e)
  PROVE  /\ RingTyped(slots', writer', reader', full')
         /\ HalRecords' \in Seq(Record)
         /\ HalRecords' = IF full THEN Append(Tail(HalRecords), e) ELSE Append(HalRecords, e)
         /\ full => HalRecords # <<>>
         /\ lost' = IF full THEN lost \cup {HalRecords[1].id} ELSE lost
<1>1. /\ RingTyped(slots, writer, reader, full) /\ Len(HalRecords) = NumberOfElements
      /\ NumberOfElements = QueueSize <=> full
      /\ HalRecords # <<>> => HalRecords[1] = slots[reader]
  BY HalTyped
<1>2. /\ slots' = [slots EXCEPT ![writer] = e] /\ writer' = After(writer)
      /\ reader' = (IF full THEN After(reader) ELSE reader)
      /\ full' \in BOOLEAN /\ (full' <=> writer' = reader')
      /\ lost' = IF full THEN lost \cup {slots[reader].id} ELSE lost
  BY DEF SaveToHALQueue
<1>3. e \in Slot
  BY DEF Slot
<1>4. /\ RingTyped(slots', writer', reader', full')
      /\ RingSeq(slots', writer', reader', full') =
           IF full THEN Append(Tail(RingSeq(slots, writer, reader, full)), e)
           ELSE Append(RingSeq(slots, writer, reader, full), e)
  <2>1. RingPut(e, slots, writer, reader, full, slots', writer', reader', full')
    BY <1>2 DEF RingPut
  <2>2. QED
    BY ONLY <1>1, <1>3, <2>1, RingSaved
<1>5. HalRecords' = IF full THEN Append(Tail(HalRecords), e) ELSE Append(HalRecords, e)
  BY <1>4, RingIs
<1>6. full => HalRecords # <<>>
  <2>1. QueueSize # 0
    BY Parameters
  <2>2. QED
    BY <1>1, <2>1
<1>7. HalRecords' \in Seq(Record)
  <2>1. HalRecords # <<>> => Tail(HalRecords) \in Seq(Record)
    BY HeadTailProperties
  <2> DEFINE h == HalRecords
  <2> HIDE DEF h
  <2>2. /\ h \in Seq(Record) /\ (full => Tail(h) \in Seq(Record))
        /\ HalRecords' = IF full THEN Append(Tail(h), e) ELSE Append(h, e)
    BY <1>5, <1>6, <2>1 DEF h
  <2>3. QED
    BY <2>2, AppendProperties
<1>8. QED
  BY <1>1, <1>2, <1>4, <1>5, <1>6, <1>7

(* The pop removes the first record.                                       *)
LEMMA RecordPopped ==
  ASSUME TypeOK, HalRecords \in Seq(Record), HalRecords # <<>>,
         slots' = slots, writer' = writer, reader' = After(reader), full' = FALSE
  PROVE  /\ RingTyped(slots', writer', reader', full')
         /\ HalRecords' \in Seq(Record) /\ HalRecords' = Tail(HalRecords)
<1>1. RingTyped(slots, writer, reader, full)
  BY HalTyped
<1>2. RingSeq(slots, writer, reader, full) # <<>>
  BY RingIs
<1>3. /\ RingTyped(slots, writer, reader', full')
      /\ RingSeq(slots, writer, reader', full') = Tail(RingSeq(slots, writer, reader, full))
  <2>1. RingNotFull(full') /\ reader' = After(reader)
    BY DEF RingNotFull
  <2>2. QED
    BY ONLY <1>1, <1>2, <2>1, RingPopped
<1>4. HalRecords' = Tail(HalRecords)
  BY <1>3, RingIs
<1>5. Tail(HalRecords) \in Seq(Record)
  BY HeadTailProperties
<1>6. QED
  BY <1>3, <1>4, <1>5

(* Without memory no record stays in the ring.                             *)
LEMMA RecordsDropped ==
  ASSUME TypeOK, slots' = slots, writer' = writer, reader' = writer, full' = FALSE
  PROVE  RingTyped(slots', writer', reader', full') /\ HalRecords' = <<>>
<1>1. RingTyped(slots, writer, reader, full)
  BY HalTyped
<1>2. full' \in BOOLEAN /\ ~full'
  OBVIOUS
<1>3. RingTyped(slots, writer, writer, full') /\ RingSeq(slots, writer, writer, full') = <<>>
  BY ONLY <1>1, <1>2, RingEmptied
<1>4. QED
  BY <1>3, RingIs

(* The places of the records of other ports.                               *)
Others(s, p) == {i \in 1..Len(s) : s[i].port # p}

(* RemoveFromHALQueue keeps the records of the other ports, in their       *)
(* order.                                                                  *)
LEMMA RecordsRemoved ==
  ASSUME TypeOK, HalRecords \in Seq(Record), NEW p \in Port, RemoveFromHALQueue(p)
  PROVE  /\ RingTyped(slots', writer', reader', full')
         /\ HalRecords' = Keep(HalRecords, Others(HalRecords, p))
         /\ HalRecords' \in Seq(Record)
         /\ lost' = lost \cup (Ids(HalRecords) \ Ids(HalRecords'))
<1> DEFINE h == HalRecords
           P == Others(h, p)
           k == Keep(h, P)
<1>1. /\ RingTyped(slots, writer, reader, full) /\ Len(h) = NumberOfElements
      /\ NumberOfElements \in 0..QueueSize
  BY HalTyped
<1>2. P = {i \in 1..NumberOfElements : h[i].port # p} /\ P \in SUBSET (1..Len(h))
  BY <1>1 DEF Others
<1>3. /\ reader' = writer
      /\ writer' = (writer + Len(k)) % QueueSize
      /\ full' = (Len(k) = QueueSize)
      /\ slots' = [i \in DOMAIN slots |->
                     IF ((i - writer) % QueueSize) + 1 <= Len(k)
                     THEN k[((i - writer) % QueueSize) + 1] ELSE slots[i]]
      /\ lost' = lost \cup (Ids(h) \ Ids(k))
  BY <1>2 DEF RemoveFromHALQueue
<1> HIDE DEF P, h
<1>4. h \in Seq(Record)
  BY DEF h
<1>5. k \in Seq(Record) /\ Len(k) = Cardinality(P) /\ Cardinality(P) \in Nat
  BY <1>2, <1>4, KeepProperties
<1>6. Len(k) <= QueueSize
  <2>1. Len(h) \in Nat /\ 1 \in Int /\ Len(h) \in Int
    BY <1>4
  <2>2. IsFiniteSet(1..Len(h)) /\ Cardinality(1..Len(h)) = Len(h)
    <3>1. IsFiniteSet(1..Len(h))
          /\ Cardinality(1..Len(h)) = (IF 1 > Len(h) THEN 0 ELSE (Len(h) - 1) + 1)
      BY <2>1, FS_Interval
    <3>2. QED
      BY <2>1, <3>1
  <2>3. Cardinality(P) <= Len(h)
    BY <1>2, <2>2, FS_Subset
  <2>4. QED
    BY <1>1, <1>5, <2>1, <2>3, Parameters
<1> HIDE DEF k
<1>7. k \in Seq(Slot)
  BY <1>5 DEF Slot
<1>8. full' \in BOOLEAN /\ (full' <=> Len(k) = QueueSize)
  BY ONLY <1>3
<1>9. /\ RingTyped(slots', writer', writer, full')
      /\ RingSeq(slots', writer', writer, full') = k
  <2>1. RingFill(k, slots, writer, slots', writer', full')
    BY <1>3, <1>8 DEF RingFill
  <2>2. QED
    BY ONLY <1>1, <1>6, <1>7, <2>1, RingFilled
<1>10. HalRecords' = k
  BY <1>3, <1>9, RingIs
<1>11. QED
  BY <1>3, <1>5, <1>9, <1>10 DEF h, P, k
----------------------------------------------------------------------------
(* Only records are moved to the application.                              *)
TypesInv ==
  /\ TypeOK
  /\ HalRecords \in Seq(Record)
  /\ Copying => slots[rec] \in Record
  /\ pc = "copy_context" => copied # 0

(* Records have a number that was raised and a port; NoRecord is none.     *)
LEMMA RecordIs ==
  /\ \A r \in Record : r.id \in 1..MaxRaised /\ r.port \in Port /\ r # NoRecord
  /\ NoRecord \notin Record /\ NoRecord.id = 0
  /\ \A n \in 1..MaxRaised, p \in Port : [id |-> n, port |-> p] \in Record
<1>1. NoPort \notin Port
  BY Parameters
<1>2. QED
  BY <1>1 DEF Record, NoRecord

(* The numbers of records are those of interrupts.                         *)
LEMMA IdsTyped ==
  ASSUME NEW s \in Seq(Record)
  PROVE  Ids(s) \subseteq 1..MaxRaised /\ Ids(s) = {s[i].id : i \in 1..Len(s)}
<1>1. DOMAIN s = 1..Len(s) /\ \A i \in 1..Len(s) : s[i] \in Record
  BY ElementOfSeq
<1>2. \A i \in 1..Len(s) : s[i].id \in 1..MaxRaised
  BY <1>1, RecordIs
<1>3. QED
  BY <1>1, <1>2 DEF Ids

(* At the start nothing waits.                                             *)
LEMMA TypesInit == Init => TypesInv
<1> SUFFICES ASSUME Init PROVE TypesInv
  OBVIOUS
<1>1. QueueSize \in Nat \ {0} /\ MaxRaised \in Nat /\ MaxFaults \in Nat
  BY Parameters
<1>2. TypeOK
  <2>1. {reader, writer, rec} \subseteq 0..QueueSize - 1
    BY <1>1 DEF Init
  <2>2. app \in Seq(Record) /\ queued = Len(app)
    BY DEF Init
  <2>3. slots \in [0..QueueSize - 1 -> Record \cup {NoRecord}] /\ running \in Record \cup {NoRecord}
    BY DEF Init
  <2>4. state \in [Port -> {"open", "disposing", "disposed", "released"}]
    BY DEF Init
  <2>5. QED
    BY <1>1, <2>1, <2>2, <2>3, <2>4 DEF Init, TypeOK
<1>3. HalRecords \in Seq(Record)
  <2>1. RingTyped(slots, writer, reader, full) /\ Len(HalRecords) = NumberOfElements
    BY <1>2, HalTyped
  <2>2. RingSeq(slots, writer, writer, full) = <<>>
    <3>1. full \in BOOLEAN /\ ~full
      BY DEF Init
    <3>2. QED
      BY ONLY <2>1, <3>1, RingEmptied
  <2>3. HalRecords = <<>>
    <3>1. reader = writer
      BY DEF Init
    <3>2. QED
      BY <2>2, <3>1, RingIs
  <2>4. QED
    BY <2>3
<1>4. QED
  BY <1>2, <1>3 DEF Init, TypesInv, Copying

(* The steps of the dispatcher, which leave the HAL queue as it is.        *)
LEMMA TypesDispatch ==
  ASSUME TypesInv, NEW d, NEW now \in Record \cup {NoRecord},
         Drawn(app, now, d.app, d.running), Dispatch(d)
  PROVE  /\ app' \in Seq(Record) /\ running' \in Record \cup {NoRecord}
         /\ queued' = Len(app') /\ lost' \subseteq 1..MaxRaised
         /\ Drawn(app, now, app', running')
<1>1. /\ app \in Seq(Record) /\ queued = Len(app) /\ lost \subseteq 1..MaxRaised
  BY DEF TypesInv, TypeOK
<1>2. /\ app' = d.app /\ running' = d.running
      /\ queued' = queued - (Len(app) - Len(d.app))
      /\ lost' = lost \cup (Ids(app) \ (Ids(d.app) \cup {d.running.id}))
  BY DEF Dispatch
<1>3. /\ d.app \in Seq(Record) /\ d.running \in Record \cup {NoRecord}
      /\ Len(d.app) \in 0..Len(app)
  BY <1>1, DrawnTyped
<1>4. queued' = Len(app')
  <2>1. Len(app) \in Nat /\ Len(d.app) \in Nat
    BY <1>1, <1>3
  <2>2. QED
    BY <1>1, <1>2, <2>1
<1>5. lost' \subseteq 1..MaxRaised
  BY <1>1, <1>2, IdsTyped
<1>6. QED
  BY <1>2, <1>3, <1>4, <1>5
----------------------------------------------------------------------------
(* Each step by itself.                                                    *)
LEMMA TypesIsr ==
  ASSUME TypesInv, NEW p \in Port, IsrProcedure(p)
  PROVE  TypesInv'
<1> DEFINE e == [id |-> raised', port |-> p]
<1>1. /\ raised < MaxRaised /\ raised' = raised + 1 /\ SaveToHALQueue(e)
      /\ disabled' = IF p \in LevelPort THEN disabled \cup {p} ELSE disabled
      /\ UNCHANGED <<app, queued, running, pc, transfer, state, delegates, faults>>
  BY DEF IsrProcedure
<1>2. raised \in 0..MaxRaised /\ MaxRaised \in Nat /\ TypeOK /\ HalRecords \in Seq(Record)
  BY Parameters DEF TypesInv, TypeOK
<1>3. raised' \in 0..MaxRaised /\ raised' \in 1..MaxRaised
  BY <1>1, <1>2
<1>4. e \in Record
  BY <1>3, RecordIs
<1> HIDE DEF e
<1>5. /\ RingTyped(slots', writer', reader', full') /\ HalRecords' \in Seq(Record)
      /\ lost' = IF full THEN lost \cup {HalRecords[1].id} ELSE lost
      /\ full => HalRecords # <<>>
  BY <1>1, <1>2, <1>4, RecordSaved
<1>6. slots' = [slots EXCEPT ![writer] = e] /\ event' = TRUE
  BY <1>1 DEF SaveToHALQueue
<1>7. lost' \subseteq 1..MaxRaised
  <2>1. CASE full
    <3>1. 1 \in 1..Len(HalRecords)
      BY <1>2, <1>5, <2>1
    <3>2. HalRecords[1] \in Record
      BY <1>2, <3>1, ElementOfSeq
    <3>3. QED
      BY <1>2, <1>5, <2>1, <3>2, RecordIs DEF TypeOK
  <2>2. CASE ~full
    BY <1>2, <1>5, <2>2 DEF TypeOK
  <2>3. QED
    BY <2>1, <2>2
<1>8. Copying' => slots'[rec'] \in Record
  <2>1. Copying' => Copying /\ slots[rec] \in Record
    BY <1>1 DEF TypesInv, Copying
  <2>2. rec' = rec /\ rec \in 0..QueueSize - 1 /\ writer \in 0..QueueSize - 1
        /\ slots \in [0..QueueSize - 1 -> Record \cup {NoRecord}]
    BY <1>1, <1>2 DEF TypeOK, transfer
  <2>3. QED
    BY <1>4, <1>6, <2>1, <2>2
<1>9. TypeOK'
  BY <1>1, <1>2, <1>3, <1>5, <1>6, <1>7 DEF TypeOK, RingTyped, Slot, transfer
<1>10. pc' = "copy_context" => copied' # 0
  BY <1>1 DEF TypesInv, transfer
<1>11. QED
  BY <1>5, <1>8, <1>9, <1>10 DEF TypesInv

(* Steps that move no record.                                              *)
LEMMA TypesLocal ==
  ASSUME TypesInv,
         \/ ProcessInterrupts \/ Allocate
         \/ \E p \in Port : \/ Disposed(p) \/ EnableInterrupt(p)
                            \/ SetThreadSpawn(p) \/ DisableInterrupt(p)
  PROVE  TypesInv'
<1>1. /\ UNCHANGED <<hal, app, queued, running, transfer, raised, lost, faults>>
      /\ state' \in [Port -> {"open", "disposing", "disposed", "released"}]
      /\ disabled' \subseteq Port /\ delegates' \subseteq Port
      /\ event' \in BOOLEAN
      /\ pc' \in {"idle", "peek", "copy_data"} /\ (pc' = "copy_data" => pc = "allocate")
  <2> USE DEF TypesInv, TypeOK
  <2>1. CASE ProcessInterrupts \/ Allocate
    BY <2>1 DEF ProcessInterrupts, Allocate, ports
  <2>2. CASE \E p \in Port : Disposed(p)
    BY <2>2 DEF Disposed
  <2>3. CASE \E p \in Port : EnableInterrupt(p) \/ SetThreadSpawn(p) \/ DisableInterrupt(p)
    BY <2>3 DEF EnableInterrupt, SetThreadSpawn, DisableInterrupt, Idle
  <2>4. QED
    BY <2>1, <2>2, <2>3
<1>2. HalRecords' = HalRecords
  BY <1>1, SameRecords
<1>3. QED
  BY <1>1, <1>2 DEF TypesInv, TypeOK, Copying, hal, transfer

(* The peek finds a record that was raised.                                *)
LEMMA TypesPeek ==
  ASSUME TypesInv, Peek
  PROVE  TypesInv'
<1>1. UNCHANGED <<hal, event, app, queued, running, copied, ports, raised, lost, faults>>
  BY DEF Peek
<1>2. HalRecords' = HalRecords
  BY <1>1, SameRecords
<1>3. CASE HalRecords # <<>>
  <2>1. pc' = "allocate" /\ rec' = reader
    BY <1>3 DEF Peek
  <2>2. HalRecords[1] = slots[reader] /\ HalRecords[1] \in Record
    <3>1. 1 \in 1..Len(HalRecords) /\ HalRecords \in Seq(Record)
      BY <1>3 DEF TypesInv
    <3>2. QED
      BY <1>3, <3>1, ElementOfSeq, HalTyped DEF TypesInv
  <2>3. QED
    BY <1>1, <1>2, <2>1, <2>2 DEF TypesInv, TypeOK, hal, ports
<1>4. CASE HalRecords = <<>>
  <2>1. pc' \in {"idle", "spawn"} /\ rec' = rec
    BY <1>4 DEF Peek
  <2>2. QED
    BY <1>1, <1>2, <2>1 DEF TypesInv, TypeOK, Copying, hal, ports
<1>5. QED
  BY <1>3, <1>4

(* What is read of the slot is the number of an interrupt.                 *)
LEMMA TypesCopyData ==
  ASSUME TypesInv, CopyData
  PROVE  TypesInv'
<1>1. /\ pc = "copy_data" /\ pc' = "copy_context" /\ copied' = slots[rec].id
      /\ UNCHANGED <<hal, event, app, queued, running, rec, ports, raised, lost, faults>>
  BY DEF CopyData
<1>2. HalRecords' = HalRecords
  BY <1>1, SameRecords
<1>3. slots[rec] \in Record
  BY <1>1 DEF TypesInv, Copying
<1>4. copied' \in 1..MaxRaised
  BY <1>1, <1>3, RecordIs
<1>5. copied' \in 0..MaxRaised /\ copied' # 0
  BY <1>4, Parameters
<1>6. QED
  BY <1>1, <1>2, <1>3, <1>5 DEF TypesInv, TypeOK, Copying, hal, ports

(* The record that is appended has the number and the port of an           *)
(* interrupt.                                                              *)
LEMMA TypesCopyContext ==
  ASSUME TypesInv, CopyContext
  PROVE  TypesInv'
<1> DEFINE e == [id |-> copied, port |-> slots[rec].port]
<1>1. /\ pc = "copy_context" /\ pc' = "pop" /\ app' = Append(app, e) /\ queued' = queued + 1
      /\ UNCHANGED <<hal, event, running, transfer, ports, raised, lost, faults>>
  BY DEF CopyContext
<1>2. HalRecords' = HalRecords
  BY <1>1, SameRecords
<1>3. slots[rec] \in Record /\ copied # 0 /\ copied \in 0..MaxRaised
  BY <1>1 DEF TypesInv, TypeOK, Copying
<1>4. e \in Record
  <2>1. copied \in 1..MaxRaised
    BY <1>3, Parameters
  <2>2. QED
    BY <1>3, <2>1, RecordIs
<1> HIDE DEF e
<1>5. app \in Seq(Record) /\ queued = Len(app)
  BY DEF TypesInv, TypeOK
<1>6. app' \in Seq(Record) /\ queued' = Len(app')
  BY <1>1, <1>4, <1>5, AppendProperties
<1>7. QED
  BY <1>1, <1>2, <1>3, <1>6 DEF TypesInv, TypeOK, Copying, hal, ports, transfer
----------------------------------------------------------------------------
(* The pop takes nothing that was copied back.                             *)
LEMMA TypesPop ==
  ASSUME TypesInv, PopTransferred
  PROVE  TypesInv'
<1>1. /\ pc' = "peek" /\ rec' = 0 /\ copied' = 0
      /\ UNCHANGED <<slots, writer, event, app, queued, running, ports, raised, lost, faults>>
  BY DEF PopTransferred
<1>2. RingTyped(slots', writer', reader', full') /\ HalRecords' \in Seq(Record)
  <2>1. CASE HalRecords = <<>>
    <3>1. UNCHANGED hal
      BY <1>1, <2>1 DEF PopTransferred, hal
    <3>2. HalRecords' = HalRecords
      BY <3>1, SameRecords
    <3>3. QED
      BY <3>1, <3>2, HalTyped DEF TypesInv, hal
  <2>2. CASE HalRecords # <<>>
    <3>1. slots' = slots /\ writer' = writer /\ reader' = After(reader) /\ full' = FALSE
      BY <1>1, <2>2 DEF PopTransferred
    <3>2. QED
      BY <2>2, <3>1, RecordPopped DEF TypesInv
  <2>3. QED
    BY <2>1, <2>2
<1>3. 0 \in 0..QueueSize - 1 /\ 0 \in 0..MaxRaised
  BY Parameters
<1>4. TypeOK'
  BY <1>1, <1>2, <1>3 DEF TypesInv, TypeOK, RingTyped, Slot, ports
<1>5. QED
  BY <1>1, <1>2, <1>4 DEF TypesInv, Copying

(* The failing allocation empties the ring.                                *)
LEMMA TypesOutOfMemory ==
  ASSUME TypesInv, OutOfMemory
  PROVE  TypesInv'
<1>1. /\ pc' = "idle" /\ rec' = 0 /\ faults < MaxFaults /\ faults' = faults + 1
      /\ slots' = slots /\ writer' = writer /\ reader' = writer /\ full' = FALSE
      /\ lost' = lost \cup Ids(HalRecords)
      /\ UNCHANGED <<event, app, queued, running, copied, ports, raised>>
  BY DEF OutOfMemory
<1>2. RingTyped(slots', writer', reader', full') /\ HalRecords' = <<>>
  BY <1>1, RecordsDropped DEF TypesInv
<1>3. HalRecords' \in Seq(Record)
  BY <1>2
<1>4. faults' \in 0..MaxFaults /\ 0 \in 0..QueueSize - 1
  BY <1>1, Parameters DEF TypesInv, TypeOK
<1>5. lost' \subseteq 1..MaxRaised
  BY <1>1, IdsTyped DEF TypesInv, TypeOK
<1>6. TypeOK'
  BY <1>1, <1>2, <1>4, <1>5 DEF TypesInv, TypeOK, RingTyped, Slot, ports
<1>7. QED
  BY <1>1, <1>3, <1>6 DEF TypesInv, Copying

(* Dispose clears the ring of the records of the port.                     *)
LEMMA TypesDispose ==
  ASSUME TypesInv, NEW p \in Port, Dispose(p)
  PROVE  TypesInv'
<1>1. /\ UNCHANGED <<app, queued, running, transfer, raised, faults, event, disabled, delegates>>
      /\ pc' = "dispose" /\ state' = [state EXCEPT ![p] = "disposing"]
      /\ RemoveFromHALQueue(p)
  BY DEF Dispose, Idle
<1>2. /\ RingTyped(slots', writer', reader', full') /\ HalRecords' \in Seq(Record)
      /\ lost' = lost \cup (Ids(HalRecords) \ Ids(HalRecords'))
  BY <1>1, RecordsRemoved DEF TypesInv
<1>3. lost' \subseteq 1..MaxRaised
  BY <1>2, IdsTyped DEF TypesInv, TypeOK
<1>4. TypeOK'
  BY <1>1, <1>2, <1>3 DEF TypesInv, TypeOK, RingTyped, Slot, transfer
<1>5. QED
  BY <1>1, <1>2, <1>4 DEF TypesInv, Copying

(* The steps that dispatch: what they draw from the queue.                 *)
LEMMA FinishDraws ==
  ASSUME TypesInv, Finish
  PROVE  /\ Drawn(app, NoRecord, app', running')
         /\ queued' = Len(app') /\ lost' \subseteq 1..MaxRaised
         /\ lost' = lost \cup (Ids(app) \ (Ids(app') \cup {running'.id}))
         /\ running # NoRecord
         /\ UNCHANGED <<hal, event, pc, transfer, ports, raised, faults>>
<1> DEFINE d == Spawned(app, NoRecord, {})
<1>1. /\ Dispatch(d) /\ running # NoRecord
      /\ UNCHANGED <<hal, event, pc, transfer, ports, raised, faults>>
  BY DEF Finish
<1>2. Drawn(app, NoRecord, d.app, d.running)
  BY SpawnedDraws DEF TypesInv, TypeOK
<1> HIDE DEF d
<1>3. Drawn(app, NoRecord, app', running') /\ queued' = Len(app') /\ lost' \subseteq 1..MaxRaised
  BY <1>1, <1>2, TypesDispatch
<1>4. QED
  BY <1>1, <1>3 DEF Dispatch

(* The dispatcher draws for the thread that it has.                        *)
LEMMA SpawnDraws ==
  ASSUME TypesInv, SpawnDispatcher
  PROVE  /\ Drawn(app, running, app', running')
         /\ queued' = Len(app') /\ lost' \subseteq 1..MaxRaised
         /\ lost' = lost \cup (Ids(app) \ (Ids(app') \cup {running'.id}))
         /\ pc' = "idle"
         /\ UNCHANGED <<hal, event, transfer, ports, raised, faults>>
<1> DEFINE d == Spawned(app, running, {})
<1>1. /\ Dispatch(d) /\ pc' = "idle"
      /\ UNCHANGED <<hal, event, transfer, ports, raised, faults>>
  BY DEF SpawnDispatcher
<1>2. Drawn(app, running, d.app, d.running) /\ running \in Record \cup {NoRecord}
  BY SpawnedDraws DEF TypesInv, TypeOK
<1> HIDE DEF d
<1>3. Drawn(app, running, app', running') /\ queued' = Len(app') /\ lost' \subseteq 1..MaxRaised
  BY <1>1, <1>2, TypesDispatch
<1>4. QED
  BY <1>1, <1>3 DEF Dispatch

(* A release that removes nothing leaves the queue as it is; of a thread   *)
(* that has a record no record of the port is left.                        *)
LEMMA ReleaseDraws ==
  ASSUME TypesInv, NEW p \in Port, Release(p)
  PROVE  /\ state[p] = "disposed" /\ state' = [state EXCEPT ![p] = "released"]
         /\ UNCHANGED <<hal, event, pc, transfer, disabled, delegates, raised, faults>>
         /\ Drawn(app, running, app', running')
         /\ queued' = Len(app') /\ lost' \subseteq 1..MaxRaised
         /\ \/ app' = app /\ running' = running /\ lost' = lost
            \/ lost' = lost \cup (Ids(app) \ (Ids(app') \cup {running'.id}))
         /\ ~CollectWhileWaiting => \A r \in Nodes(app') : r.port # p
<1> DEFINE found == {i \in 1..Len(app) : app[i].port = p}
           first == Min(found)
           b == RemoveAt(app, first)
           d == Spawned(b, running, {p})
           taken == Len(app) - 1 - Len(d.app)
           others(s) == Keep(s, {i \in 1..Len(s) : s[i].port # p})
           d2 == IF taken >= first THEN d ELSE [d EXCEPT !.app = others(@)]
<1>1. /\ state[p] = "disposed" /\ state' = [state EXCEPT ![p] = "released"]
      /\ UNCHANGED <<hal, event, pc, transfer, disabled, delegates, raised, faults>>
      /\ found # {} /\ running = NoRecord => CollectWhileWaiting
      /\ IF found = {} THEN UNCHANGED <<app, queued, running, lost>> ELSE Dispatch(d2)
  BY DEF Release
<1>2. /\ app \in Seq(Record) /\ running \in Record \cup {NoRecord}
      /\ queued = Len(app) /\ lost \subseteq 1..MaxRaised
  BY DEF TypesInv, TypeOK
<1>3. found \in SUBSET (1..Len(app)) /\ found \in SUBSET Nat
      /\ \A i \in 1..Len(app) : i \notin found => app[i].port # p
  OBVIOUS
<1> HIDE DEF found
<1>4. CASE found = {}
  <2>1. app' = app /\ running' = running /\ lost' = lost /\ queued' = queued
    BY <1>1, <1>4
  <2>2. app = Keep(app, 1..Len(app)) /\ 1..Len(app) \in SUBSET (1..Len(app))
    BY <1>2, KeepAll
  <2>3. Drawn(app, running, app', running')
    BY <2>1, <2>2 DEF Drawn
  <2>4. \A r \in Nodes(app') : r.port # p
    BY <1>3, <1>4, <2>1 DEF Nodes
  <2>5. QED
    BY <1>1, <1>2, <2>1, <2>3, <2>4
<1>5. CASE found # {}
  <2>1. first \in 1..Len(app)
    BY <1>3, <1>5, LeastIs
  <2> HIDE DEF first
  <2>2. b = Keep(app, (1..Len(app)) \ {first}) /\ b \in Seq(Record) /\ Len(b) = Len(app) - 1
    BY <1>2, <2>1, KeepBut, RemoveProperties
  <2>3. Drawn(b, running, d.app, d.running)
    BY <2>2, SpawnedDraws
  <2>4. Drawn(app, running, d.app, d.running)
    <3> HIDE DEF b, d
    <3>1. (1..Len(app)) \ {first} \in SUBSET (1..Len(app))
      OBVIOUS
    <3>2. QED
      BY <1>2, <2>2, <2>3, <3>1, DrawnOfKept
  <2>5. d = [app |-> d.app, running |-> d.running]
    BY DEF Spawned
  <2>6. running # NoRecord => d.app = b /\ d.running = running
    BY DEF Spawned
  <2> DEFINE Q == {i \in 1..Len(d.app) : d.app[i].port # p}
  <2>7. Q \in SUBSET (1..Len(d.app)) /\ others(d.app) = Keep(d.app, Q)
    OBVIOUS
  <2>8. d.app \in Seq(Record)
    BY <1>2, <2>4, DrawnTyped
  <2>9. CASE taken >= first
    <3>1. d2 = d
      BY <2>9
    <3>2. running = NoRecord
      <4>1. SUFFICES ASSUME running # NoRecord PROVE FALSE
        OBVIOUS
      <4>2. Len(d.app) = Len(app) - 1
        BY <2>2, <2>6, <4>1
      <4>3. Len(app) \in Nat /\ first \in 1..Len(app)
        BY <1>2, <2>1
      <4> HIDE DEF d
      <4>4. QED
        BY <2>9, <4>2, <4>3
    <3> HIDE DEF d, d2
    <3>3. Dispatch(d)
      BY <1>1, <1>5, <3>1
    <3>4. /\ Drawn(app, running, app', running') /\ queued' = Len(app')
          /\ lost' \subseteq 1..MaxRaised
      BY <1>2, <2>4, <3>3, TypesDispatch
    <3>5. lost' = lost \cup (Ids(app) \ (Ids(app') \cup {running'.id}))
      BY <3>3 DEF Dispatch
    <3>6. QED
      BY <1>1, <1>5, <3>2, <3>4, <3>5
  <2>10. CASE ~(taken >= first)
    <3>1. d2 = [app |-> Keep(d.app, Q), running |-> d.running]
      <4>1. d2 = [d EXCEPT !.app = others(d.app)]
        BY <2>10
      <4> HIDE DEF d, d2
      <4>2. QED
        BY <2>5, <2>7, <4>1
    <3>2. \A i \in Q : d.app[i].port # p
      OBVIOUS
    <3> HIDE DEF d, Q, d2
    <3>3. d2.app = Keep(d.app, Q) /\ d2.running = d.running
      BY <3>1
    <3>4. Drawn(app, running, d2.app, d2.running)
      BY <1>2, <2>4, <2>7, <3>3, DrawnThenKept
    <3>5. Dispatch(d2)
      BY <1>1, <1>5
    <3>6. /\ Drawn(app, running, app', running') /\ queued' = Len(app')
          /\ lost' \subseteq 1..MaxRaised
      BY <1>2, <3>4, <3>5, TypesDispatch
    <3>7. /\ lost' = lost \cup (Ids(app) \ (Ids(app') \cup {running'.id}))
          /\ app' = Keep(d.app, Q)
      BY <3>3, <3>5 DEF Dispatch
    <3>8. \A r \in Nodes(app') : r.port # p
      <4>1. Nodes(app') = {d.app[i] : i \in Q}
        BY <2>7, <2>8, <3>7, KeepNodes
      <4>2. QED
        BY <3>2, <4>1
    <3>9. QED
      BY <1>1, <3>6, <3>7, <3>8
  <2>11. QED
    BY <2>9, <2>10
<1>6. QED
  BY <1>4, <1>5
----------------------------------------------------------------------------
(* The steps that draw records from the application queue.                 *)
LEMMA TypesDispatching ==
  ASSUME TypesInv, Finish \/ SpawnDispatcher \/ \E p \in Port : Release(p)
  PROVE  TypesInv'
<1>1. /\ UNCHANGED <<hal, event, transfer, raised, faults>>
      /\ pc' \in {pc, "idle"}
      /\ state' \in [Port -> {"open", "disposing", "disposed", "released"}]
      /\ disabled' \subseteq Port /\ delegates' \subseteq Port
      /\ queued' = Len(app') /\ lost' \subseteq 1..MaxRaised
      /\ \E now \in Record \cup {NoRecord} : Drawn(app, now, app', running')
  <2>1. /\ running \in Record \cup {NoRecord}
        /\ state \in [Port -> {"open", "disposing", "disposed", "released"}]
        /\ disabled \subseteq Port /\ delegates \subseteq Port
    BY DEF TypesInv, TypeOK
  <2>2. CASE Finish
    <3>1. /\ Drawn(app, NoRecord, app', running') /\ NoRecord \in Record \cup {NoRecord}
          /\ queued' = Len(app') /\ lost' \subseteq 1..MaxRaised
          /\ UNCHANGED <<hal, event, pc, transfer, ports, raised, faults>>
      BY <2>2, FinishDraws
    <3>2. QED
      BY <2>1, <3>1 DEF ports
  <2>3. CASE SpawnDispatcher
    <3>1. /\ Drawn(app, running, app', running')
          /\ queued' = Len(app') /\ lost' \subseteq 1..MaxRaised /\ pc' = "idle"
          /\ UNCHANGED <<hal, event, transfer, ports, raised, faults>>
      BY <2>3, SpawnDraws
    <3>2. QED
      BY <2>1, <3>1 DEF ports
  <2>4. ASSUME NEW p \in Port, Release(p)
        PROVE  /\ UNCHANGED <<hal, event, transfer, raised, faults>>
               /\ pc' \in {pc, "idle"}
               /\ state' \in [Port -> {"open", "disposing", "disposed", "released"}]
               /\ disabled' \subseteq Port /\ delegates' \subseteq Port
               /\ queued' = Len(app') /\ lost' \subseteq 1..MaxRaised
               /\ \E now \in Record \cup {NoRecord} : Drawn(app, now, app', running')
    <3>1. /\ state' = [state EXCEPT ![p] = "released"]
          /\ UNCHANGED <<hal, event, pc, transfer, disabled, delegates, raised, faults>>
          /\ Drawn(app, running, app', running')
          /\ queued' = Len(app') /\ lost' \subseteq 1..MaxRaised
      BY <2>4, ReleaseDraws
    <3>2. QED
      BY <2>1, <3>1
  <2>5. QED
    BY <2>2, <2>3, <2>4
<1>2. HalRecords' = HalRecords
  BY <1>1, SameRecords
<1>3. PICK now \in Record \cup {NoRecord} : Drawn(app, now, app', running')
  BY <1>1
<1>4. app' \in Seq(Record) /\ running' \in Record \cup {NoRecord}
  BY <1>3, DrawnTyped DEF TypesInv, TypeOK
<1>5. QED
  BY <1>1, <1>2, <1>4 DEF TypesInv, TypeOK, Copying, hal, transfer

(* Every step.                                                             *)
LEMMA TypesStep == TypesInv /\ [Next]_vars => TypesInv'
<1> SUFFICES ASSUME TypesInv, [Next]_vars PROVE TypesInv'
  OBVIOUS
<1>1. CASE UNCHANGED vars
  <2>1. HalRecords' = HalRecords
    BY <1>1, SameRecords DEF vars
  <2>2. QED
    BY <1>1, <2>1 DEF TypesInv, TypeOK, Copying, vars, hal, transfer, ports
<1>2. CASE \E p \in Port : IsrProcedure(p)
  BY <1>2, TypesIsr
<1>3. CASE \/ ProcessInterrupts \/ Allocate
           \/ \E p \in Port : \/ Disposed(p) \/ EnableInterrupt(p)
                              \/ SetThreadSpawn(p) \/ DisableInterrupt(p)
  BY <1>3, TypesLocal
<1>4. CASE Peek
  BY <1>4, TypesPeek
<1>5. CASE CopyData
  BY <1>5, TypesCopyData
<1>6. CASE CopyContext
  BY <1>6, TypesCopyContext
<1>7. CASE PopTransferred
  BY <1>7, TypesPop
<1>8. CASE OutOfMemory
  BY <1>8, TypesOutOfMemory
<1>9. CASE \E p \in Port : Dispose(p)
  BY <1>9, TypesDispose
<1>10. CASE Finish \/ SpawnDispatcher \/ \E p \in Port : Release(p)
  BY <1>10, TypesDispatching
<1>11. QED
  BY <1>1, <1>2, <1>3, <1>4, <1>5, <1>6, <1>7, <1>8, <1>9, <1>10
     DEF Next, Transfer, Managed

(* The indices stay in the ring, the counter m_queuedInterrupts is the     *)
(* length of the application queue, and only records of interrupts that    *)
(* were raised are moved and dispatched.                                   *)
THEOREM TypeCorrect == Spec => []TypeOK
<1>1. Init => TypesInv
  BY TypesInit
<1>2. TypesInv /\ [Next]_vars => TypesInv'
  BY TypesStep
<1>3. TypesInv => TypeOK
  BY DEF TypesInv
<1>4. QED
  BY <1>1, <1>2, <1>3, PTL DEF Spec

(* The same, with the invariant that TypeCorrect needs.                    *)
LEMMA TypesAlways == Spec => []TypesInv
BY TypesInit, TypesStep, PTL DEF Spec
----------------------------------------------------------------------------
(* Interrupts of a port that is disposed, and releases while the thread is *)
(* idle, excluded: the records that wait belong to ports that live.        *)
LiveInv ==
  /\ \A r \in Nodes(HalRecords) : state[r.port] = "open"
  /\ Copying => state[slots[rec].port] = "open"
  /\ \A r \in Nodes(app) : state[r.port] # "released"

(* What is in a list that has one node more at its end ...                 *)
LEMMA NodesAppended ==
  ASSUME NEW T, NEW s \in Seq(T), NEW e \in T
  PROVE  Nodes(Append(s, e)) = Nodes(s) \cup {e}
<1>1. /\ Append(s, e) \in Seq(T) /\ Len(Append(s, e)) = Len(s) + 1
      /\ \A i \in 1..Len(s) : Append(s, e)[i] = s[i]
      /\ Append(s, e)[Len(s) + 1] = e
  BY AppendProperties
<1>2. Len(s) \in Nat
  OBVIOUS
<1> DEFINE n == Len(s)
           t == Append(s, e)
<1> HIDE DEF n, t
<1>3. Nodes(t) = {t[i] : i \in 1..n + 1} /\ Nodes(s) = {s[i] : i \in 1..n}
  BY <1>1 DEF Nodes, n, t
<1>4. \A i \in 1..n + 1 : i = n + 1 \/ i \in 1..n
  BY <1>2 DEF n
<1>5. n + 1 \in 1..n + 1 /\ \A i \in 1..n : i \in 1..n + 1
  BY <1>2 DEF n
<1>6. QED
  BY <1>1, <1>3, <1>4, <1>5 DEF n, t

(* ... or one less at its front.                                           *)
LEMMA NodesOfTail ==
  ASSUME NEW T, NEW s \in Seq(T), s # <<>>
  PROVE  Nodes(Tail(s)) \subseteq Nodes(s) /\ s[1] \in Nodes(s)
<1>1. /\ Tail(s) \in Seq(T) /\ Len(Tail(s)) = Len(s) - 1
      /\ \A i \in 1..Len(s) - 1 : Tail(s)[i] = s[i + 1]
  BY HeadTailProperties
<1>2. Len(s) \in Nat /\ Len(s) # 0
  OBVIOUS
<1>3. /\ 1 \in 1..Len(s) /\ \A i \in 1..Len(s) - 1 : i + 1 \in 1..Len(s)
  BY <1>2
<1>4. QED
  BY <1>1, <1>3 DEF Nodes
----------------------------------------------------------------------------
(* At the start there is no record.                                        *)
LEMMA LiveInit == Init => LiveInv
<1> SUFFICES ASSUME Init PROVE LiveInv
  OBVIOUS
<1>1. TypesInv
  BY TypesInit
<1>2. NumberOfElements = 0
  <2>1. RingTyped(slots, writer, reader, full)
    BY <1>1, HalTyped DEF TypesInv
  <2>2. full \in BOOLEAN /\ ~full /\ reader = writer
    BY DEF Init
  <2>3. RingSeq(slots, writer, writer, full) = <<>>
    BY ONLY <2>1, <2>2, RingEmptied
  <2>4. HalRecords = <<>>
    BY <2>2, <2>3, RingIs
  <2>5. QED
    BY <1>1, <2>4, HalTyped DEF TypesInv
<1>3. Nodes(HalRecords) = {} /\ Nodes(app) = {}
  <2>1. Len(HalRecords) = 0 /\ Len(app) = 0
    BY <1>1, <1>2, HalTyped DEF Init, TypesInv
  <2>2. QED
    BY <2>1 DEF Nodes
<1>4. QED
  BY <1>3 DEF Init, LiveInv, Copying

(* Only a port that is open interrupts.                                    *)
LEMMA LiveIsr ==
  ASSUME TypesInv, LiveInv, ~InterruptWhileDisposing, NEW p \in Port, IsrProcedure(p)
  PROVE  LiveInv'
<1> DEFINE e == [id |-> raised', port |-> p]
<1>1. /\ raised < MaxRaised /\ raised' = raised + 1 /\ SaveToHALQueue(e)
      /\ state[p] = "open"
      /\ UNCHANGED <<app, queued, running, pc, transfer, state, delegates, faults>>
  BY DEF IsrProcedure, Connected
<1>2. raised \in 0..MaxRaised /\ MaxRaised \in Nat /\ TypeOK /\ HalRecords \in Seq(Record)
  BY Parameters DEF TypesInv, TypeOK
<1>3. e \in Record /\ e.port = p
  <2>1. raised' \in 1..MaxRaised
    BY <1>1, <1>2
  <2>2. QED
    BY <2>1, RecordIs
<1> HIDE DEF e
<1>4. /\ HalRecords' = IF full THEN Append(Tail(HalRecords), e) ELSE Append(HalRecords, e)
      /\ full => HalRecords # <<>>
  BY <1>1, <1>2, <1>3, RecordSaved
<1>5. Nodes(HalRecords') \subseteq Nodes(HalRecords) \cup {e}
  <2> DEFINE h == HalRecords
             h2 == HalRecords'
  <2>1. h \in Seq(Record) /\ h2 = (IF full THEN Append(Tail(h), e) ELSE Append(h, e))
        /\ (full => h # <<>>)
    BY <1>2, <1>4
  <2> HIDE DEF h, h2
  <2>2. CASE full
    <3>1. Tail(h) \in Seq(Record) /\ Nodes(Tail(h)) \subseteq Nodes(h)
      BY <2>1, <2>2, HeadTailProperties, NodesOfTail
    <3> DEFINE b == Tail(h)
    <3>2. b \in Seq(Record) /\ Nodes(b) \subseteq Nodes(h) /\ h2 = Append(b, e)
      BY <2>1, <2>2, <3>1
    <3> HIDE DEF b
    <3>3. Nodes(Append(b, e)) = Nodes(b) \cup {e}
      BY <1>3, <3>2, NodesAppended
    <3>4. Nodes(h2) \subseteq Nodes(h) \cup {e}
      BY <3>2, <3>3
    <3>5. QED
      BY <3>4 DEF h, h2
  <2>3. CASE ~full
    <3>1. Nodes(Append(h, e)) = Nodes(h) \cup {e}
      BY <1>3, <2>1, NodesAppended
    <3>2. QED
      BY <2>1, <2>3, <3>1 DEF h, h2
  <2>4. QED
    BY <2>2, <2>3
<1>6. \A r \in Nodes(HalRecords') : state'[r.port] = "open"
  BY <1>1, <1>3, <1>5 DEF LiveInv
<1>7. Copying' => state'[slots'[rec'].port] = "open"
  <2>1. Copying' => state[slots[rec].port] = "open"
    BY <1>1 DEF LiveInv, Copying
  <2>2. /\ rec' = rec /\ rec \in 0..QueueSize - 1 /\ writer \in 0..QueueSize - 1
        /\ slots \in [0..QueueSize - 1 -> Record \cup {NoRecord}]
        /\ slots' = [slots EXCEPT ![writer] = e] /\ state' = state
    BY <1>1, <1>2 DEF TypeOK, transfer, SaveToHALQueue
  <2>3. slots'[rec] = e \/ slots'[rec] = slots[rec]
    BY <2>2
  <2>4. QED
    BY <1>1, <1>3, <2>1, <2>2, <2>3
<1>8. QED
  BY <1>1, <1>6, <1>7 DEF LiveInv

(* A port that is opened, closed or disposed is not released by that.      *)
LEMMA LiveLocal ==
  ASSUME TypesInv, LiveInv,
         \/ ProcessInterrupts \/ Allocate \/ CopyData
         \/ \E p \in Port : \/ Disposed(p) \/ EnableInterrupt(p)
                            \/ SetThreadSpawn(p) \/ DisableInterrupt(p)
  PROVE  LiveInv'
<1>1. /\ UNCHANGED <<hal, app, rec>> /\ (Copying' => Copying)
      /\ \A p \in Port : /\ state[p] = "open" => state'[p] = "open"
                         /\ state[p] # "released" => state'[p] # "released"
  <2>1. state \in [Port -> {"open", "disposing", "disposed", "released"}]
    BY DEF TypesInv, TypeOK
  <2>2. CASE ProcessInterrupts \/ Allocate \/ CopyData
    BY <2>2 DEF ProcessInterrupts, Allocate, CopyData, Copying, ports, transfer
  <2>3. CASE \E p \in Port : Disposed(p)
    BY <2>1, <2>3 DEF Disposed, transfer, Copying
  <2>4. CASE \E p \in Port : EnableInterrupt(p) \/ SetThreadSpawn(p) \/ DisableInterrupt(p)
    BY <2>4 DEF EnableInterrupt, SetThreadSpawn, DisableInterrupt, Idle, transfer, Copying
  <2>5. QED
    BY <2>2, <2>3, <2>4
<1>2. HalRecords' = HalRecords
  BY <1>1, SameRecords
<1>3. /\ \A r \in Nodes(HalRecords) : r.port \in Port
      /\ \A r \in Nodes(app) : r.port \in Port
      /\ Copying => slots[rec].port \in Port
  <2>1. app \in Seq(Record) /\ HalRecords \in Seq(Record) /\ (Copying => slots[rec] \in Record)
    BY DEF TypesInv, TypeOK
  <2>2. \A s \in Seq(Record) : \A i \in 1..Len(s) : s[i].port \in Port
    BY ElementOfSeq, RecordIs
  <2>3. QED
    BY <2>1, <2>2, RecordIs DEF Nodes
<1>4. QED
  BY <1>1, <1>2, <1>3 DEF LiveInv, hal

(* The record at hand is one of the ring.                                  *)
LEMMA LivePeek ==
  ASSUME TypesInv, LiveInv, Peek
  PROVE  LiveInv'
<1>1. /\ UNCHANGED <<hal, app, state>>
      /\ pc' = "allocate" => HalRecords # <<>> /\ rec' = reader
      /\ pc' \in {"allocate", "idle", "spawn"}
  BY DEF Peek, ports
<1>2. HalRecords' = HalRecords
  BY <1>1, SameRecords
<1>3. HalRecords # <<>> => state[slots[reader].port] = "open"
  <2>1. HalRecords # <<>> => HalRecords[1] \in Nodes(HalRecords)
    BY NodesOfTail DEF TypesInv
  <2>2. QED
    BY <2>1, HalTyped DEF LiveInv, TypesInv
<1>4. QED
  BY <1>1, <1>2, <1>3 DEF LiveInv, Copying, hal

(* The record that is appended is of a port that is open.                  *)
LEMMA LiveCopyContext ==
  ASSUME TypesInv, LiveInv, CopyContext
  PROVE  LiveInv'
<1> DEFINE e == [id |-> copied, port |-> slots[rec].port]
<1>1. /\ pc = "copy_context" /\ pc' = "pop" /\ app' = Append(app, e)
      /\ UNCHANGED <<hal, transfer, state>>
  BY DEF CopyContext, ports
<1>2. HalRecords' = HalRecords
  BY <1>1, SameRecords
<1>3. slots[rec] \in Record /\ copied \in 1..MaxRaised /\ app \in Seq(Record)
  BY <1>1, Parameters DEF TypesInv, TypeOK, Copying
<1>4. e \in Record /\ e.port = slots[rec].port
  BY <1>3, RecordIs
<1> HIDE DEF e
<1>5. Nodes(app') = Nodes(app) \cup {e}
  BY <1>1, <1>3, <1>4, NodesAppended
<1>6. state[e.port] # "released"
  BY <1>1, <1>4 DEF LiveInv, Copying
<1>7. QED
  BY <1>1, <1>2, <1>5, <1>6 DEF LiveInv, Copying, hal, transfer

(* The pop leaves records of open ports.                                   *)
LEMMA LivePop ==
  ASSUME TypesInv, LiveInv, PopTransferred
  PROVE  LiveInv'
<1>1. pc' = "peek" /\ UNCHANGED <<slots, writer, app, state>>
  BY DEF PopTransferred, ports
<1>2. Nodes(HalRecords') \subseteq Nodes(HalRecords)
  <2>1. CASE HalRecords = <<>>
    <3>1. UNCHANGED hal
      BY <1>1, <2>1 DEF PopTransferred, hal
    <3>2. QED
      BY <3>1, SameRecords
  <2>2. CASE HalRecords # <<>>
    <3>1. slots' = slots /\ writer' = writer /\ reader' = After(reader) /\ full' = FALSE
      BY <1>1, <2>2 DEF PopTransferred
    <3>2. HalRecords' = Tail(HalRecords)
      BY <2>2, <3>1, RecordPopped DEF TypesInv
    <3>3. QED
      BY <2>2, <3>2, NodesOfTail DEF TypesInv
  <2>3. QED
    BY <2>1, <2>2
<1>3. QED
  BY <1>1, <1>2 DEF LiveInv, Copying

(* The failing allocation leaves no record in the ring.                    *)
LEMMA LiveOutOfMemory ==
  ASSUME TypesInv, LiveInv, OutOfMemory
  PROVE  LiveInv'
<1>1. /\ pc' = "idle" /\ UNCHANGED <<app, state>>
      /\ slots' = slots /\ writer' = writer /\ reader' = writer /\ full' = FALSE
  BY DEF OutOfMemory, ports
<1>2. HalRecords' = <<>>
  BY <1>1, RecordsDropped DEF TypesInv
<1>3. Nodes(HalRecords') = {}
  <2>1. Len(HalRecords') = 0
    BY <1>2
  <2>2. QED
    BY <2>1 DEF Nodes
<1>4. QED
  BY <1>1, <1>3 DEF LiveInv, Copying

(* Dispose clears the ring before the port is no longer open.              *)
LEMMA LiveDispose ==
  ASSUME TypesInv, LiveInv, NEW p \in Port, Dispose(p)
  PROVE  LiveInv'
<1>1. /\ pc' = "dispose" /\ app' = app /\ state[p] = "open"
      /\ state' = [state EXCEPT ![p] = "disposing"] /\ RemoveFromHALQueue(p)
  BY DEF Dispose, Idle
<1>2. HalRecords' = Keep(HalRecords, Others(HalRecords, p))
  BY <1>1, RecordsRemoved DEF TypesInv
<1> DEFINE h == HalRecords
           P == Others(h, p)
<1>3. P \in SUBSET (1..Len(h)) /\ (\A i \in P : h[i].port # p) /\ h \in Seq(Record)
  BY DEF Others, TypesInv
<1> HIDE DEF h, P
<1>4. Nodes(Keep(h, P)) = {h[i] : i \in P}
  BY <1>3, KeepNodes
<1>5. \A r \in Nodes(HalRecords') : r.port # p /\ r \in Nodes(h)
  BY <1>2, <1>3, <1>4 DEF Nodes, h, P
<1>6. \A r \in Nodes(app) : r.port \in Port
  <2>1. app \in Seq(Record)
    BY DEF TypesInv, TypeOK
  <2>2. \A i \in 1..Len(app) : app[i].port \in Port
    BY <2>1, ElementOfSeq, RecordIs
  <2>3. QED
    BY <2>2 DEF Nodes
<1>7. state \in [Port -> {"open", "disposing", "disposed", "released"}]
  BY DEF TypesInv, TypeOK
<1>8. \A r \in Nodes(HalRecords') : state'[r.port] = "open"
  BY <1>1, <1>5, <1>7 DEF LiveInv, h
<1>9. \A r \in Nodes(app') : state'[r.port] # "released"
  BY <1>1, <1>6, <1>7 DEF LiveInv
<1>10. QED
  BY <1>1, <1>8, <1>9 DEF LiveInv, Copying
----------------------------------------------------------------------------
(* What the dispatcher leaves was in the queue before.                     *)
LEMMA LiveDispatching ==
  ASSUME TypesInv, LiveInv, Finish \/ SpawnDispatcher
  PROVE  LiveInv'
<1>1. /\ UNCHANGED <<hal, transfer, state>> /\ (Copying' => Copying)
      /\ \E now \in Record \cup {NoRecord} : Drawn(app, now, app', running')
  <2>1. CASE Finish
    BY <2>1, FinishDraws DEF ports, Copying
  <2>2. CASE SpawnDispatcher
    BY <2>2, SpawnDraws DEF ports, Copying, TypesInv, TypeOK
  <2>3. QED
    BY <2>1, <2>2
<1>2. PICK now \in Record \cup {NoRecord} : Drawn(app, now, app', running')
  BY <1>1
<1>3. Nodes(app') \subseteq Nodes(app)
  BY <1>2, DrawnTyped DEF TypesInv, TypeOK
<1>4. HalRecords' = HalRecords
  BY <1>1, SameRecords
<1>5. QED
  BY <1>1, <1>3, <1>4 DEF LiveInv, hal, transfer

(* RecoverFromGC leaves no record of the port: the thread having a record, *)
(* nothing is dispatched under the walk.                                   *)
LEMMA LiveRelease ==
  ASSUME TypesInv, LiveInv, ~CollectWhileWaiting, NEW p \in Port, Release(p)
  PROVE  LiveInv'
<1>1. /\ state[p] = "disposed" /\ state' = [state EXCEPT ![p] = "released"]
      /\ UNCHANGED <<hal, pc, transfer>>
      /\ Drawn(app, running, app', running')
      /\ \A r \in Nodes(app') : r.port # p
  BY ReleaseDraws
<1>2. Nodes(app') \subseteq Nodes(app)
  BY <1>1, DrawnTyped DEF TypesInv, TypeOK
<1>3. HalRecords' = HalRecords
  BY <1>1, SameRecords
<1>4. state \in [Port -> {"open", "disposing", "disposed", "released"}]
  BY DEF TypesInv, TypeOK
<1>5. \A r \in Nodes(app) : r.port \in Port
  <2>1. app \in Seq(Record)
    BY DEF TypesInv, TypeOK
  <2>2. \A i \in 1..Len(app) : app[i].port \in Port
    BY <2>1, ElementOfSeq, RecordIs
  <2>3. QED
    BY <2>2 DEF Nodes
<1>6. \A q \in Port : q # p => state'[q] = state[q]
  BY <1>1, <1>4
<1>7. \A r \in Nodes(HalRecords) : state'[r.port] = "open"
  <2>1. \A r \in Nodes(HalRecords) : r.port \in Port
    <3>1. HalRecords \in Seq(Record)
      BY DEF TypesInv
    <3>2. \A i \in 1..Len(HalRecords) : HalRecords[i].port \in Port
      BY <3>1, ElementOfSeq, RecordIs
    <3>3. QED
      BY <3>2 DEF Nodes
  <2>2. QED
    BY <1>1, <1>6, <2>1 DEF LiveInv
<1>8. Copying => state'[slots[rec].port] = "open"
  BY <1>1, <1>6, RecordIs DEF LiveInv, TypesInv
<1>9. \A r \in Nodes(app') : state'[r.port] # "released"
  BY <1>1, <1>2, <1>5, <1>6 DEF LiveInv
<1>10. QED
  BY <1>1, <1>3, <1>7, <1>8, <1>9 DEF LiveInv, Copying, hal, transfer

(* Every step.                                                             *)
LEMMA LiveStep ==
  ASSUME ~InterruptWhileDisposing, ~CollectWhileWaiting, TypesInv, LiveInv, [Next]_vars
  PROVE  LiveInv'
<1>1. CASE UNCHANGED vars
  <2>1. HalRecords' = HalRecords
    BY <1>1, SameRecords DEF vars
  <2>2. QED
    BY <1>1, <2>1 DEF LiveInv, Copying, vars, hal, transfer, ports
<1>2. CASE \E p \in Port : IsrProcedure(p)
  BY <1>2, LiveIsr
<1>3. CASE \/ ProcessInterrupts \/ Allocate \/ CopyData
           \/ \E p \in Port : \/ Disposed(p) \/ EnableInterrupt(p)
                              \/ SetThreadSpawn(p) \/ DisableInterrupt(p)
  BY <1>3, LiveLocal
<1>4. CASE Peek
  BY <1>4, LivePeek
<1>5. CASE CopyContext
  BY <1>5, LiveCopyContext
<1>6. CASE PopTransferred
  BY <1>6, LivePop
<1>7. CASE OutOfMemory
  BY <1>7, LiveOutOfMemory
<1>8. CASE \E p \in Port : Dispose(p)
  BY <1>8, LiveDispose
<1>9. CASE Finish \/ SpawnDispatcher
  BY <1>9, LiveDispatching
<1>10. CASE \E p \in Port : Release(p)
  BY <1>10, LiveRelease
<1>11. QED
  BY <1>1, <1>2, <1>3, <1>4, <1>5, <1>6, <1>7, <1>8, <1>9, <1>10
     DEF Next, Transfer, Managed

(* No record that waits for the dispatcher points to a port that was       *)
(* released: Dispose clears the HAL queue of it before the pin stops, and  *)
(* RecoverFromGC the application queue.                                    *)
THEOREM RecordsLive ==
  ASSUME ~InterruptWhileDisposing, ~CollectWhileWaiting
  PROVE  Spec => []LiveContexts
<1>1. TypesInv /\ LiveInv => LiveContexts
  <2>1. SUFFICES ASSUME TypesInv, LiveInv PROVE LiveContexts
    OBVIOUS
  <2>2. DOMAIN HalRecords = 1..Len(HalRecords) /\ DOMAIN app = 1..Len(app)
    BY DEF TypesInv, TypeOK
  <2>3. ToSet(HalRecords) = Nodes(HalRecords) /\ ToSet(app) = Nodes(app)
    BY <2>2 DEF ToSet, Nodes
  <2>4. QED
    BY <2>1, <2>3 DEF LiveInv, LiveContexts
<1>2. TypesInv /\ LiveInv /\ [Next]_vars => LiveInv'
  BY LiveStep
<1>3. Init => LiveInv
  BY LiveInit
<1>4. Spec => []TypesInv
  BY TypesAlways
<1>5. QED
  BY <1>1, <1>2, <1>3, <1>4, PTL DEF Spec
----------------------------------------------------------------------------
(* The queue not getting full while a record is copied, the record that    *)
(* ProcessInterrupts has at hand stays the first of the HAL queue.         *)
AtHandInv ==
  /\ Copying => HalRecords # <<>> /\ rec = reader
  /\ pc = "copy_context" => copied = HalRecords[1].id

(* At the start none is at hand.                                           *)
LEMMA AtHandInit == Init => AtHandInv
BY DEF Init, AtHandInv, Copying

(* The service routine, which does not overwrite the record at hand.       *)
LEMMA AtHandIsr ==
  ASSUME TypesInv, AtHandInv, ~OverflowWhileCopying, NEW p \in Port, IsrProcedure(p)
  PROVE  AtHandInv'
<1> DEFINE e == [id |-> raised', port |-> p]
<1>1. /\ raised < MaxRaised /\ raised' = raised + 1 /\ SaveToHALQueue(e)
      /\ (Copying => ~full) /\ UNCHANGED <<pc, transfer>>
  BY DEF IsrProcedure
<1>2. raised \in 0..MaxRaised /\ MaxRaised \in Nat /\ TypeOK /\ HalRecords \in Seq(Record)
  BY Parameters DEF TypesInv, TypeOK
<1>3. e \in Record
  <2>1. raised' \in 1..MaxRaised
    BY <1>1, <1>2
  <2>2. QED
    BY <2>1, RecordIs
<1> HIDE DEF e
<1>4. HalRecords' = IF full THEN Append(Tail(HalRecords), e) ELSE Append(HalRecords, e)
  BY <1>1, <1>2, <1>3, RecordSaved
<1>5. reader' = IF full THEN After(reader) ELSE reader
  BY <1>1 DEF SaveToHALQueue
<1>6. ASSUME Copying' PROVE HalRecords' # <<>> /\ rec' = reader' /\ HalRecords'[1] = HalRecords[1]
  <2>1. Copying /\ ~full /\ HalRecords # <<>> /\ rec = reader
    BY <1>1, <1>6 DEF Copying, AtHandInv
  <2> DEFINE h == HalRecords
             h2 == HalRecords'
  <2>2. h \in Seq(Record) /\ h # <<>> /\ h2 = Append(h, e)
    BY <1>2, <1>4, <2>1
  <2> HIDE DEF h, h2
  <2>3. h2 # <<>> /\ h2[1] = h[1]
    <3>1. 1 \in 1..Len(h)
      BY <2>2
    <3>2. Len(Append(h, e)) = Len(h) + 1 /\ Append(h, e)[1] = h[1]
      BY <1>3, <2>2, <3>1, AppendProperties
    <3>3. Len(h) + 1 # 0
      BY <2>2
    <3>4. QED
      BY <2>2, <3>2, <3>3
  <2>4. rec' = reader'
    BY <1>1, <1>5, <2>1 DEF transfer
  <2>5. QED
    BY <2>3, <2>4 DEF h, h2
<1>7. QED
  BY <1>1, <1>6 DEF AtHandInv, Copying, transfer

(* Every step.                                                             *)
LEMMA AtHandStep ==
  ASSUME ~OverflowWhileCopying, TypesInv, AtHandInv, [Next]_vars
  PROVE  AtHandInv'
<1>1. CASE UNCHANGED vars
  <2>1. HalRecords' = HalRecords
    BY <1>1, SameRecords DEF vars
  <2>2. QED
    BY <1>1, <2>1 DEF AtHandInv, Copying, vars, hal, transfer
<1>2. CASE \E p \in Port : IsrProcedure(p)
  BY <1>2, AtHandIsr
<1>3. CASE Peek
  <2>1. HalRecords' = HalRecords /\ reader' = reader
    BY <1>3, SameRecords DEF Peek, hal
  <2>2. QED
    BY <1>3, <2>1 DEF Peek, AtHandInv, Copying
<1>4. CASE CopyData
  <2>1. HalRecords' = HalRecords /\ reader' = reader
    BY <1>4, SameRecords DEF CopyData, hal
  <2>2. HalRecords # <<>> => HalRecords[1] = slots[reader]
    BY HalTyped DEF TypesInv
  <2>3. QED
    BY <1>4, <2>1, <2>2 DEF CopyData, AtHandInv, Copying
<1>5. CASE Allocate \/ CopyContext \/ \E p \in Port : Release(p)
  <2>1. UNCHANGED <<hal, rec>> /\ (Copying' => Copying) /\ pc' # "copy_context"
    BY <1>5 DEF Allocate, CopyContext, Release, transfer, Copying
  <2>2. HalRecords' = HalRecords
    BY <2>1, SameRecords
  <2>3. QED
    BY <2>1, <2>2 DEF AtHandInv, hal
<1>6. CASE \/ ProcessInterrupts \/ PopTransferred \/ OutOfMemory \/ SpawnDispatcher \/ Finish
           \/ \E p \in Port : \/ Disposed(p) \/ EnableInterrupt(p) \/ SetThreadSpawn(p)
                              \/ DisableInterrupt(p) \/ Dispose(p)
  <2>1. ~Copying' /\ pc' # "copy_context"
    BY <1>6 DEF ProcessInterrupts, PopTransferred, OutOfMemory, SpawnDispatcher, Finish,
                Disposed, EnableInterrupt, SetThreadSpawn, DisableInterrupt, Dispose,
                Idle, Copying
  <2>2. QED
    BY <2>1 DEF AtHandInv
<1>7. QED
  BY <1>1, <1>2, <1>3, <1>4, <1>5, <1>6 DEF Next, Transfer, Managed
----------------------------------------------------------------------------
(* The numbers of a queue of records.                                      *)
LEMMA NumbersTyped ==
  ASSUME NEW s \in Seq(Record)
  PROVE  /\ Numbers(s) \in Seq(Nat) /\ Len(Numbers(s)) = Len(s)
         /\ \A i \in 1..Len(s) : Numbers(s)[i] = s[i].id /\ s[i].id \in 1..MaxRaised
<1>1. DOMAIN s = 1..Len(s) /\ Len(s) \in Nat
  OBVIOUS
<1>2. \A i \in 1..Len(s) : s[i].id \in 1..MaxRaised
  BY ElementOfSeq, RecordIs
<1>3. \A i \in 1..Len(s) : s[i].id \in Nat
  BY <1>2, Parameters
<1>4. Numbers(s) = [i \in 1..Len(s) |-> s[i].id]
  BY <1>1 DEF Numbers
<1> DEFINE n == Len(s)
           t == [i \in 1..n |-> s[i].id]
<1>5. t \in [1..n -> Nat] /\ n \in Nat
  BY <1>1, <1>3
<1> HIDE DEF t, n
<1>6. t \in Seq(Nat) /\ Len(t) = n
  BY <1>5, SeqDef, LenProperties
<1>7. QED
  BY <1>2, <1>4, <1>6 DEF t, n

(* A record is appended, ...                                               *)
LEMMA NumbersAppended ==
  ASSUME NEW s \in Seq(Record), NEW e \in Record
  PROVE  Numbers(Append(s, e)) = Append(Numbers(s), e.id)
<1> DEFINE t == Append(s, e)
           a == Numbers(t)
           b == Append(Numbers(s), e.id)
           n == Len(s)
<1>1. /\ t \in Seq(Record) /\ Len(t) = n + 1 /\ n \in Nat
      /\ (\A i \in 1..n : t[i] = s[i]) /\ t[n + 1] = e
  BY AppendProperties
<1>2. e.id \in Nat
  BY RecordIs, Parameters
<1>3. /\ Numbers(s) \in Seq(Nat) /\ Len(Numbers(s)) = n
      /\ \A i \in 1..n : Numbers(s)[i] = s[i].id
  BY NumbersTyped
<1>4. /\ b \in Seq(Nat) /\ Len(b) = n + 1
      /\ (\A i \in 1..n : b[i] = Numbers(s)[i]) /\ b[n + 1] = e.id
  <2> DEFINE m == Numbers(s)
  <2> HIDE DEF m, n
  <2>1. m \in Seq(Nat) /\ Len(m) = n
    BY <1>3 DEF m
  <2>2. /\ Append(m, e.id) \in Seq(Nat) /\ Len(Append(m, e.id)) = n + 1
        /\ (\A i \in 1..n : Append(m, e.id)[i] = m[i]) /\ Append(m, e.id)[n + 1] = e.id
    BY <1>2, <2>1, AppendProperties
  <2>3. QED
    BY <2>2 DEF m
<1> HIDE DEF t, b
<1>5. /\ a \in Seq(Nat) /\ Len(a) = n + 1 /\ \A i \in 1..n + 1 : a[i] = t[i].id
  BY <1>1, NumbersTyped
<1> HIDE DEF a, n
<1>6. ASSUME NEW i \in 1..n + 1 PROVE a[i] = b[i]
  <2>1. CASE i = n + 1
    BY <1>1, <1>4, <1>5, <2>1
  <2>2. CASE i # n + 1
    <3>1. i \in 1..n
      BY <1>1, <2>2
    <3>2. QED
      BY <1>1, <1>3, <1>4, <1>5, <3>1
  <2>3. QED
    BY <2>1, <2>2
<1>7. a = b
  BY <1>4, <1>5, <1>6, SameSeq
<1>8. QED
  BY <1>7 DEF a, b, t

(* ... the first is taken ...                                              *)
LEMMA NumbersOfTail ==
  ASSUME NEW s \in Seq(Record), s # <<>>
  PROVE  Numbers(Tail(s)) = Tail(Numbers(s)) /\ Numbers(s) # <<>>
<1> DEFINE t == Tail(s)
           a == Numbers(t)
           m == Numbers(s)
           b == Tail(m)
           n == Len(s)
<1>1. /\ t \in Seq(Record) /\ Len(t) = n - 1 /\ n \in Nat \ {0}
      /\ \A i \in 1..n - 1 : t[i] = s[i + 1]
  BY HeadTailProperties
<1>2. /\ m \in Seq(Nat) /\ Len(m) = n
      /\ \A i \in 1..n : m[i] = s[i].id
  BY NumbersTyped
<1> HIDE DEF t, m, n
<1>3. m # <<>>
  BY <1>1, <1>2
<1>4. b \in Seq(Nat) /\ Len(b) = n - 1 /\ \A i \in 1..n - 1 : b[i] = m[i + 1]
  BY <1>2, <1>3, HeadTailProperties
<1>5. a \in Seq(Nat) /\ Len(a) = n - 1 /\ \A i \in 1..n - 1 : a[i] = t[i].id
  BY <1>1, NumbersTyped
<1> HIDE DEF a, b
<1>6. ASSUME NEW i \in 1..n - 1 PROVE a[i] = b[i]
  <2>1. i + 1 \in 1..n
    BY <1>1
  <2>2. QED
    BY <1>1, <1>2, <1>4, <1>5, <2>1
<1>7. a = b
  BY <1>4, <1>5, <1>6, SameSeq
<1>8. QED
  BY <1>3, <1>7 DEF a, b, t, m

(* ... or some are kept: so are their numbers.                             *)
LEMMA NumbersKept ==
  ASSUME NEW s \in Seq(Record), NEW P \in SUBSET (1..Len(s))
  PROVE  Numbers(Keep(s, P)) = Keep(Numbers(s), P)
<1> DEFINE t == Keep(s, P)
           a == Numbers(t)
           m == Numbers(s)
<1>1. t \in Seq(Record)
  BY KeepCounted
<1>2. PICK h : Counts(h, Len(t), P) /\ \A k \in 1..Len(t) : t[k] = s[h[k]]
  BY KeepCounted
<1>3. m \in Seq(Nat) /\ Len(m) = Len(s) /\ \A i \in 1..Len(s) : m[i] = s[i].id
  BY NumbersTyped
<1> HIDE DEF t, m
<1>4. a \in Seq(Nat) /\ Len(a) = Len(t) /\ \A i \in 1..Len(t) : a[i] = t[i].id
  BY <1>1, NumbersTyped
<1> HIDE DEF a
<1>5. \A k \in 1..Len(t) : h[k] \in 1..Len(s)
  BY <1>2 DEF Counts
<1>6. P \in SUBSET (1..Len(m)) /\ Counts(h, Len(a), P) /\ \A k \in 1..Len(a) : a[k] = m[h[k]]
  BY <1>2, <1>3, <1>4, <1>5
<1>7. a = Keep(m, P)
  BY ONLY <1>3, <1>4, <1>6, KeepIs
<1>8. QED
  BY <1>7 DEF a, m, t
----------------------------------------------------------------------------
(* The events w wait in their order; all came after h, which is handled,   *)
(* and none after n.                                                       *)
Ordered(w, h, n) ==
  /\ w \in Seq(Nat) /\ h \in Nat /\ n \in Nat /\ h <= n
  /\ \A i, j \in 1..Len(w) : i < j => w[i] < w[j]
  /\ \A i \in 1..Len(w) : h < w[i] /\ w[i] <= n

(* The events that do not stay at the places P.                            *)
Dropped(w, P) == {w[i] : i \in (1..Len(w)) \ P}

(* Events are discarded, those in l2 and not in l, and one may be handled  *)
(* that came before all that still wait.                                   *)
Taken(w, h, l, w2, h2, l2) ==
  \E P \in SUBSET (1..Len(w)) :
    /\ w2 = Keep(w, P)
    /\ \/ h2 \in {h, 0} /\ l2 = l \cup Dropped(w, P)
       \/ \E k \in 1..Len(w) : /\ \A i \in P : k < i
                               /\ h2 = w[k]
                               /\ l2 = l \cup Dropped(w, P \cup {k})

(* No event waits twice.                                                   *)
LEMMA OrderedDistinct ==
  ASSUME NEW w, NEW h, NEW n, Ordered(w, h, n), NEW i \in 1..Len(w), NEW j \in 1..Len(w),
         w[i] = w[j]
  PROVE  i = j
<1>1. w[i] \in Nat /\ w[j] \in Nat
  BY ElementOfSeq DEF Ordered
<1>2. i \in Int /\ j \in Int
  OBVIOUS
<1>3. (i < j => w[i] < w[j]) /\ (j < i => w[j] < w[i])
  BY DEF Ordered
<1>4. QED
  BY <1>1, <1>2, <1>3

(* Some of the events stay in order, behind any that came before them,     *)
LEMMA OrderedKept ==
  ASSUME NEW w, NEW h, NEW n, Ordered(w, h, n), NEW P \in SUBSET (1..Len(w)), NEW h2 \in Nat,
         h2 <= n, \A i \in P : h2 < w[i]
  PROVE  Ordered(Keep(w, P), h2, n)
<1> DEFINE t == Keep(w, P)
<1>1. w \in Seq(Nat) /\ n \in Nat
  BY DEF Ordered
<1>2. t \in Seq(Nat)
  BY <1>1, KeepCounted
<1>3. PICK f : Counts(f, Len(t), P) /\ \A k \in 1..Len(t) : t[k] = w[f[k]]
  BY <1>1, KeepCounted
<1> HIDE DEF t
<1>4. \A k \in 1..Len(t) : f[k] \in P /\ f[k] \in 1..Len(w)
  BY <1>3 DEF Counts
<1>5. ASSUME NEW i \in 1..Len(t), NEW j \in 1..Len(t), i < j PROVE t[i] < t[j]
  <2>1. f[i] < f[j]
    BY <1>3, <1>5 DEF Counts
  <2>2. w[f[i]] < w[f[j]]
    BY <1>4, <2>1 DEF Ordered
  <2>3. QED
    BY <1>3, <2>2
<1>6. ASSUME NEW i \in 1..Len(t) PROVE h2 < t[i] /\ t[i] <= n
  <2>1. h2 < w[f[i]] /\ w[f[i]] <= n
    BY <1>4 DEF Ordered
  <2>2. QED
    BY <1>3, <2>1
<1>7. QED
  BY <1>1, <1>2, <1>5, <1>6 DEF Ordered, t

(* ... also when one of them is taken to be handled ...                    *)
LEMMA OrderedTaken ==
  ASSUME NEW w, NEW h, NEW n, Ordered(w, h, n),
         NEW l, NEW w2, NEW h2, NEW l2, Taken(w, h, l, w2, h2, l2)
  PROVE  Ordered(w2, h2, n)
<1>1. PICK P \in SUBSET (1..Len(w)) :
        /\ w2 = Keep(w, P)
        /\ \/ h2 \in {h, 0}
           \/ \E k \in 1..Len(w) : (\A i \in P : k < i) /\ h2 = w[k]
  BY DEF Taken
<1>2. h2 \in Nat /\ h2 <= n /\ \A i \in P : h2 < w[i]
  <2>1. CASE h2 \in {h, 0}
    <3>1. ASSUME NEW i \in P PROVE h2 < w[i]
      <4>1. h < w[i] /\ h \in Nat /\ w[i] \in Nat
        BY ElementOfSeq DEF Ordered
      <4>2. QED
        BY <2>1, <4>1
    <3>2. QED
      BY <2>1, <3>1 DEF Ordered
  <2>2. ASSUME NEW k \in 1..Len(w), \A i \in P : k < i, h2 = w[k]
        PROVE  h2 \in Nat /\ h2 <= n /\ \A i \in P : h2 < w[i]
    BY <2>2, ElementOfSeq DEF Ordered
  <2>3. QED
    BY <1>1, <2>1, <2>2
<1>3. QED
  BY <1>1, <1>2, OrderedKept

(* ... and when the next one is added.                                     *)
LEMMA OrderedAdded ==
  ASSUME NEW w, NEW h, NEW n, Ordered(w, h, n)
  PROVE  Ordered(Append(w, n + 1), h, n + 1)
<1> DEFINE t == Append(w, n + 1)
           m == Len(w)
<1>1. w \in Seq(Nat) /\ n \in Nat /\ h \in Nat /\ m \in Nat /\ n + 1 \in Nat
      /\ h <= n /\ h <= n + 1
  BY DEF Ordered
<1>2. /\ t \in Seq(Nat) /\ Len(t) = m + 1
      /\ (\A i \in 1..m : t[i] = w[i]) /\ t[m + 1] = n + 1
  BY <1>1, AppendProperties
<1>3. /\ \A i, j \in 1..m : i < j => w[i] < w[j]
      /\ \A i \in 1..m : w[i] \in Nat /\ h < w[i] /\ w[i] <= n
  BY ElementOfSeq DEF Ordered
<1> HIDE DEF t, m
<1>4. \A i \in 1..m + 1 : i = m + 1 \/ (i \in 1..m /\ i < m + 1)
  BY <1>1
<1>5. ASSUME NEW i \in 1..m + 1 PROVE h < t[i] /\ t[i] <= n + 1
  <2>1. CASE i = m + 1
    BY <1>1, <1>2, <2>1
  <2>2. CASE i \in 1..m
    <3>1. t[i] = w[i] /\ w[i] \in Nat /\ h < w[i] /\ w[i] <= n
      BY <1>2, <1>3, <2>2
    <3>2. QED
      BY <1>1, <3>1
  <2>3. QED
    BY <1>4, <2>1, <2>2
<1>6. ASSUME NEW i \in 1..m + 1, NEW j \in 1..m + 1, i < j PROVE t[i] < t[j]
  <2>1. i \in 1..m
    BY <1>1, <1>6
  <2>2. t[i] = w[i] /\ w[i] \in Nat /\ w[i] <= n
    BY <1>2, <1>3, <2>1
  <2>3. CASE j = m + 1
    <3>1. t[j] = n + 1
      BY <1>2, <2>3
    <3>2. QED
      BY <1>1, <2>2, <3>1
  <2>4. CASE j \in 1..m
    BY <1>2, <1>3, <1>6, <2>1, <2>4
  <2>5. QED
    BY <1>4, <2>3, <2>4
<1>7. QED
  BY <1>1, <1>2, <1>5, <1>6 DEF Ordered, t
----------------------------------------------------------------------------
(* The operators of EventQueue on lists are those of the same names here.  *)
LEMMA QueueCardinality ==
  ASSUME NEW S
  PROVE  Queue!Cardinality(S) = Cardinality(S)
BY DEF Queue!Cardinality, Cardinality

(* Keep of EventQueue is Keep.                                             *)
LEMMA QueueKeep ==
  ASSUME NEW s, NEW P
  PROVE  Queue!Keep(s, P) = Keep(s, P)
<1> DEFINE c(k) == CHOOSE i \in P : Cardinality({j \in P : j <= i}) = k
           c2(k) == CHOOSE i \in P : Queue!Cardinality({j \in P : j <= i}) = k
<1>1. ASSUME NEW k PROVE c2(k) = c(k)
  <2> DEFINE R(i) == {j \in P : j <= i}
  <2> HIDE DEF R
  <2>1. \A i \in P : Queue!Cardinality(R(i)) = k <=> Cardinality(R(i)) = k
    BY QueueCardinality
  <2>2. (CHOOSE i \in P : Queue!Cardinality(R(i)) = k)
          = CHOOSE i \in P : Cardinality(R(i)) = k
    BY <2>1
  <2>3. QED
    BY <2>2 DEF R
<1>2. Queue!Cardinality(P) = Cardinality(P)
  BY QueueCardinality
<1>3. /\ Keep(s, P) = [k \in 1..Cardinality(P) |-> s[c(k)]]
      /\ Queue!Keep(s, P) = [k \in 1..Queue!Cardinality(P) |-> s[c2(k)]]
  BY DEF Queue!Keep, Keep
<1> HIDE DEF c, c2
<1>4. QED
  BY <1>1, <1>2, <1>3

(* The discarding of the events at all places but P.                       *)
LEMMA WithoutIs ==
  ASSUME NEW w, NEW h, NEW n, Ordered(w, h, n), NEW P \in SUBSET (1..Len(w))
  PROVE  /\ Queue!Without(w, Dropped(w, P)) = Keep(w, P)
         /\ Dropped(w, P) \in SUBSET Queue!ToSet(w)
<1> DEFINE S == Dropped(w, P)
<1> USE DEF Dropped
<1>1. w \in Seq(Nat) /\ DOMAIN w = 1..Len(w)
  BY DEF Ordered
<1>2. ASSUME NEW i \in 1..Len(w) PROVE i \in P <=> w[i] \notin S
  <2>1. ASSUME i \in P, w[i] \in S PROVE FALSE
    <3>1. PICK j \in (1..Len(w)) \ P : w[i] = w[j]
      BY <2>1
    <3>2. i = j
      BY <3>1, OrderedDistinct
    <3>3. QED
      BY <2>1, <3>1, <3>2
  <2>2. i \notin P => w[i] \in S
    OBVIOUS
  <2>3. QED
    BY <2>1, <2>2
<1> DEFINE Q == {i \in 1..Len(w) : w[i] \notin S}
<1>3. Q = P
  BY <1>2
<1>4. Queue!Without(w, S) = Queue!Keep(w, Q)
  BY DEF Queue!Without
<1>5. S \in SUBSET Queue!ToSet(w)
  BY <1>1 DEF Queue!ToSet
<1>6. QED
  BY <1>3, <1>4, <1>5, QueueKeep
----------------------------------------------------------------------------
(* What follows the node in front of a list is the list.                   *)
LEMMA TailOfFront ==
  ASSUME NEW T, NEW s \in Seq(T), NEW e \in T
  PROVE  Tail(<<e>> \o s) = s
<1> DEFINE t == <<e>> \o s
           n == Len(s)
<1>1. /\ t \in Seq(T) /\ Len(t) = n + 1 /\ t # <<>> /\ n \in Nat
      /\ \A i \in 2..n + 1 : t[i] = s[i - 1]
  BY FrontProperties
<1> HIDE DEF t
<1>2. /\ Tail(t) \in Seq(T) /\ Len(Tail(t)) = n /\ \A i \in 1..n : Tail(t)[i] = t[i + 1]
  <2>1. /\ Tail(t) \in Seq(T) /\ Len(Tail(t)) = Len(t) - 1
        /\ \A i \in 1..Len(t) - 1 : Tail(t)[i] = t[i + 1]
    BY <1>1, HeadTailProperties
  <2>2. Len(t) - 1 = n
    BY <1>1
  <2>3. QED
    BY <2>1, <2>2
<1> DEFINE b == Tail(t)
<1> HIDE DEF b, n
<1>3. ASSUME NEW i \in 1..n PROVE b[i] = s[i]
  <2>1. i + 1 \in 2..n + 1 /\ (i + 1) - 1 = i
    BY <1>1
  <2>2. QED
    BY <1>1, <1>2, <2>1 DEF b
<1>4. b \in Seq(T) /\ Len(b) = Len(s) /\ s \in Seq(T) /\ \A i \in 1..Len(b) : b[i] = s[i]
  BY <1>2, <1>3 DEF b, n
<1>5. b = s
  BY ONLY <1>4, SameSeq
<1>6. QED
  BY <1>5 DEF b, t

(* What is taken from the queue is a step of EventQueue.                   *)
LEMMA TakenImplements ==
  ASSUME Ordered(Waiting, running.id, raised), raised' = raised,
         Taken(Waiting, running.id, lost, Waiting', running'.id, lost')
  PROVE  Queue!Next
<1> DEFINE w == Waiting
           h == running.id
           w2 == Waiting'
           h2 == running'.id
<1>1. PICK P \in SUBSET (1..Len(w)) :
        /\ w2 = Keep(w, P)
        /\ \/ h2 \in {h, 0} /\ lost' = lost \cup Dropped(w, P)
           \/ \E k \in 1..Len(w) :
                /\ \A i \in P : k < i
                /\ h2 = w[k]
                /\ lost' = lost \cup Dropped(w, P \cup {k})
  BY DEF Taken
<1>2. ASSUME h2 \in {h, 0}, lost' = lost \cup Dropped(w, P)
      PROVE  Queue!Next
  <2> DEFINE S == Dropped(w, P)
  <2>1. Queue!Without(w, S) = Keep(w, P) /\ S \in SUBSET Queue!ToSet(w)
    BY WithoutIs
  <2> HIDE DEF S
  <2>2. lost' = lost \cup S
    BY <1>2 DEF S
  <2>3. CASE h2 = h
    <3>1. Queue!Discard(S)
      BY <1>1, <2>1, <2>2, <2>3 DEF Queue!Discard
    <3>2. QED
      BY <2>1, <3>1 DEF Queue!Next
  <2>4. CASE h2 # h
    <3>1. Queue!Finish(S)
      BY <1>1, <1>2, <2>1, <2>2, <2>4 DEF Queue!Finish
    <3>2. QED
      BY <2>1, <3>1 DEF Queue!Next
  <2>5. QED
    BY <2>3, <2>4
<1>3. ASSUME NEW k \in 1..Len(w), \A i \in P : k < i, h2 = w[k],
             lost' = lost \cup Dropped(w, P \cup {k})
      PROVE  Queue!Next
  <2> DEFINE R == {k} \cup P
             S == Dropped(w, R)
             left == Queue!Without(w, S)
  <2>1. R \in SUBSET (1..Len(w)) /\ R = P \cup {k}
    OBVIOUS
  <2> HIDE DEF R
  <2>2. left = Keep(w, R) /\ S \in SUBSET Queue!ToSet(w)
    <3>1. S = Dropped(w, R) /\ Ordered(w, h, raised)
      OBVIOUS
    <3> HIDE DEF S, w
    <3>2. QED
      BY <2>1, <3>1, WithoutIs
  <2> HIDE DEF S
  <2>3. lost' = lost \cup S
    BY <1>3, <2>1 DEF S
  <2>4. w \in Seq(Nat) /\ w[k] \in Nat
    BY ElementOfSeq DEF Ordered
  <2>5. left = <<w[k]>> \o Keep(w, P)
    <3>1. Keep(w, {k} \cup P) = <<w[k]>> \o Keep(w, P)
      BY <1>3, <2>4, KeepFirst
    <3>2. QED
      BY <2>2, <3>1 DEF R
  <2>6. Keep(w, P) \in Seq(Nat)
    BY <2>4, KeepCounted
  <2> DEFINE u == Keep(w, P)
             t == <<w[k]>> \o u
  <2>7. t # <<>> /\ Head(t) = w[k]
    BY <2>4, <2>6, FrontProperties
  <2>8. Tail(t) = u
    BY <2>4, <2>6, TailOfFront
  <2> HIDE DEF left, t, u
  <2>9. left # <<>> /\ Head(left) = w[k] /\ Tail(left) = u /\ w2 = u
    BY <1>1, <2>5, <2>7, <2>8 DEF t, u
  <2> DEFINE Step == /\ left # <<>> /\ running'.id = Head(left) /\ Waiting' = Tail(left)
                     /\ lost' = lost \cup S /\ UNCHANGED raised
  <2>10. Step
    BY <1>3, <2>3, <2>9
  <2>11. CASE h = 0
    <3>1. Queue!Handle(S)
      BY <2>10, <2>11 DEF Queue!Handle, left
    <3>2. QED
      BY <2>2, <3>1 DEF Queue!Next
  <2>12. CASE h # 0
    <3>1. Queue!FinishAndHandle(S)
      BY <2>10, <2>12 DEF Queue!FinishAndHandle, left
    <3>2. QED
      BY <2>2, <3>1 DEF Queue!Next
  <2>13. QED
    BY <2>11, <2>12
<1>4. QED
  BY <1>1, <1>2, <1>3
----------------------------------------------------------------------------
(* The records that are still to be moved, as events.                      *)
Behind == IF pc = "pop" THEN Tail(Numbers(HalRecords)) ELSE Numbers(HalRecords)

(* What waits: the application queue and what is behind it.                *)
LEMMA WaitingIs == Waiting = Numbers(app) \o Behind /\ Waiting' = Numbers(app') \o Behind'
BY DEF Waiting, Behind

(* Both are sequences of numbers.                                          *)
LEMMA BehindTyped ==
  ASSUME TypesInv, AtHandInv
  PROVE  Behind \in Seq(Nat) /\ Numbers(app) \in Seq(Nat)
<1>1. HalRecords \in Seq(Record) /\ app \in Seq(Record)
  BY DEF TypesInv, TypeOK
<1>2. Numbers(HalRecords) \in Seq(Nat) /\ Numbers(app) \in Seq(Nat)
  BY <1>1, NumbersTyped
<1>3. pc = "pop" => Numbers(HalRecords) # <<>>
  BY <1>1, NumbersOfTail DEF AtHandInv, Copying
<1> DEFINE m == Numbers(HalRecords)
<1> HIDE DEF m
<1>4. m \in Seq(Nat) /\ (m # <<>> => Tail(m) \in Seq(Nat))
  BY <1>2, HeadTailProperties DEF m
<1>5. QED
  BY <1>2, <1>3, <1>4 DEF Behind, m

(* The numbers of the queue a that are neither in a2 nor handled.          *)
Discarded(a, a2, number) == Ids(a) \ (Ids(a2) \cup {number})

(* The thread handles the event h, or none.                                *)
Handles(now, h) == now.id = h \/ now.id = 0

(* What is drawn from the application queue is taken from all that wait.   *)
LEMMA DrawnTaken ==
  ASSUME NEW a \in Seq(Record), NEW H \in Seq(Nat), NEW h, NEW n,
         Ordered(Numbers(a) \o H, h, n),
         NEW now, Handles(now, h), NEW a2, NEW now2, Drawn(a, now, a2, now2), NEW l
  PROVE  Taken(Numbers(a) \o H, h, l, Numbers(a2) \o H, now2.id,
               l \cup Discarded(a, a2, now2.id))
<1> USE DEF Discarded
<1>0. now.id \in {h, 0}
  BY DEF Handles
<1> DEFINE m == Numbers(a)
           w == m \o H
           c == Len(a)
           d == Len(H)
<1>1. PICK P \in SUBSET (1..c) :
        /\ a2 = Keep(a, P)
        /\ \/ now2 = now
           \/ /\ now = NoRecord
              /\ \E k \in 1..c : now2 = a[k] /\ \A i \in P : k < i
  BY DEF Drawn
<1>2. m \in Seq(Nat) /\ Len(m) = c /\ \A i \in 1..c : m[i] = a[i].id /\ a[i].id \in 1..MaxRaised
  BY NumbersTyped
<1>3. c \in Nat /\ d \in Nat
  OBVIOUS
<1>4. /\ Len(w) = c + d
      /\ \A i \in 1..c + d : w[i] = IF i <= c THEN m[i] ELSE H[i - c]
  <2> HIDE DEF m
  <2>1. /\ Len(m \o H) = Len(m) + Len(H)
        /\ \A i \in 1..Len(m) + Len(H) :
             (m \o H)[i] = IF i <= Len(m) THEN m[i] ELSE H[i - Len(m)]
    BY <1>2, ConcatProperties
  <2>2. QED
    BY <1>2, <2>1
<1> DEFINE R == Joined(c, P, 1..d)
<1>5. Numbers(a2) \o H = Keep(w, R)
  <2>1. Numbers(a2) = Keep(m, P)
    BY <1>1, NumbersKept
  <2>2. Keep(H, 1..d) = H
    BY KeepAll
  <2> HIDE DEF m
  <2>3. P \in SUBSET (1..Len(m)) /\ 1..d \in SUBSET (1..d)
    BY <1>2
  <2>4. Keep(m, P) \o Keep(H, 1..d) = Keep(m \o H, Joined(Len(m), P, 1..d))
    <3> DEFINE Q == 1..d
    <3>1. m \in Seq(Nat) /\ H \in Seq(Nat) /\ Q \in SUBSET (1..Len(H))
      BY <1>2, <2>3
    <3> HIDE DEF Q
    <3>2. Keep(m, P) \o Keep(H, Q) = Keep(m \o H, Joined(Len(m), P, Q))
      BY ONLY <2>3, <3>1, KeepJoined
    <3>3. QED
      BY <3>2 DEF Q
  <2>5. QED
    BY <1>2, <2>1, <2>2, <2>4
<1>6. Ordered(w, h, n)
  OBVIOUS
<1>7. /\ Ids(a) = {a[i].id : i \in 1..c}
      /\ Ids(a2) = {a[i].id : i \in P}
  <2>1. a2 \in Seq(Record) /\ Nodes(a2) = {a[i] : i \in P}
    <3>1. a \in Seq(Record) /\ P \in SUBSET (1..Len(a)) /\ a2 = Keep(a, P)
      BY <1>1
    <3>2. Keep(a, P) \in Seq(Record)
      BY <3>1, KeepProperties
    <3>3. Nodes(Keep(a, P)) = {a[i] : i \in P}
      BY <3>1, KeepNodes
    <3>4. QED
      BY <3>1, <3>2, <3>3
  <2>2. Ids(a2) = {r.id : r \in Nodes(a2)}
    <3>1. Ids(a2) = {a2[i].id : i \in 1..Len(a2)}
      BY <2>1, IdsTyped
    <3>2. QED
      BY <3>1 DEF Nodes
  <2>3. Ids(a) = {a[i].id : i \in 1..c}
    BY IdsTyped
  <2>4. QED
    BY <2>1, <2>2, <2>3
<1> HIDE DEF m, w, c, d
<1>8. /\ 1..c \subseteq 1..Len(w) /\ R \in SUBSET (1..Len(w))
      /\ \A i \in 1..Len(w) : i \notin 1..c => i \in R
      /\ \A i \in 1..c : i \in R <=> i \in P
  <2>1. \A i \in 1..c : i \in 1..c + d /\ ~(\E j \in 1..d : i = c + j)
    BY ONLY <1>3
  <2>2. \A i \in 1..d : c + i \in 1..c + d
    BY ONLY <1>3
  <2>3. ASSUME NEW i \in 1..c + d, i \notin 1..c PROVE i \in R
    <3>1. i - c \in 1..d /\ i = c + (i - c)
      BY ONLY <1>3, <2>3, i \in 1..c + d
    <3>2. QED
      BY <3>1 DEF Joined
  <2>4. P \in SUBSET (1..c) /\ R = P \cup {c + i : i \in 1..d}
    BY DEF c, Joined, R
  <2> HIDE DEF R
  <2>5. R \in SUBSET (1..c + d)
    BY <2>1, <2>2, <2>4
  <2>6. \A i \in 1..c : i \in R <=> i \in P
    BY <2>1, <2>4
  <2>7. QED
    BY <1>4, <2>1, <2>3, <2>5, <2>6
<1>9. \A i \in 1..c : w[i] = a[i].id
  <2>1. \A i \in 1..c : i \in 1..c + d /\ i <= c
    BY <1>3
  <2>2. QED
    BY <1>2, <1>4, <2>1
<1> DEFINE A == {w[i] : i \in (1..c) \ P}
<1>10. Ids(a) \ Ids(a2) = A
  <2>1. ASSUME NEW i \in 1..c, i \notin P PROVE w[i] \notin Ids(a2)
    <3>1. ASSUME NEW j \in P, w[i] = a[j].id PROVE FALSE
      <4>1. w[j] = a[j].id /\ i \in 1..Len(w) /\ j \in 1..Len(w)
        BY <1>8, <1>9 DEF c
      <4>2. i = j
        BY <1>6, <3>1, <4>1, OrderedDistinct
      <4>3. QED
        BY <2>1, <4>2
    <3>2. QED
      BY <1>7, <3>1
  <2>2. P \in SUBSET (1..c)
    BY DEF c
  <2>3. Ids(a) = {w[i] : i \in 1..c} /\ Ids(a2) = {w[i] : i \in P}
    BY <1>7, <1>9, <2>2
  <2>4. QED
    BY <2>1, <2>3
<1>11. CASE now2 = now
  <2>1. now2.id \notin Ids(a)
    <3>1. ASSUME NEW i \in 1..c PROVE w[i] # now2.id
      <4>1. h < w[i] /\ h \in Nat /\ w[i] \in Nat
        BY <1>6, <1>8, ElementOfSeq DEF Ordered
      <4>2. QED
        BY <1>0, <1>11, <4>1
    <3>2. QED
      BY <1>7, <1>9, <3>1
  <2>2. Ids(a) \ (Ids(a2) \cup {now2.id}) = A
    BY <1>10, <2>1
  <2>3. A = Dropped(w, R)
    <3>1. (1..Len(w)) \ R = (1..c) \ P
      BY <1>8
    <3>2. QED
      BY <3>1 DEF Dropped
  <2> HIDE DEF A, R
  <2>4. now2.id \in {h, 0} /\ l \cup (Ids(a) \ (Ids(a2) \cup {now2.id})) =
                                l \cup Dropped(w, R)
    BY <1>0, <1>11, <2>2, <2>3
  <2>5. QED
    BY <1>5, <1>8, <2>4 DEF Taken, w, m
<1>12. ASSUME NEW k \in 1..c, now2 = a[k], \A i \in P : k < i
       PROVE  Taken(w, h, l, Numbers(a2) \o H, now2.id,
                    l \cup (Ids(a) \ (Ids(a2) \cup {now2.id})))
  <2>1. now2.id = w[k] /\ k \in 1..Len(w)
    BY <1>8, <1>9, <1>12
  <2>2. \A i \in R : k < i
    <3>1. \A i \in 1..d : k < c + i
      BY ONLY <1>3, k \in 1..c
    <3>2. QED
      BY <1>12, <3>1 DEF Joined
  <2>3. Ids(a) \ (Ids(a2) \cup {now2.id}) = Dropped(w, R \cup {k})
    <3>1. Ids(a) \ (Ids(a2) \cup {now2.id}) = A \ {w[k]}
      BY <1>10, <2>1
    <3>2. \A i \in (1..c) \ P : w[i] = w[k] <=> i = k
      BY <1>6, <1>8, <2>1, OrderedDistinct
    <3>3. A \ {w[k]} = {w[i] : i \in (1..c) \ (P \cup {k})}
      BY <3>2
    <3>4. (1..Len(w)) \ (R \cup {k}) = (1..c) \ (P \cup {k})
      BY <1>8
    <3>5. QED
      BY <3>1, <3>3, <3>4 DEF Dropped
  <2> HIDE DEF A, R
  <2>4. QED
    BY <1>5, <1>8, <2>1, <2>2, <2>3 DEF Taken
<1>13. QED
  BY <1>1, <1>11, <1>12 DEF w, m, c
----------------------------------------------------------------------------
(* An event is put behind those that wait, the first one being moved ...   *)
LEMMA TailAppended ==
  ASSUME NEW T, NEW m \in Seq(T), m # <<>>, NEW e \in T
  PROVE  Tail(Append(m, e)) = Append(Tail(m), e)
<1> DEFINE n == Len(m)
           a == Append(m, e)
           b == Tail(m)
           t == Tail(a)
           u == Append(b, e)
<1>1. n \in Nat \ {0}
  OBVIOUS
<1>2. a \in Seq(T) /\ Len(a) = n + 1 /\ (\A i \in 1..n : a[i] = m[i]) /\ a[n + 1] = e
  BY AppendProperties
<1>3. b \in Seq(T) /\ Len(b) = n - 1 /\ \A i \in 1..n - 1 : b[i] = m[i + 1]
  BY HeadTailProperties
<1> HIDE DEF n, a, b
<1>4. a # <<>>
  BY <1>1, <1>2
<1>5. t \in Seq(T) /\ Len(t) = n /\ \A i \in 1..n : t[i] = a[i + 1]
  <2>1. t \in Seq(T) /\ Len(t) = Len(a) - 1 /\ \A i \in 1..Len(a) - 1 : t[i] = a[i + 1]
    BY <1>2, <1>4, HeadTailProperties
  <2>2. Len(a) - 1 = n
    BY <1>1, <1>2
  <2> HIDE DEF t
  <2>3. QED
    BY <2>1, <2>2
<1>6. u \in Seq(T) /\ Len(u) = n /\ (\A i \in 1..n - 1 : u[i] = b[i]) /\ u[n] = e
  <2>1. /\ u \in Seq(T) /\ Len(u) = Len(b) + 1
        /\ (\A i \in 1..Len(b) : u[i] = b[i]) /\ u[Len(b) + 1] = e
    BY <1>3, AppendProperties
  <2>2. Len(b) + 1 = n
    BY <1>1, <1>3
  <2> HIDE DEF u
  <2>3. QED
    BY <1>3, <2>1, <2>2
<1> HIDE DEF t, u
<1>7. ASSUME NEW i \in 1..n PROVE t[i] = u[i]
  <2>1. CASE i = n
    BY <1>2, <1>5, <1>6, <2>1
  <2>2. CASE i # n
    <3>1. i \in 1..n - 1 /\ i + 1 \in 1..n
      BY <1>1, <2>2
    <3>2. QED
      BY <1>2, <1>3, <1>5, <1>6, <3>1
  <2>3. QED
    BY <2>1, <2>2
<1>8. t = u
  BY <1>5, <1>6, <1>7, SameSeq
<1>9. QED
  BY <1>8 DEF t, u, a, b

(* ... or behind those of the first queue, ...                             *)
LEMMA ConcatAppended ==
  ASSUME NEW T, NEW a \in Seq(T), NEW b \in Seq(T), NEW e \in T
  PROVE  a \o Append(b, e) = Append(a \o b, e)
<1> DEFINE m == Len(a)
           n == Len(b)
           c == Append(b, e)
           w == a \o b
           t == a \o c
           u == Append(w, e)
<1>1. m \in Nat /\ n \in Nat
  OBVIOUS
<1>2. c \in Seq(T) /\ Len(c) = n + 1 /\ (\A i \in 1..n : c[i] = b[i]) /\ c[n + 1] = e
  BY AppendProperties
<1>3. /\ w \in Seq(T) /\ Len(w) = m + n
      /\ \A i \in 1..m + n : w[i] = IF i <= m THEN a[i] ELSE b[i - m]
  BY ConcatProperties
<1> HIDE DEF c, w
<1>4. /\ t \in Seq(T) /\ Len(t) = m + (n + 1)
      /\ \A i \in 1..m + (n + 1) : t[i] = IF i <= m THEN a[i] ELSE c[i - m]
  <2>1. /\ t \in Seq(T) /\ Len(t) = m + Len(c)
        /\ \A i \in 1..m + Len(c) : t[i] = IF i <= m THEN a[i] ELSE c[i - m]
    <3>1. a \in Seq(T) /\ c \in Seq(T)
      BY <1>2
    <3>2. QED
      BY <3>1, ConcatProperties
  <2> HIDE DEF t, m, n
  <2>2. QED
    BY <1>2, <2>1
<1>5. /\ u \in Seq(T) /\ Len(u) = (m + n) + 1
      /\ (\A i \in 1..m + n : u[i] = w[i]) /\ u[(m + n) + 1] = e
  <2>1. /\ u \in Seq(T) /\ Len(u) = Len(w) + 1
        /\ (\A i \in 1..Len(w) : u[i] = w[i]) /\ u[Len(w) + 1] = e
    <3>1. w \in Seq(T) /\ e \in T
      BY <1>3
    <3>2. QED
      BY <3>1, AppendProperties
  <2> HIDE DEF u, m, n
  <2>2. QED
    BY <1>3, <2>1
<1> HIDE DEF t, u, m, n
<1>6. ASSUME NEW i \in 1..m + (n + 1) PROVE t[i] = u[i]
  <2>1. CASE i = (m + n) + 1
    <3>1. ~(i <= m) /\ i - m = n + 1
      BY <1>1, <2>1
    <3>2. t[i] = c[n + 1]
      BY <1>4, <3>1
    <3>3. QED
      BY <1>2, <1>5, <2>1, <3>2
  <2>2. CASE i <= m
    <3>1. i \in 1..m + n
      BY <1>1, <2>2
    <3>2. QED
      BY <1>3, <1>4, <1>5, <2>2, <3>1
  <2>3. CASE ~(i <= m) /\ i # (m + n) + 1
    <3>1. i \in 1..m + n /\ i - m \in 1..n
      BY <1>1, <2>3
    <3>2. QED
      BY <1>2, <1>3, <1>4, <1>5, <2>3, <3>1
  <2>4. QED
    BY <2>1, <2>2, <2>3
<1>7. t = u
  <2>1. Len(t) = Len(u)
    BY <1>1, <1>4, <1>5
  <2>2. QED
    BY <1>4, <1>5, <1>6, <2>1, SameSeq
<1>8. QED
  BY <1>7 DEF t, u, c, w

(* ... and the first of the second queue is lost, or moved to the first.   *)
LEMMA FirstOfSecond ==
  ASSUME NEW T, NEW a \in Seq(T), NEW b \in Seq(T), b # <<>>
  PROVE  /\ RemoveAt(a \o b, Len(a) + 1) = a \o Tail(b)
         /\ Len(a) + 1 \in 1..Len(a \o b) /\ (a \o b)[Len(a) + 1] = b[1]
         /\ Len(a \o b) = Len(a) + Len(b)
         /\ Append(a, b[1]) \o Tail(b) = a \o b
<1> DEFINE m == Len(a)
           n == Len(b)
           c == Tail(b)
           w == a \o b
           t == a \o c
           p == m + 1
           u == RemoveAt(w, p)
           v == Append(a, b[1])
           x == v \o c
<1>1. m \in Nat /\ n \in Nat \ {0} /\ b[1] \in T
  BY ElementOfSeq
<1>2. c \in Seq(T) /\ Len(c) = n - 1 /\ \A i \in 1..n - 1 : c[i] = b[i + 1]
  BY HeadTailProperties
<1>3. /\ w \in Seq(T) /\ Len(w) = m + n
      /\ \A i \in 1..m + n : w[i] = IF i <= m THEN a[i] ELSE b[i - m]
  BY ConcatProperties
<1>4. /\ v \in Seq(T) /\ Len(v) = m + 1
      /\ (\A i \in 1..m : v[i] = a[i]) /\ v[m + 1] = b[1]
  BY <1>1, AppendProperties
<1> HIDE DEF c, w, v
<1>5. /\ t \in Seq(T) /\ Len(t) = m + (n - 1)
      /\ \A i \in 1..m + (n - 1) : t[i] = IF i <= m THEN a[i] ELSE c[i - m]
  <2>1. /\ t \in Seq(T) /\ Len(t) = m + Len(c)
        /\ \A i \in 1..m + Len(c) : t[i] = IF i <= m THEN a[i] ELSE c[i - m]
    BY <1>2, ConcatProperties
  <2> HIDE DEF t, m, n
  <2>2. QED
    BY <1>2, <2>1
<1>6. p \in 1..m + n /\ p <= m + n /\ ~(p <= m) /\ p - m = 1
  <2> HIDE DEF m, n
  <2>1. QED
    BY <1>1
<1>7. /\ u \in Seq(T) /\ Len(u) = (m + n) - 1
      /\ \A i \in 1..Len(u) : u[i] = IF i < p THEN w[i] ELSE w[i + 1]
  <2> HIDE DEF p, m, n
  <2>1. /\ u \in Seq(T) /\ Len(u) = Len(w) - 1
        /\ \A i \in 1..Len(w) - 1 : u[i] = IF i < p THEN w[i] ELSE w[i + 1]
    <3>1. p \in 1..Len(w) /\ w \in Seq(T)
      BY <1>3, <1>6
    <3>2. QED
      BY <3>1, RemoveProperties
  <2> HIDE DEF u
  <2>2. QED
    BY <1>3, <2>1
<1>8. /\ x \in Seq(T) /\ Len(x) = (m + 1) + (n - 1)
      /\ \A i \in 1..(m + 1) + (n - 1) : x[i] = IF i <= m + 1 THEN v[i] ELSE c[i - (m + 1)]
  <2>1. /\ x \in Seq(T) /\ Len(x) = Len(v) + Len(c)
        /\ \A i \in 1..Len(v) + Len(c) : x[i] = IF i <= Len(v) THEN v[i] ELSE c[i - Len(v)]
    BY <1>2, <1>4, ConcatProperties
  <2> HIDE DEF x, m, n
  <2>2. QED
    BY <1>2, <1>4, <2>1
<1>9. p = m + 1
  OBVIOUS
<1> HIDE DEF t, u, x, m, n, p
<1>10. t = u
  <2>1. Len(u) = Len(t) /\ Len(t) = m + (n - 1)
    BY <1>1, <1>5, <1>7
  <2>2. ASSUME NEW i \in 1..m + (n - 1) PROVE t[i] = u[i]
    <3>1. CASE i <= m
      <4>1. i < p /\ i \in 1..m + n
        BY <1>1, <1>9, <3>1
      <4>2. QED
        BY <1>3, <1>5, <1>7, <2>1, <3>1, <4>1
    <3>2. CASE ~(i <= m)
      <4>1. /\ ~(i < p) /\ i - m \in 1..n - 1 /\ i + 1 \in 1..m + n /\ ~(i + 1 <= m)
            /\ (i + 1) - m = (i - m) + 1
        BY <1>1, <1>9, <3>2
      <4>2. t[i] = b[(i - m) + 1]
        BY <1>2, <1>5, <3>2, <4>1
      <4>3. u[i] = w[i + 1]
        BY <1>7, <2>1, <4>1
      <4>4. QED
        BY <1>3, <4>1, <4>2, <4>3
    <3>3. QED
      BY <3>1, <3>2
  <2>3. QED
    BY <1>5, <1>7, <2>1, <2>2, SameSeq
<1>11. x = w
  <2>1. Len(x) = Len(w) /\ Len(w) = m + n /\ (m + 1) + (n - 1) = m + n
    BY <1>1, <1>3, <1>8
  <2>2. ASSUME NEW i \in 1..m + n PROVE x[i] = w[i]
    <3>1. CASE i <= m
      <4>1. i \in 1..m /\ i <= m + 1
        BY <1>1, <3>1
      <4>2. QED
        BY <1>3, <1>4, <1>8, <2>1, <3>1, <4>1
    <3>2. CASE i = m + 1
      <4>1. i <= m + 1 /\ ~(i <= m) /\ i - m = 1
        BY <1>1, <3>2
      <4>2. QED
        BY <1>3, <1>4, <1>8, <2>1, <3>2, <4>1
    <3>3. CASE ~(i <= m + 1)
      <4>1. i - (m + 1) \in 1..n - 1 /\ ~(i <= m) /\ (i - (m + 1)) + 1 = i - m
        BY <1>1, <3>3
      <4>2. x[i] = c[i - (m + 1)]
        BY <1>8, <2>1, <3>3
      <4>3. x[i] = b[i - m]
        BY <1>2, <4>1, <4>2
      <4>4. QED
        BY <1>3, <4>1, <4>3
    <3>4. i <= m \/ i = m + 1 \/ ~(i <= m + 1)
      BY <1>1
    <3>5. QED
      BY <3>1, <3>2, <3>3, <3>4
  <2>3. QED
    BY <1>3, <1>8, <2>1, <2>2, SameSeq
<1>12. w[p] = b[1]
  BY <1>3, <1>6
<1>13. QED
  BY <1>3, <1>6, <1>10, <1>11, <1>12 DEF t, u, w, x, v, c, p, m, n
----------------------------------------------------------------------------
(* What is removed from the HAL queue is taken from all that wait.         *)
LEMMA BackTaken ==
  ASSUME NEW A \in Seq(Nat), NEW s \in Seq(Record), NEW h, NEW n,
         Ordered(A \o Numbers(s), h, n), NEW R \in SUBSET (1..Len(s)), NEW l
  PROVE  Taken(A \o Numbers(s), h, l, A \o Numbers(Keep(s, R)), h,
               l \cup (Ids(s) \ Ids(Keep(s, R))))
<1> DEFINE m == Numbers(s)
           w == A \o m
           c == Len(A)
           d == Len(s)
           s2 == Keep(s, R)
           C == 1..c
           P == Joined(c, C, R)
<1>1. m \in Seq(Nat) /\ Len(m) = d /\ \A i \in 1..d : m[i] = s[i].id
  BY NumbersTyped
<1>2. c \in Nat /\ d \in Nat
  OBVIOUS
<1>3. /\ Len(w) = c + d
      /\ \A i \in 1..c + d : w[i] = IF i <= c THEN A[i] ELSE m[i - c]
  <2> HIDE DEF m
  <2>1. /\ Len(w) = c + Len(m)
        /\ \A i \in 1..c + Len(m) : w[i] = IF i <= c THEN A[i] ELSE m[i - c]
    BY <1>1, ConcatProperties
  <2>2. QED
    BY <1>1, <2>1
<1>4. A \o Numbers(s2) = Keep(w, P)
  <2>1. Numbers(s2) = Keep(m, R)
    BY NumbersKept
  <2>2. Keep(A, C) = A
    BY KeepAll
  <2>3. R \in SUBSET (1..Len(m)) /\ C \in SUBSET (1..Len(A)) /\ m \in Seq(Nat) /\ A \in Seq(Nat)
    BY <1>1
  <2> HIDE DEF m, C
  <2>4. Keep(A, C) \o Keep(m, R) = Keep(A \o m, Joined(Len(A), C, R))
    BY ONLY <2>3, KeepJoined
  <2>5. QED
    BY <2>1, <2>2, <2>4
<1>5. Ordered(w, h, n)
  OBVIOUS
<1>6. /\ Ids(s) = {s[i].id : i \in 1..d}
      /\ Ids(s2) = {s[i].id : i \in R}
  <2>1. s2 \in Seq(Record) /\ Nodes(s2) = {s[i] : i \in R}
    BY KeepProperties, KeepNodes
  <2>2. Ids(s2) = {r.id : r \in Nodes(s2)}
    <3>1. Ids(s2) = {s2[i].id : i \in 1..Len(s2)}
      BY <2>1, IdsTyped
    <3>2. QED
      BY <3>1 DEF Nodes
  <2>3. Ids(s) = {s[i].id : i \in 1..d}
    BY IdsTyped
  <2>4. QED
    BY <2>1, <2>2, <2>3
<1>7. R \in SUBSET (1..d) /\ P = (1..c) \cup {c + i : i \in R}
  BY DEF Joined
<1> HIDE DEF m, w, c, d, C, P, s2
<1>8. \A i \in 1..d : c + i \in 1..c + d /\ ~(c + i <= c) /\ (c + i) - c = i
  BY ONLY <1>2
<1>9. \A i \in 1..c : i \in 1..c + d
  BY ONLY <1>2
<1>10. P \in SUBSET (1..Len(w))
  BY <1>3, <1>7, <1>8, <1>9
<1>11. \A i \in 1..d : w[c + i] = s[i].id
  BY <1>1, <1>3, <1>8
<1>12. (1..Len(w)) \ P = {c + i : i \in (1..d) \ R}
  <2>1. ASSUME NEW i \in 1..c + d, i \notin P PROVE i - c \in (1..d) \ R /\ i = c + (i - c)
    <3>1. i \notin 1..c /\ \A j \in R : i # c + j
      BY <1>7, <2>1
    <3>2. i - c \in 1..d /\ i = c + (i - c)
      BY ONLY <1>2, <3>1, i \in 1..c + d
    <3>3. QED
      BY <3>1, <3>2
  <2>2. ASSUME NEW i \in (1..d) \ R PROVE c + i \in 1..c + d /\ c + i \notin P
    <3>1. c + i \notin 1..c /\ c + i \in 1..c + d
      BY ONLY <1>2, i \in 1..d
    <3>2. ASSUME NEW j \in R PROVE c + i # c + j
      <4>1. i # j /\ j \in 1..d
        BY <1>7
      <4>2. QED
        BY ONLY <1>2, <4>1, i \in 1..d
    <3>3. QED
      BY <1>7, <3>1, <3>2
  <2>3. QED
    BY <1>3, <2>1, <2>2
<1>13. Dropped(w, P) = Ids(s) \ Ids(s2)
  <2>1. Dropped(w, P) = {w[c + i] : i \in (1..d) \ R}
    BY <1>12 DEF Dropped
  <2>2. Dropped(w, P) = {s[i].id : i \in (1..d) \ R}
    BY <1>11, <2>1
  <2>3. ASSUME NEW i \in (1..d) \ R, NEW j \in R PROVE s[i].id # s[j].id
    <3>1. SUFFICES ASSUME s[i].id = s[j].id PROVE FALSE
      OBVIOUS
    <3>2. j \in 1..d /\ i # j
      BY <1>7
    <3>3. c + i \in 1..Len(w) /\ c + j \in 1..Len(w) /\ w[c + i] = w[c + j]
      BY <1>3, <1>8, <1>11, <3>1, <3>2
    <3>4. c + i = c + j
      BY <1>5, <3>3, OrderedDistinct
    <3>5. i = j
      BY ONLY <1>2, <3>2, <3>4, i \in 1..d
    <3>6. QED
      BY <3>2, <3>5
  <2>4. QED
    BY <1>6, <1>7, <2>2, <2>3
<1>14. h \in {h, 0} /\ l \cup (Ids(s) \ Ids(s2)) = l \cup Dropped(w, P)
  BY <1>13
<1>15. QED
  BY <1>4, <1>10, <1>14 DEF Taken, w, m, s2
----------------------------------------------------------------------------
(* A step that takes events of those that wait: EventQueue has it, and     *)
(* what still waits is in order.                                           *)
LEMMA TakenStep ==
  ASSUME Ordered(Waiting, running.id, raised), raised' = raised,
         Taken(Waiting, running.id, lost, Waiting', running'.id, lost')
  PROVE  Queue!Next /\ Ordered(Waiting', running'.id, raised')
<1>1. Queue!Next
  BY TakenImplements
<1> DEFINE w2 == Waiting'
           h2 == running'.id
           l2 == lost'
           w == Waiting
           h == running.id
<1>2. Ordered(w, h, raised) /\ Taken(w, h, lost, w2, h2, l2)
  OBVIOUS
<1> HIDE DEF w, h, w2, h2, l2
<1>3. Ordered(w2, h2, raised)
  BY ONLY <1>2, OrderedTaken
<1>4. QED
  BY <1>1, <1>3 DEF w2, h2

(* A step that changes nothing of it.                                      *)
LEMMA SameStep ==
  ASSUME Ordered(Waiting, running.id, raised), raised' = raised,
         Waiting' = Waiting, running' = running, lost' = lost
  PROVE  UNCHANGED Queue!vars /\ Ordered(Waiting', running'.id, raised')
BY DEF Queue!vars
----------------------------------------------------------------------------
(* The steps that dispatch.                                                *)
LEMMA QueueDispatching ==
  ASSUME TypesInv, AtHandInv, Ordered(Waiting, running.id, raised),
         Finish \/ SpawnDispatcher \/ \E p \in Port : Release(p)
  PROVE  [Queue!Next]_(Queue!vars) /\ Ordered(Waiting', running'.id, raised')
<1>1. app \in Seq(Record) /\ running \in Record \cup {NoRecord} /\ NoRecord.id = 0
  BY RecordIs DEF TypesInv, TypeOK
<1>2. /\ UNCHANGED <<hal, raised>> /\ (pc' = "pop" <=> pc = "pop")
      /\ \/ app' = app /\ running' = running /\ lost' = lost
         \/ /\ lost' = lost \cup (Ids(app) \ (Ids(app') \cup {running'.id}))
            /\ \E now \in {running, NoRecord} : Drawn(app, now, app', running')
  <2>1. CASE Finish
    BY <2>1, FinishDraws
  <2>2. CASE SpawnDispatcher
    BY <2>2, SpawnDraws DEF SpawnDispatcher
  <2>3. CASE \E p \in Port : Release(p)
    BY <2>3, ReleaseDraws
  <2>4. QED
    BY <2>1, <2>2, <2>3
<1>3. HalRecords' = HalRecords
  BY <1>2, SameRecords
<1>4. Behind' = Behind
  BY <1>2, <1>3 DEF Behind, Numbers
<1>5. Waiting = Numbers(app) \o Behind /\ Waiting' = Numbers(app') \o Behind
  BY <1>4, WaitingIs
<1>6. CASE app' = app /\ running' = running /\ lost' = lost
  <2>1. Waiting' = Waiting
    BY <1>5, <1>6
  <2>2. QED
    BY <1>2, <1>6, <2>1, SameStep
<1>7. ASSUME NEW now \in {running, NoRecord}, Drawn(app, now, app', running'),
             lost' = lost \cup (Ids(app) \ (Ids(app') \cup {running'.id}))
      PROVE  [Queue!Next]_(Queue!vars) /\ Ordered(Waiting', running'.id, raised')
  <2> DEFINE a == app
             a2 == app'
             H == Behind
             h == running.id
             now2 == running'
             l == lost
             n == raised
  <2>1. /\ a \in Seq(Record) /\ H \in Seq(Nat) /\ Ordered(Numbers(a) \o H, h, n)
        /\ Handles(now, h) /\ Drawn(a, now, a2, now2)
    BY <1>1, <1>5, <1>7, BehindTyped DEF Handles
  <2>2. /\ lost' = l \cup (Ids(a) \ (Ids(a2) \cup {now2.id}))
        /\ Waiting = Numbers(a) \o H /\ Waiting' = Numbers(a2) \o H
        /\ running.id = h /\ running'.id = now2.id /\ l = lost
    BY <1>5, <1>7
  <2> HIDE DEF a, a2, H, h, now2, n, l
  <2>3. Taken(Numbers(a) \o H, h, l, Numbers(a2) \o H, now2.id,
              l \cup Discarded(a, a2, now2.id))
    BY ONLY <2>1, DrawnTaken
  <2>4. Taken(Waiting, running.id, lost, Waiting', running'.id, lost')
    BY ONLY <2>2, <2>3 DEF Discarded
  <2>5. QED
    BY <1>2, <2>4, TakenStep
<1>8. QED
  BY <1>2, <1>6, <1>7

(* The steps that discard records of the HAL queue.                        *)
LEMMA QueueRemoving ==
  ASSUME TypesInv, AtHandInv, Ordered(Waiting, running.id, raised),
         OutOfMemory \/ \E p \in Port : Dispose(p)
  PROVE  [Queue!Next]_(Queue!vars) /\ Ordered(Waiting', running'.id, raised')
<1>1. app \in Seq(Record) /\ HalRecords \in Seq(Record) /\ Numbers(app) \in Seq(Nat)
  BY NumbersTyped DEF TypesInv, TypeOK
<1>2. /\ UNCHANGED <<app, running, raised>> /\ pc # "pop" /\ pc' # "pop"
      /\ \E R \in SUBSET (1..Len(HalRecords)) :
           /\ HalRecords' = Keep(HalRecords, R)
           /\ lost' = lost \cup (Ids(HalRecords) \ Ids(HalRecords'))
  <2>1. CASE OutOfMemory
    <3>1. /\ UNCHANGED <<app, running, raised>> /\ pc # "pop" /\ pc' # "pop"
          /\ slots' = slots /\ writer' = writer /\ reader' = writer /\ full' = FALSE
          /\ lost' = lost \cup Ids(HalRecords)
      BY <2>1 DEF OutOfMemory
    <3>2. HalRecords' = <<>>
      BY <3>1, RecordsDropped DEF TypesInv
    <3>3. {} \in SUBSET (1..Len(HalRecords)) /\ Cardinality({}) = 0
      BY FS_EmptySet
    <3>4. Keep(HalRecords, {}) \in Seq(Record) /\ Len(Keep(HalRecords, {})) = 0
      BY <1>1, <3>3, KeepProperties
    <3>5. Keep(HalRecords, {}) = <<>>
      BY <3>4
    <3>6. Ids(HalRecords') = {}
      BY <3>2 DEF Ids
    <3>7. QED
      BY <3>1, <3>2, <3>3, <3>5, <3>6
  <2>2. ASSUME NEW p \in Port, Dispose(p)
        PROVE  /\ UNCHANGED <<app, running, raised>> /\ pc # "pop" /\ pc' # "pop"
               /\ \E R \in SUBSET (1..Len(HalRecords)) :
                    /\ HalRecords' = Keep(HalRecords, R)
                    /\ lost' = lost \cup (Ids(HalRecords) \ Ids(HalRecords'))
    <3>1. /\ UNCHANGED <<app, running, raised>> /\ pc # "pop" /\ pc' # "pop"
          /\ RemoveFromHALQueue(p)
      BY <2>2 DEF Dispose, Idle
    <3>2. /\ HalRecords' = Keep(HalRecords, Others(HalRecords, p))
          /\ lost' = lost \cup (Ids(HalRecords) \ Ids(HalRecords'))
      BY <1>1, <3>1, RecordsRemoved DEF TypesInv
    <3>3. Others(HalRecords, p) \in SUBSET (1..Len(HalRecords))
      BY DEF Others
    <3>4. QED
      BY <3>1, <3>2, <3>3
  <2>3. QED
    BY <2>1, <2>2
<1>3. PICK R \in SUBSET (1..Len(HalRecords)) :
        /\ HalRecords' = Keep(HalRecords, R)
        /\ lost' = lost \cup (Ids(HalRecords) \ Ids(HalRecords'))
  BY <1>2
<1> DEFINE A == Numbers(app)
           s == HalRecords
           s2 == HalRecords'
           h == running.id
           l == lost
           n == raised
<1>4. Waiting = A \o Numbers(s) /\ Waiting' = A \o Numbers(s2)
  BY <1>2 DEF Waiting, Numbers
<1>5. A \in Seq(Nat) /\ s \in Seq(Record) /\ Ordered(A \o Numbers(s), h, n)
      /\ R \in SUBSET (1..Len(s)) /\ s2 = Keep(s, R)
  BY <1>1, <1>3, <1>4
<1>6. /\ lost' = l \cup (Ids(s) \ Ids(s2))
      /\ running.id = h /\ running'.id = h /\ l = lost /\ raised' = raised
  BY <1>2, <1>3
<1> HIDE DEF A, s, s2, h, l, n
<1>7. Taken(A \o Numbers(s), h, l, A \o Numbers(Keep(s, R)), h,
            l \cup (Ids(s) \ Ids(Keep(s, R))))
  BY ONLY <1>5, BackTaken
<1>8. Taken(Waiting, running.id, lost, Waiting', running'.id, lost')
  BY ONLY <1>4, <1>5, <1>6, <1>7
<1>9. QED
  BY <1>6, <1>8, TakenStep
----------------------------------------------------------------------------
(* A record that is copied is in both queues until it is popped, but       *)
(* waits once.                                                             *)
LEMMA QueueCopying ==
  ASSUME TypesInv, AtHandInv, Ordered(Waiting, running.id, raised), CopyContext
  PROVE  [Queue!Next]_(Queue!vars) /\ Ordered(Waiting', running'.id, raised')
<1> DEFINE e == [id |-> copied, port |-> slots[rec].port]
<1>1. /\ pc = "copy_context" /\ pc' = "pop" /\ app' = Append(app, e)
      /\ UNCHANGED <<hal, running, raised, lost>>
  BY DEF CopyContext
<1>2. HalRecords' = HalRecords
  BY <1>1, SameRecords
<1>3. slots[rec] \in Record /\ copied \in 1..MaxRaised /\ app \in Seq(Record)
  BY <1>1, Parameters DEF TypesInv, TypeOK, Copying
<1>4. e \in Record /\ e.id = copied
  BY <1>3, RecordIs
<1> HIDE DEF e
<1>5. Numbers(app') = Append(Numbers(app), copied)
  BY <1>1, <1>3, <1>4, NumbersAppended
<1>6. /\ HalRecords \in Seq(Record) /\ HalRecords # <<>> /\ copied = HalRecords[1].id
  BY <1>1 DEF TypesInv, AtHandInv, Copying
<1> DEFINE A == Numbers(app)
           m == Numbers(HalRecords)
<1>7. A \in Seq(Nat) /\ m \in Seq(Nat) /\ m # <<>> /\ copied = m[1]
  <2>1. 1 \in 1..Len(HalRecords)
    BY <1>6
  <2>2. QED
    BY <1>3, <1>6, <2>1, NumbersTyped, NumbersOfTail
<1>8. Waiting = A \o m /\ Waiting' = Append(A, m[1]) \o Tail(m)
  <2>1. Waiting = A \o m
    BY <1>1 DEF Waiting
  <2>2. Waiting' = Numbers(app') \o Tail(Numbers(HalRecords))
    BY <1>1, <1>2 DEF Waiting, Numbers
  <2>3. QED
    BY <1>5, <1>7, <2>1, <2>2
<1> HIDE DEF A, m
<1>9. Append(A, m[1]) \o Tail(m) = A \o m
  BY ONLY <1>7, FirstOfSecond
<1>10. Waiting' = Waiting
  BY <1>8, <1>9
<1>11. QED
  BY <1>1, <1>10, SameStep

(* The record that is popped no longer waits in the HAL queue already.     *)
LEMMA QueuePop ==
  ASSUME TypesInv, AtHandInv, Ordered(Waiting, running.id, raised), PopTransferred
  PROVE  [Queue!Next]_(Queue!vars) /\ Ordered(Waiting', running'.id, raised')
<1>1. pc = "pop" /\ pc' = "peek" /\ UNCHANGED <<slots, writer, app, running, raised, lost>>
  BY DEF PopTransferred
<1>2. HalRecords \in Seq(Record) /\ HalRecords # <<>>
  BY <1>1 DEF TypesInv, AtHandInv, Copying
<1>3. HalRecords' = Tail(HalRecords)
  <2>1. reader' = After(reader) /\ full' = FALSE /\ slots' = slots /\ writer' = writer
    BY <1>1, <1>2 DEF PopTransferred
  <2>2. QED
    BY <1>2, <2>1, RecordPopped DEF TypesInv
<1>4. Numbers(Tail(HalRecords)) = Tail(Numbers(HalRecords))
  BY <1>2, NumbersOfTail
<1>5. Waiting = Numbers(app) \o Tail(Numbers(HalRecords))
  BY <1>1 DEF Waiting
<1>6. Waiting' = Numbers(app) \o Numbers(HalRecords')
  BY <1>1 DEF Waiting, Numbers
<1>7. Waiting' = Waiting
  BY <1>3, <1>4, <1>5, <1>6
<1>8. QED
  BY <1>1, <1>7, SameStep

(* Steps that EventQueue does not see.                                     *)
LEMMA QueueLocal ==
  ASSUME TypesInv, Ordered(Waiting, running.id, raised),
         \/ UNCHANGED vars \/ ProcessInterrupts \/ Peek \/ Allocate \/ CopyData
         \/ \E p \in Port : \/ Disposed(p) \/ EnableInterrupt(p)
                            \/ SetThreadSpawn(p) \/ DisableInterrupt(p)
  PROVE  [Queue!Next]_(Queue!vars) /\ Ordered(Waiting', running'.id, raised')
<1>1. UNCHANGED <<hal, app, running, raised, lost>> /\ (pc' = "pop" <=> pc = "pop")
  <2>1. CASE UNCHANGED vars
    BY <2>1 DEF vars
  <2>2. CASE ProcessInterrupts \/ Peek \/ Allocate \/ CopyData
    BY <2>2 DEF ProcessInterrupts, Peek, Allocate, CopyData
  <2>3. CASE \E p \in Port : \/ Disposed(p) \/ EnableInterrupt(p)
                             \/ SetThreadSpawn(p) \/ DisableInterrupt(p)
    BY <2>3 DEF Disposed, EnableInterrupt, SetThreadSpawn, DisableInterrupt, Idle
  <2>4. QED
    BY <2>1, <2>2, <2>3
<1>2. HalRecords' = HalRecords
  BY <1>1, SameRecords
<1>3. Waiting' = Waiting
  BY <1>1, <1>2 DEF Waiting, Numbers
<1>4. QED
  BY <1>1, <1>3, SameStep
----------------------------------------------------------------------------
(* The service routine: with room in the ring the event is put behind all  *)
(* that wait.  Without, no record is being copied, and the first of the    *)
(* HAL queue is lost, which is followed by QueueSize - 1 others.           *)
LEMMA QueueIsr ==
  ASSUME TypesInv, AtHandInv, Ordered(Waiting, running.id, raised),
         ~OverflowWhileCopying, NEW p \in Port, IsrProcedure(p)
  PROVE  Queue!Next /\ Ordered(Waiting', running'.id, raised')
<1> DEFINE e == [id |-> raised', port |-> p]
<1>1. /\ raised < MaxRaised /\ raised' = raised + 1 /\ SaveToHALQueue(e)
      /\ (Copying => ~full) /\ UNCHANGED <<app, pc, running>>
  BY DEF IsrProcedure
<1>2. raised \in 0..MaxRaised /\ MaxRaised \in Nat /\ TypeOK /\ HalRecords \in Seq(Record)
  BY Parameters DEF TypesInv, TypeOK
<1>3. e \in Record /\ e.id = raised' /\ raised' \in Nat
  <2>1. raised' \in 1..MaxRaised /\ raised' \in Nat
    BY <1>1, <1>2
  <2>2. QED
    BY <2>1, RecordIs
<1> HIDE DEF e
<1>4. /\ HalRecords' = IF full THEN Append(Tail(HalRecords), e) ELSE Append(HalRecords, e)
      /\ full => HalRecords # <<>>
      /\ lost' = IF full THEN lost \cup {HalRecords[1].id} ELSE lost
  BY <1>1, <1>2, <1>3, RecordSaved
<1> DEFINE A == Numbers(app)
           m == Numbers(HalRecords)
           B == Behind
           w == Waiting
           w2 == Waiting'
           x == raised'
           h == running.id
<1>5. A \in Seq(Nat) /\ B \in Seq(Nat) /\ m \in Seq(Nat) /\ w = A \o B
  BY <1>2, BehindTyped, NumbersTyped, WaitingIs
<1>6. Ordered(w, h, raised) /\ running'.id = h /\ x \in Nat /\ x = raised + 1
  BY <1>1, <1>3
<1>7. CASE ~full
  <2>1. Numbers(HalRecords') = Append(m, x)
    <3>1. HalRecords' = Append(HalRecords, e)
      BY <1>4, <1>7
    <3>2. QED
      BY <1>2, <1>3, <3>1, NumbersAppended
  <2>2. Behind' = Append(B, x)
    <3>1. Behind' = IF pc = "pop" THEN Tail(Numbers(HalRecords')) ELSE Numbers(HalRecords')
      BY <1>1 DEF Behind, Numbers
    <3>2. CASE pc = "pop"
      <4>1. m # <<>>
        BY <1>2, <3>2, NumbersOfTail DEF AtHandInv, Copying
      <4>2. B = Tail(m) /\ Behind' = Tail(Append(m, x))
        BY <2>1, <3>1, <3>2 DEF Behind
      <4> HIDE DEF m, x, B
      <4>3. Tail(Append(m, x)) = Append(Tail(m), x)
        BY ONLY <1>5, <1>6, <4>1, TailAppended
      <4>4. QED
        BY <4>2, <4>3
    <3>3. CASE pc # "pop"
      BY <2>1, <3>1, <3>3 DEF Behind
    <3>4. QED
      BY <3>2, <3>3
  <2>3. w2 = A \o Append(B, x)
    BY <1>1, <2>2, WaitingIs DEF Numbers
  <2> HIDE DEF A, B, w, w2, x, h
  <2>4. A \o Append(B, x) = Append(A \o B, x)
    BY ONLY <1>5, <1>6, ConcatAppended
  <2>5. w2 = Append(w, x)
    BY <1>5, <2>3, <2>4
  <2>6. Ordered(Append(w, raised + 1), h, raised + 1)
    BY ONLY <1>6, OrderedAdded
  <2>7. Queue!Raise
    BY <1>1, <1>4, <1>7, <2>5 DEF Queue!Raise, w, w2, x
  <2>8. Ordered(w2, h, x)
    BY <1>6, <2>5, <2>6
  <2>9. QED
    BY <1>6, <2>7, <2>8 DEF Queue!Next, w2, x
<1>8. CASE full
  <2>1. pc # "pop" /\ HalRecords # <<>> /\ m # <<>> /\ B = m
    BY <1>1, <1>2, <1>4, <1>8, NumbersOfTail DEF Copying, Behind
  <2>2. Len(m) = QueueSize /\ QueueSize \in Nat
    BY <1>2, <1>8, HalTyped, NumbersTyped, Parameters
  <2>3. Numbers(HalRecords') = Append(Tail(m), x)
    <3> DEFINE b == Tail(HalRecords)
    <3>1. HalRecords' = Append(b, e) /\ b \in Seq(Record) /\ Numbers(b) = Tail(m)
      BY <1>2, <1>4, <1>8, <2>1, NumbersOfTail, HeadTailProperties
    <3> HIDE DEF b, m
    <3>2. Numbers(Append(b, e)) = Append(Numbers(b), e.id)
      BY <1>3, <3>1, NumbersAppended
    <3>3. QED
      BY <1>3, <3>1, <3>2
  <2>4. w2 = A \o Append(Tail(m), x)
    <3>1. Behind' = Numbers(HalRecords')
      BY <1>1, <2>1 DEF Behind, Numbers
    <3>2. QED
      BY <1>1, <2>3, <3>1, WaitingIs DEF Numbers
  <2>5. lost' = lost \cup {m[1]}
    <3>1. 1 \in 1..Len(HalRecords)
      BY <1>2, <2>1
    <3>2. m[1] = HalRecords[1].id
      BY <1>2, <3>1, NumbersTyped
    <3>3. QED
      BY <1>4, <1>8, <3>2
  <2> DEFINE b == Tail(m)
             i == Len(A) + 1
  <2>6. b \in Seq(Nat)
    BY <1>5, <2>1, HeadTailProperties
  <2> HIDE DEF A, B, m, w, w2, x, h
  <2>7. /\ RemoveAt(A \o m, i) = A \o b /\ i \in 1..Len(A \o m) /\ (A \o m)[i] = m[1]
        /\ Len(A \o m) = Len(A) + Len(m)
    BY ONLY <1>5, <2>1, FirstOfSecond
  <2> HIDE DEF b
  <2>8. A \o Append(b, x) = Append(A \o b, x)
    <3>1. A \in Seq(Nat) /\ b \in Seq(Nat) /\ x \in Nat
      BY <1>5, <1>6, <2>6
    <3>2. QED
      BY ONLY <3>1, ConcatAppended
  <2>9. /\ w = A \o m /\ w2 = Append(RemoveAt(w, i), x) /\ i \in 1..Len(w) /\ w[i] = m[1]
        /\ Len(w) = Len(A) + QueueSize
    BY <1>5, <2>1, <2>2, <2>4, <2>7, <2>8 DEF b
  <2>10. Len(w) >= QueueSize /\ Len(w) - QueueSize + 1 = i
    <3>1. Len(A) \in Nat
      BY <1>5
    <3>2. QED
      BY <2>2, <2>9, <3>1
  <2> HIDE DEF i
  <2>11. Queue!RemoveAt(w, i) = RemoveAt(w, i)
    BY DEF Queue!RemoveAt, RemoveAt
  <2>12. Queue!RaiseOverOldest
    BY <1>1, <2>5, <2>9, <2>10, <2>11 DEF Queue!RaiseOverOldest, w, w2, x
  <2>13. Ordered(RemoveAt(w, i), h, raised)
    <3> DEFINE P == (1..Len(w)) \ {i}
    <3>1. w \in Seq(Nat) /\ P \in SUBSET (1..Len(w)) /\ h \in Nat /\ h <= raised
          /\ \A j \in P : h < w[j]
      BY <1>6 DEF Ordered
    <3>2. RemoveAt(w, i) = Keep(w, P)
      BY <2>9, <3>1, KeepBut
    <3> HIDE DEF P
    <3>3. Ordered(Keep(w, P), h, raised)
      BY ONLY <1>6, <3>1, OrderedKept
    <3>4. QED
      BY <3>2, <3>3
  <2>14. Ordered(w2, h, x)
    <3> DEFINE r == RemoveAt(w, i)
    <3>1. Ordered(r, h, raised) /\ w2 = Append(r, x)
      BY <2>9, <2>13
    <3> HIDE DEF r
    <3>2. Ordered(Append(r, raised + 1), h, raised + 1)
      BY ONLY <3>1, OrderedAdded
    <3>3. QED
      BY <1>6, <3>1, <3>2
  <2>15. QED
    BY <1>6, <2>12, <2>14 DEF Queue!Next, w2, x
<1>9. QED
  BY <1>7, <1>8 DEF TypeOK
----------------------------------------------------------------------------
(* Every step is one of EventQueue or changes nothing of it.               *)
LEMMA QueueStep ==
  ASSUME ~OverflowWhileCopying, TypesInv, AtHandInv,
         Ordered(Waiting, running.id, raised), [Next]_vars
  PROVE  [Queue!Next]_(Queue!vars) /\ Ordered(Waiting', running'.id, raised')
<1>1. CASE \E p \in Port : IsrProcedure(p)
  BY <1>1, QueueIsr
<1>2. CASE Finish \/ SpawnDispatcher \/ \E p \in Port : Release(p)
  BY <1>2, QueueDispatching
<1>3. CASE OutOfMemory \/ \E p \in Port : Dispose(p)
  BY <1>3, QueueRemoving
<1>4. CASE CopyContext
  BY <1>4, QueueCopying
<1>5. CASE PopTransferred
  BY <1>5, QueuePop
<1>6. CASE \/ UNCHANGED vars \/ ProcessInterrupts \/ Peek \/ Allocate \/ CopyData
           \/ \E p \in Port : \/ Disposed(p) \/ EnableInterrupt(p)
                              \/ SetThreadSpawn(p) \/ DisableInterrupt(p)
  BY <1>6, QueueLocal
<1>7. QED
  BY <1>1, <1>2, <1>3, <1>4, <1>5, <1>6 DEF Next, Transfer, Managed

(* At the start no event waits.                                            *)
LEMMA QueueInit == Init => Queue!Init /\ Ordered(Waiting, running.id, raised)
<1> SUFFICES ASSUME Init PROVE Queue!Init /\ Ordered(Waiting, running.id, raised)
  OBVIOUS
<1>1. TypesInv
  BY TypesInit
<1>2. HalRecords = <<>>
  <2>1. RingTyped(slots, writer, reader, full)
    BY <1>1, HalTyped DEF TypesInv
  <2>2. full \in BOOLEAN /\ ~full /\ reader = writer
    BY DEF Init
  <2>3. RingSeq(slots, writer, writer, full) = <<>>
    BY ONLY <2>1, <2>2, RingEmptied
  <2>4. QED
    BY <2>2, <2>3, RingIs
<1>3. Waiting = <<>>
  <2>1. Numbers(<<>>) \in Seq(Nat) /\ Len(Numbers(<<>>)) = 0
    <3>1. <<>> \in Seq(Record) /\ Len(<<>>) = 0
      OBVIOUS
    <3>2. QED
      BY <3>1, NumbersTyped
  <2>2. Numbers(<<>>) = <<>>
    BY <2>1
  <2>3. Waiting = Numbers(<<>>) \o Numbers(<<>>)
    BY <1>2 DEF Waiting, Init
  <2>4. QED
    BY <2>2, <2>3
<1>4. running.id = 0 /\ raised = 0 /\ lost = {}
  BY DEF Init, NoRecord
<1>5. QED
  BY <1>3, <1>4 DEF Queue!Init, Ordered

(* Along every behaviour, those that wait are in their order.              *)
QueueInv == TypesInv /\ AtHandInv /\ Ordered(Waiting, running.id, raised)

(* The invariant holds along every behaviour in which the queue does not   *)
(* get full while a record is copied.                                      *)
LEMMA QueueAlways ==
  ASSUME ~OverflowWhileCopying
  PROVE  Spec => []QueueInv
<1>1. Spec => []TypesInv
  BY TypesAlways
<1>2. Init /\ TypesInv => QueueInv
  BY AtHandInit, QueueInit DEF QueueInv
<1>3. QueueInv /\ TypesInv' /\ [Next]_vars => QueueInv'
  <2>1. SUFFICES ASSUME QueueInv, TypesInv', [Next]_vars PROVE QueueInv'
    OBVIOUS
  <2>2. AtHandInv'
    BY <2>1, AtHandStep DEF QueueInv
  <2>3. Ordered(Waiting', running'.id, raised')
    BY <2>1, QueueStep DEF QueueInv
  <2>4. QED
    BY <2>1, <2>2, <2>3 DEF QueueInv, Ordered
<1>4. QED
  BY <1>1, <1>2, <1>3, PTL DEF Spec

(* Interrupts are handled in their order, each at most once, none vanishes *)
(* and the full queue loses its oldest: the ring of the HAL, the transfer  *)
(* and the dispatching together implement EventQueue.                      *)
THEOREM ImplementsEventQueue ==
  ASSUME ~OverflowWhileCopying
  PROVE  Spec => ImplementsQueue
<1>1. Spec => []QueueInv
  BY QueueAlways
<1>2. Init => Queue!Init
  BY QueueInit
<1>3. QueueInv /\ [Next]_vars => [Queue!Next]_(Queue!vars)
  BY QueueStep DEF QueueInv
<1>4. QED
  BY <1>1, <1>2, <1>3, PTL DEF Spec, ImplementsQueue, Queue!Spec

(* The interrupts that wait are different ones, in their order, so what    *)
(* makes room in the full queue is its oldest record.                      *)
THEOREM InterruptsInOrder ==
  ASSUME ~OverflowWhileCopying
  PROVE  Spec => []InOrder
<1>1. Spec => []QueueInv
  BY QueueAlways
<1>2. QueueInv => InOrder
  BY DEF QueueInv, Ordered, InOrder
<1>3. QED
  BY <1>1, <1>2, PTL
=============================================================================
