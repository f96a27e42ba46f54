------------------------ MODULE DblLinkedListProofs ------------------------
(***************************************************************************)
(* What the list operations return and preserve, for lists of any length   *)
(* over any set of nodes.                                                  *)
(***************************************************************************)
EXTENDS DblLinkedList, TLAPS, SequenceTheorems, WellFoundedInduction, FiniteSetTheorems

(* A set of positions that is not empty has a least one. *)
LEMMA LeastPosition ==
  ASSUME NEW P \in SUBSET Nat, P # {}
  PROVE  \E m \in P : \A i \in P : m <= i
<1>1. IsWellFoundedOn(OpToRel(<, Nat), Nat)
  BY NatLessThanWellFounded
<1>2. PICK m \in P : \A i \in P : ~(<<i, m>> \in OpToRel(<, Nat))
  BY <1>1, WFMin
<1>3. \A i \in P : ~(i < m)
  BY <1>2 DEF OpToRel
<1>4. QED
  BY <1>3

(* A node put in front of a list. *)
LEMMA FrontProperties ==
  ASSUME NEW T, NEW s \in Seq(T), NEW e \in T
  PROVE  /\ <<e>> \o s \in Seq(T)
         /\ Len(<<e>> \o s) = Len(s) + 1
         /\ Head(<<e>> \o s) = e
         /\ <<e>> \o s # <<>>
         /\ (<<e>> \o s)[1] = e
         /\ \A i \in 2 .. Len(s) + 1 : (<<e>> \o s)[i] = s[i - 1]
<1>1. <<e>> \in Seq(T) /\ Len(<<e>>) = 1 /\ <<e>>[1] = e
  OBVIOUS
<1>2. /\ <<e>> \o s \in Seq(T)
      /\ Len(<<e>> \o s) = 1 + Len(s)
      /\ \A i \in 1 .. 1 + Len(s) :
           (<<e>> \o s)[i] = IF i <= 1 THEN <<e>>[i] ELSE s[i - 1]
  BY <1>1, ConcatProperties
<1>3. Len(s) \in Nat
  OBVIOUS
<1>4. (<<e>> \o s)[1] = e
  BY <1>1, <1>2, <1>3
<1>5. \A i \in 2 .. Len(s) + 1 : (<<e>> \o s)[i] = s[i - 1]
  BY <1>2, <1>3
<1>6. <<e>> \o s # <<>>
  BY <1>2, <1>3
<1>7. Head(<<e>> \o s) = e
  BY <1>2, <1>4, <1>6
<1>8. QED
  BY <1>2, <1>3, <1>4, <1>5, <1>6, <1>7

LEMMA FrontNodes ==
  ASSUME NEW T, NEW s \in Seq(T), NEW e \in T
  PROVE  Nodes(<<e>> \o s) = Nodes(s) \cup {e}
<1> DEFINE r == <<e>> \o s
<1>1. /\ Len(r) = Len(s) + 1 /\ r[1] = e
      /\ \A i \in 2 .. Len(s) + 1 : r[i] = s[i - 1]
  BY FrontProperties
<1> HIDE DEF r
<1>2. Len(s) \in Nat
  OBVIOUS
<1>3. ASSUME NEW x \in Nodes(r) PROVE x \in Nodes(s) \cup {e}
  <2>1. PICK i \in 1 .. Len(s) + 1 : x = r[i]
    BY <1>1 DEF Nodes
  <2>2. i = 1 \/ (i \in 2 .. Len(s) + 1 /\ i - 1 \in 1 .. Len(s))
    BY <1>2
  <2>3. QED
    BY <1>1, <2>1, <2>2 DEF Nodes
<1>4. ASSUME NEW x \in Nodes(s) PROVE x \in Nodes(r)
  <2>1. PICK i \in 1 .. Len(s) : x = s[i]
    BY DEF Nodes
  <2>2. i + 1 \in 2 .. Len(s) + 1 /\ i + 1 - 1 = i
    BY <1>2
  <2>3. r[i + 1] = x
    BY <1>1, <2>1, <2>2
  <2>4. QED
    BY <1>1, <1>2, <2>2, <2>3 DEF Nodes
<1>5. e \in Nodes(r)
  BY <1>1, <1>2 DEF Nodes
<1>6. QED
  BY <1>3, <1>4, <1>5 DEF r

(* InsertBeforeNode: the new node takes its place, the others keep theirs  *)
(* or move one on.                                                         *)
LEMMA InsertProperties ==
  ASSUME NEW T, NEW s \in Seq(T), NEW e \in T, NEW p \in 1 .. Len(s) + 1
  PROVE  /\ InsertBefore(s, p, e) \in Seq(T)
         /\ Len(InsertBefore(s, p, e)) = Len(s) + 1
         /\ \A i \in 1 .. Len(s) + 1 :
              InsertBefore(s, p, e)[i] =
                IF i < p THEN s[i] ELSE IF i = p THEN e ELSE s[i - 1]
<1> DEFINE a == SubSeq(s, 1, p - 1)
           b == SubSeq(s, p, Len(s))
           ae == a \o <<e>>
<1>1. Len(s) \in Nat /\ p \in Int /\ p - 1 \in Int
  OBVIOUS
<1>2. \A i \in 1 .. Len(s) : s[i] \in T
  BY ElementOfSeq
<1>3. /\ a \in Seq(T) /\ Len(a) = p - 1
      /\ \A i \in 1 .. p - 1 : a[i] = s[i]
  <2>1. \A i \in 1 .. p - 1 : s[i] \in T
    BY <1>1, <1>2
  <2>2. /\ a \in Seq(T)
        /\ Len(a) = IF 1 <= p - 1 THEN p - 1 - 1 + 1 ELSE 0
        /\ \A i \in 1 .. p - 1 - 1 + 1 : a[i] = s[1 + i - 1]
    BY <1>1, <2>1, SubSeqProperties
  <2>3. QED
    BY <1>1, <2>2
<1>4. /\ b \in Seq(T) /\ Len(b) = Len(s) - p + 1
      /\ \A i \in 1 .. Len(s) - p + 1 : b[i] = s[p + i - 1]
  <2>1. \A i \in p .. Len(s) : s[i] \in T
    BY <1>1, <1>2
  <2>2. /\ b \in Seq(T)
        /\ Len(b) = IF p <= Len(s) THEN Len(s) - p + 1 ELSE 0
        /\ \A i \in 1 .. Len(s) - p + 1 : b[i] = s[p + i - 1]
    BY <1>1, <2>1, SubSeqProperties
  <2>3. QED
    BY <1>1, <2>2
<1>5. /\ ae \in Seq(T) /\ Len(ae) = p
      /\ \A i \in 1 .. p : ae[i] = IF i <= p - 1 THEN a[i] ELSE e
  <2>1. <<e>> \in Seq(T) /\ Len(<<e>>) = 1 /\ <<e>>[1] = e
    OBVIOUS
  <2>2. /\ ae \in Seq(T)
        /\ Len(ae) = Len(a) + 1
        /\ \A i \in 1 .. Len(a) + 1 :
             ae[i] = IF i <= Len(a) THEN a[i] ELSE <<e>>[i - Len(a)]
    BY <1>3, <2>1, ConcatProperties
  <2> HIDE DEF a, ae
  <2>3. Len(ae) = p
    BY <1>1, <1>3, <2>2
  <2>4. ASSUME NEW i \in 1 .. p
        PROVE  ae[i] = IF i <= p - 1 THEN a[i] ELSE e
    <3>1. ae[i] = IF i <= p - 1 THEN a[i] ELSE <<e>>[i - (p - 1)]
      BY <1>1, <1>3, <2>2, <2>3
    <3>2. i > p - 1 => i - (p - 1) = 1
      BY <1>1
    <3>3. QED
      BY <1>1, <2>1, <3>1, <3>2
  <2>5. QED
    BY <2>2, <2>3, <2>4
<1>6. InsertBefore(s, p, e) = ae \o b
  BY DEF InsertBefore, InsertAt
<1>7. /\ ae \o b \in Seq(T)
      /\ Len(ae \o b) = Len(ae) + Len(b)
      /\ \A i \in 1 .. Len(ae) + Len(b) :
           (ae \o b)[i] = IF i <= Len(ae) THEN ae[i] ELSE b[i - Len(ae)]
  <2> HIDE DEF a, b, ae
  <2>1. ae \in Seq(T) /\ b \in Seq(T)
    BY <1>4, <1>5
  <2>2. QED
    BY <2>1, ConcatProperties
<1> HIDE DEF a, b, ae
<1>8. Len(ae) + Len(b) = Len(s) + 1
  BY <1>1, <1>4, <1>5
<1>9. ASSUME NEW i \in 1 .. Len(s) + 1
      PROVE  (ae \o b)[i] = IF i < p THEN s[i] ELSE IF i = p THEN e ELSE s[i - 1]
  <2>1. CASE i < p
    <3>1. i \in 1 .. Len(ae) + Len(b) /\ i \in 1 .. p /\ i <= Len(ae) /\ i \in 1 .. p - 1
      BY <1>1, <1>5, <1>8, <2>1
    <3>2. (ae \o b)[i] = ae[i] /\ ae[i] = a[i] /\ a[i] = s[i]
      BY <1>3, <1>5, <1>7, <3>1
    <3>3. QED
      BY <2>1, <3>2
  <2>2. CASE i = p
    <3>1. i \in 1 .. Len(ae) + Len(b) /\ i \in 1 .. p /\ i <= Len(ae) /\ ~(i <= p - 1)
      BY <1>1, <1>5, <1>8, <2>2
    <3>2. (ae \o b)[i] = ae[i] /\ ae[i] = e
      BY <1>5, <1>7, <3>1
    <3>3. QED
      BY <2>2, <3>2
  <2>3. CASE i > p
    <3>1. /\ i \in 1 .. Len(ae) + Len(b) /\ ~(i <= Len(ae)) /\ Len(ae) = p
          /\ i - p \in 1 .. Len(s) - p + 1 /\ p + (i - p) - 1 = i - 1
      BY <1>1, <1>5, <1>8, <2>3
    <3>2. (ae \o b)[i] = b[i - p] /\ b[i - p] = s[p + (i - p) - 1]
      BY <1>4, <1>7, <3>1
    <3>3. ~(i < p) /\ i # p
      BY <1>1, <2>3
    <3>4. QED
      BY <3>1, <3>2, <3>3
  <2>4. i \in Int /\ (i < p \/ i = p \/ i > p)
    BY <1>1
  <2>5. QED
    BY <2>1, <2>2, <2>3, <2>4
<1>10. QED
  BY <1>6, <1>7, <1>8, <1>9

(* Unlink of the node at place p: its successors move one place back.      *)
LEMMA RemoveProperties ==
  ASSUME NEW T, NEW s \in Seq(T), NEW p \in 1 .. Len(s)
  PROVE  /\ RemoveAt(s, p) \in Seq(T)
         /\ Len(RemoveAt(s, p)) = Len(s) - 1
         /\ \A i \in 1 .. Len(s) - 1 :
              RemoveAt(s, p)[i] = IF i < p THEN s[i] ELSE s[i + 1]
<1> DEFINE a == SubSeq(s, 1, p - 1)
           b == SubSeq(s, p + 1, Len(s))
<1>1. Len(s) \in Nat /\ p \in Int /\ p - 1 \in Int /\ p + 1 \in Int
  OBVIOUS
<1>2. \A i \in 1 .. Len(s) : s[i] \in T
  BY ElementOfSeq
<1>3. /\ a \in Seq(T) /\ Len(a) = p - 1
      /\ \A i \in 1 .. p - 1 : a[i] = s[i]
  <2>1. \A i \in 1 .. p - 1 : s[i] \in T
    BY <1>1, <1>2
  <2>2. /\ a \in Seq(T)
        /\ Len(a) = IF 1 <= p - 1 THEN p - 1 - 1 + 1 ELSE 0
        /\ \A i \in 1 .. p - 1 - 1 + 1 : a[i] = s[1 + i - 1]
    BY <1>1, <2>1, SubSeqProperties
  <2>3. QED
    BY <1>1, <2>2
<1>4. /\ b \in Seq(T) /\ Len(b) = Len(s) - p
      /\ \A i \in 1 .. Len(s) - p : b[i] = s[p + i]
  <2>1. \A i \in p + 1 .. Len(s) : s[i] \in T
    BY <1>1, <1>2
  <2>2. /\ b \in Seq(T)
        /\ Len(b) = IF p + 1 <= Len(s) THEN Len(s) - (p + 1) + 1 ELSE 0
        /\ \A i \in 1 .. Len(s) - (p + 1) + 1 : b[i] = s[p + 1 + i - 1]
    BY <1>1, <2>1, SubSeqProperties
  <2>3. QED
    BY <1>1, <2>2
<1>5. RemoveAt(s, p) = a \o b
  BY DEF RemoveAt
<1>6. /\ a \o b \in Seq(T)
      /\ Len(a \o b) = Len(a) + Len(b)
      /\ \A i \in 1 .. Len(a) + Len(b) :
           (a \o b)[i] = IF i <= Len(a) THEN a[i] ELSE b[i - Len(a)]
  BY <1>3, <1>4, ConcatProperties
<1> HIDE DEF a, b
<1>7. Len(a) + Len(b) = Len(s) - 1
  BY <1>1, <1>3, <1>4
<1>8. ASSUME NEW i \in 1 .. Len(s) - 1
      PROVE  (a \o b)[i] = IF i < p THEN s[i] ELSE s[i + 1]
  <2>1. CASE i < p
    BY <1>1, <1>3, <1>6, <1>7, <2>1
  <2>2. CASE i >= p
    <3>1. (a \o b)[i] = b[i - (p - 1)] /\ i - (p - 1) \in 1 .. Len(s) - p
      BY <1>1, <1>3, <1>6, <1>7, <2>2
    <3>2. b[i - (p - 1)] = s[p + (i - (p - 1))]
      BY <1>4, <3>1
    <3>3. p + (i - (p - 1)) = i + 1
      BY <1>1
    <3>4. QED
      BY <1>1, <2>2, <3>1, <3>2, <3>3
  <2>3. i \in Int /\ (i < p \/ i >= p)
    BY <1>1
  <2>4. QED
    BY <2>1, <2>2, <2>3
<1>9. QED
  BY <1>5, <1>6, <1>7, <1>8

(* Unlink takes the node out and keeps the others, in their order. *)
LEMMA UnlinkNodes ==
  ASSUME NEW T, NEW s \in Seq(T), NEW e, Distinct(s)
  PROVE  /\ Unlink(s, e) \in Seq(T)
         /\ Nodes(Unlink(s, e)) = Nodes(s) \ {e}
         /\ Distinct(Unlink(s, e))
<1>1. CASE e \notin Nodes(s)
  <2>1. Unlink(s, e) = s
    BY <1>1 DEF Unlink
  <2>2. QED
    BY <1>1, <2>1
<1>2. CASE e \in Nodes(s)
  <2> DEFINE p == PosOf(s, e)
             r == RemoveAt(s, p)
  <2>1. p \in 1 .. Len(s) /\ s[p] = e
    BY <1>2 DEF Nodes, PosOf
  <2>2. Unlink(s, e) = r
    BY <1>2 DEF Unlink
  <2>3. /\ r \in Seq(T) /\ Len(r) = Len(s) - 1
        /\ \A i \in 1 .. Len(s) - 1 : r[i] = IF i < p THEN s[i] ELSE s[i + 1]
    BY <2>1, RemoveProperties
  <2> HIDE DEF p, r
  <2>4. Len(s) \in Nat /\ p \in Int
    BY <2>1
  <2>5. ASSUME NEW x \in Nodes(r) PROVE x \in Nodes(s) \ {e}
    <3>1. PICK i \in 1 .. Len(s) - 1 : x = r[i]
      BY <2>3 DEF Nodes
    <3>2. PICK k \in 1 .. Len(s) : x = s[k] /\ k # p
      <4>1. CASE i < p
        BY <2>3, <2>4, <3>1, <4>1
      <4>2. CASE ~(i < p)
        BY <2>3, <2>4, <3>1, <4>2
      <4>3. QED
        BY <4>1, <4>2
    <3>3. x # e
      BY <2>1, <3>2 DEF Distinct
    <3>4. QED
      BY <3>2, <3>3 DEF Nodes
  <2>6. ASSUME NEW x \in Nodes(s) \ {e} PROVE x \in Nodes(r)
    <3>1. PICK k \in 1 .. Len(s) : x = s[k]
      BY DEF Nodes
    <3>2. k # p
      BY <2>1, <3>1
    <3>3. CASE k < p
      <4>1. k \in 1 .. Len(s) - 1 /\ r[k] = x
        BY <2>1, <2>3, <2>4, <3>1, <3>3
      <4>2. QED
        BY <2>3, <4>1 DEF Nodes
    <3>4. CASE k > p
      <4>1. k - 1 \in 1 .. Len(s) - 1 /\ ~(k - 1 < p) /\ k - 1 + 1 = k
        BY <2>1, <2>4, <3>4
      <4>2. r[k - 1] = x
        BY <2>3, <3>1, <4>1
      <4>3. QED
        BY <2>3, <4>1, <4>2 DEF Nodes
    <3>5. QED
      BY <2>4, <3>2, <3>3, <3>4
  <2>7. Distinct(r)
    <3> SUFFICES ASSUME NEW i \in 1 .. Len(s) - 1, NEW j \in 1 .. Len(s) - 1,
                        r[i] = r[j]
                 PROVE  i = j
      BY <2>3 DEF Distinct
    <3> DEFINE f(k) == IF k < p THEN k ELSE k + 1
    <3>1. f(i) \in 1 .. Len(s) /\ f(j) \in 1 .. Len(s)
      BY <2>4
    <3>2. s[f(i)] = s[f(j)]
      BY <2>3
    <3>3. f(i) = f(j)
      BY <3>1, <3>2 DEF Distinct
    <3>4. QED
      BY <2>4, <3>3
  <2>8. QED
    BY <2>2, <2>3, <2>5, <2>6, <2>7
<1>3. QED
  BY <1>1, <1>2
(* The order of the keys survives Unlink ... *)
LEMMA UnlinkOrdered ==
  ASSUME NEW T, NEW s \in Seq(T), NEW e, NEW key \in [T -> Nat],
         OrderedBy(s, key)
  PROVE  OrderedBy(Unlink(s, e), key)
<1>1. CASE e \notin Nodes(s)
  BY <1>1 DEF Unlink
<1>2. CASE e \in Nodes(s)
  <2> DEFINE p == PosOf(s, e)
             r == RemoveAt(s, p)
  <2>1. p \in 1 .. Len(s)
    BY <1>2 DEF Nodes, PosOf
  <2>2. Unlink(s, e) = r
    BY <1>2 DEF Unlink
  <2>3. /\ r \in Seq(T) /\ Len(r) = Len(s) - 1
        /\ \A i \in 1 .. Len(s) - 1 : r[i] = IF i < p THEN s[i] ELSE s[i + 1]
    BY <2>1, RemoveProperties
  <2> HIDE DEF p, r
  <2>4. Len(s) \in Nat /\ p \in Int
    BY <2>1
  <2>5. ASSUME NEW i \in 1 .. Len(s) - 1, NEW j \in 1 .. Len(s) - 1, i < j
        PROVE  key[r[i]] <= key[r[j]]
    <3> DEFINE f(k) == IF k < p THEN k ELSE k + 1
    <3>1. f(i) \in 1 .. Len(s) /\ f(j) \in 1 .. Len(s) /\ f(i) < f(j)
      BY <2>4, <2>5
    <3>2. r[i] = s[f(i)] /\ r[j] = s[f(j)]
      BY <2>3
    <3>3. QED
      BY <3>1, <3>2 DEF OrderedBy
  <2>6. QED
    BY <2>2, <2>3, <2>5 DEF OrderedBy
<1>3. QED
  BY <1>1, <1>2

(* ... and the first node of what remains was there before. *)
LEMMA UnlinkHead ==
  ASSUME NEW T, NEW s \in Seq(T), s # <<>>, NEW e, Distinct(s), Head(s) # e
  PROVE  Unlink(s, e) # <<>> /\ Head(Unlink(s, e)) = Head(s)
<1>1. CASE e \notin Nodes(s)
  BY <1>1 DEF Unlink
<1>2. CASE e \in Nodes(s)
  <2> DEFINE p == PosOf(s, e)
             r == RemoveAt(s, p)
  <2>1. p \in 1 .. Len(s) /\ s[p] = e
    BY <1>2 DEF Nodes, PosOf
  <2>2. Unlink(s, e) = r
    BY <1>2 DEF Unlink
  <2>3. /\ r \in Seq(T) /\ Len(r) = Len(s) - 1
        /\ \A i \in 1 .. Len(s) - 1 : r[i] = IF i < p THEN s[i] ELSE s[i + 1]
    BY <2>1, RemoveProperties
  <2> HIDE DEF p, r
  <2>4. Len(s) \in Nat /\ p \in Int /\ p # 1 /\ Head(s) = s[1]
    BY <2>1
  <2>5. 1 \in 1 .. Len(s) - 1 /\ 1 < p
    BY <2>1, <2>4
  <2>6. r[1] = s[1] /\ r # <<>>
    BY <2>3, <2>5
  <2>7. QED
    BY <2>2, <2>3, <2>4, <2>6
<1>3. QED
  BY <1>1, <1>2

LEMMA UnlinkFirst ==
  ASSUME NEW T, NEW s \in Seq(T), s # <<>>, Distinct(s)
  PROVE  Unlink(s, Head(s)) = Tail(s)
<1> DEFINE p == PosOf(s, Head(s))
           r == RemoveAt(s, p)
<1>1. Len(s) \in Nat \ {0} /\ 1 \in 1 .. Len(s) /\ Head(s) = s[1]
  OBVIOUS
<1>2. Head(s) \in Nodes(s)
  BY <1>1 DEF Nodes
<1>3. p \in 1 .. Len(s) /\ s[p] = s[1]
  BY <1>1, <1>2 DEF PosOf, Nodes
<1>4. p = 1
  BY <1>1, <1>3 DEF Distinct
<1>5. Unlink(s, Head(s)) = r
  BY <1>2 DEF Unlink
<1>6. /\ r \in Seq(T) /\ Len(r) = Len(s) - 1
      /\ \A i \in 1 .. Len(s) - 1 : r[i] = IF i < p THEN s[i] ELSE s[i + 1]
  BY <1>3, RemoveProperties
<1>7. /\ Tail(s) \in Seq(T) /\ Len(Tail(s)) = Len(s) - 1
      /\ \A i \in 1 .. Len(s) - 1 : Tail(s)[i] = s[i + 1]
  BY HeadTailProperties
<1> HIDE DEF p, r
<1>8. \A i \in 1 .. Len(r) : r[i] = Tail(s)[i]
  BY <1>1, <1>4, <1>6, <1>7
<1>9. r = Tail(s)
  BY <1>6, <1>7, <1>8, SeqEqual
<1>10. QED
  BY <1>5, <1>9

(* InsertBeforeNode adds the new node and nothing else. *)
LEMMA InsertNodes ==
  ASSUME NEW T, NEW s \in Seq(T), NEW e \in T, NEW p \in 1 .. Len(s) + 1,
         Distinct(s), e \notin Nodes(s)
  PROVE  /\ Nodes(InsertBefore(s, p, e)) = Nodes(s) \cup {e}
         /\ Distinct(InsertBefore(s, p, e))
<1> DEFINE r == InsertBefore(s, p, e)
<1>1. /\ r \in Seq(T) /\ Len(r) = Len(s) + 1
      /\ \A i \in 1 .. Len(s) + 1 :
           r[i] = IF i < p THEN s[i] ELSE IF i = p THEN e ELSE s[i - 1]
  BY InsertProperties
<1> HIDE DEF r
<1>2. Len(s) \in Nat /\ p \in Int
  OBVIOUS
<1>3. ASSUME NEW x \in Nodes(r) PROVE x \in Nodes(s) \cup {e}
  <2>1. PICK i \in 1 .. Len(s) + 1 : x = r[i]
    BY <1>1 DEF Nodes
  <2>2. CASE i < p
    <3>1. i \in 1 .. Len(s)
      BY <1>2, <2>2
    <3>2. x = s[i]
      BY <1>1, <2>1, <2>2
    <3>3. QED
      BY <3>1, <3>2 DEF Nodes
  <2>3. CASE i = p
    BY <1>1, <1>2, <2>1, <2>3
  <2>4. CASE i > p
    <3>1. i - 1 \in 1 .. Len(s) /\ x = s[i - 1]
      BY <1>1, <1>2, <2>1, <2>4
    <3>2. QED
      BY <3>1 DEF Nodes
  <2>5. QED
    BY <1>2, <2>2, <2>3, <2>4
<1>4. ASSUME NEW x \in Nodes(s) \cup {e} PROVE x \in Nodes(r)
  <2>1. CASE x = e
    BY <1>1, <1>2, <2>1 DEF Nodes
  <2>2. CASE x \in Nodes(s)
    <3>1. PICK k \in 1 .. Len(s) : x = s[k]
      BY <2>2 DEF Nodes
    <3>2. CASE k < p
      BY <1>1, <1>2, <3>1, <3>2 DEF Nodes
    <3>3. CASE k >= p
      <4>1. k + 1 \in 1 .. Len(s) + 1 /\ k + 1 > p /\ k + 1 - 1 = k
        BY <1>2, <3>3
      <4>2. r[k + 1] = x
        BY <1>1, <1>2, <3>1, <4>1
      <4>3. QED
        BY <1>1, <4>1, <4>2 DEF Nodes
    <3>4. QED
      BY <1>2, <3>2, <3>3
  <2>3. QED
    BY <2>1, <2>2
<1>5. Distinct(r)
  <2> SUFFICES ASSUME NEW i \in 1 .. Len(s) + 1, NEW j \in 1 .. Len(s) + 1,
                      r[i] = r[j]
               PROVE  i = j
    BY <1>1 DEF Distinct
  <2> DEFINE f(k) == IF k < p THEN k ELSE k - 1
  <2>1. \A k \in 1 .. Len(s) + 1 : k # p => f(k) \in 1 .. Len(s) /\ r[k] = s[f(k)]
    BY <1>1, <1>2
  <2>2. \A k \in 1 .. Len(s) + 1 : k # p => r[k] # e
    BY <2>1 DEF Nodes
  <2>3. r[p] = e
    BY <1>1, <1>2
  <2>4. CASE i # p /\ j # p
    <3>1. s[f(i)] = s[f(j)] /\ f(i) \in 1 .. Len(s) /\ f(j) \in 1 .. Len(s)
      BY <2>1, <2>4
    <3>2. f(i) = f(j)
      BY <3>1 DEF Distinct
    <3>3. QED
      BY <1>2, <2>4, <3>2
  <2>5. QED
    BY <2>2, <2>3, <2>4
<1>6. QED
  BY <1>3, <1>4, <1>5 DEF r

(* Inserting a node before the first one with a greater key keeps the order. *)
LEMMA InsertOrdered ==
  ASSUME NEW T, NEW s \in Seq(T), NEW e \in T, NEW p \in 1 .. Len(s) + 1,
         NEW key \in [T -> Nat], OrderedBy(s, key),
         \A i \in 1 .. p - 1 : key[s[i]] <= key[e],
         p <= Len(s) => key[e] < key[s[p]]
  PROVE  OrderedBy(InsertBefore(s, p, e), key)
<1> DEFINE r == InsertBefore(s, p, e)
<1>1. /\ r \in Seq(T) /\ Len(r) = Len(s) + 1
      /\ \A i \in 1 .. Len(s) + 1 :
           r[i] = IF i < p THEN s[i] ELSE IF i = p THEN e ELSE s[i - 1]
  BY InsertProperties
<1> HIDE DEF r
<1>2. Len(s) \in Nat /\ p \in Int
  OBVIOUS
<1>3. \A i \in 1 .. Len(s) : s[i] \in T
  BY ElementOfSeq
<1>4. \A i \in 1 .. Len(s) : key[s[i]] \in Nat
  BY <1>3
<1>5. key[e] \in Nat
  OBVIOUS
<1>6. \A i \in p .. Len(s) : key[e] <= key[s[i]]
  <2> SUFFICES ASSUME NEW i \in p .. Len(s) PROVE key[e] <= key[s[i]]
    OBVIOUS
  <2>1. p \in 1 .. Len(s) /\ i \in 1 .. Len(s) /\ key[e] < key[s[p]]
    BY <1>2
  <2>2. i = p \/ p < i
    BY <1>2
  <2>3. key[s[p]] <= key[s[i]]
    BY <1>4, <2>1, <2>2 DEF OrderedBy
  <2>4. QED
    BY <1>4, <1>5, <2>1, <2>3
<1>7. ASSUME NEW i \in 1 .. Len(s) + 1, NEW j \in 1 .. Len(s) + 1, i < j
      PROVE  key[r[i]] <= key[r[j]]
  <2> DEFINE f(k) == IF k < p THEN k ELSE k - 1
  <2>1. \A k \in 1 .. Len(s) + 1 : k # p => f(k) \in 1 .. Len(s) /\ r[k] = s[f(k)]
    <3> SUFFICES ASSUME NEW k \in 1 .. Len(s) + 1, k # p
                 PROVE  f(k) \in 1 .. Len(s) /\ r[k] = s[f(k)]
      OBVIOUS
    <3>1. r[k] = IF k < p THEN s[k] ELSE s[k - 1]
      BY <1>1
    <3>2. f(k) \in 1 .. Len(s)
      BY <1>2
    <3>3. QED
      BY <3>1, <3>2
  <2>2. r[p] = e
    BY <1>1, <1>2
  <2>3. CASE i = p
    <3>1. j - 1 \in p .. Len(s) /\ r[j] = s[j - 1]
      BY <1>1, <1>2, <1>7, <2>3
    <3>2. QED
      BY <1>6, <2>2, <2>3, <3>1
  <2>4. CASE j = p
    <3>1. i \in 1 .. p - 1 /\ r[i] = s[i]
      BY <1>1, <1>2, <1>7, <2>4
    <3>2. QED
      BY <2>2, <2>4, <3>1
  <2>5. CASE i # p /\ j # p
    <3>1. f(i) \in 1 .. Len(s) /\ f(j) \in 1 .. Len(s) /\ f(i) < f(j)
      BY <1>2, <1>7, <2>5
    <3>2. r[i] = s[f(i)] /\ r[j] = s[f(j)]
      BY <2>1, <2>5
    <3>3. QED
      BY <3>1, <3>2 DEF OrderedBy
  <2>6. QED
    BY <2>3, <2>4, <2>5
<1>8. QED
  BY <1>1, <1>7 DEF OrderedBy, r

(* ExtractFirstNode. *)
LEMMA TailNodes ==
  ASSUME NEW T, NEW s \in Seq(T), s # <<>>, Distinct(s)
  PROVE  /\ Head(s) \in Nodes(s) /\ Head(s) \in T
         /\ Tail(s) \in Seq(T)
         /\ Nodes(Tail(s)) = Nodes(s) \ {Head(s)}
         /\ Distinct(Tail(s))
<1>1. /\ Head(s) \in T /\ Tail(s) \in Seq(T) /\ Len(Tail(s)) = Len(s) - 1
      /\ \A i \in 1 .. Len(s) - 1 : Tail(s)[i] = s[i + 1]
  BY HeadTailProperties
<1>2. Len(s) \in Nat \ {0} /\ Head(s) = s[1]
  OBVIOUS
<1>3. ASSUME NEW x \in Nodes(Tail(s)) PROVE x \in Nodes(s) \ {Head(s)}
  <2>1. PICK i \in 1 .. Len(s) - 1 : x = s[i + 1]
    BY <1>1 DEF Nodes
  <2>2. i + 1 \in 1 .. Len(s) /\ i + 1 # 1
    BY <1>2
  <2>3. s[i + 1] # s[1]
    BY <1>2, <2>2 DEF Distinct
  <2>4. QED
    BY <1>2, <2>1, <2>2, <2>3 DEF Nodes
<1>4. ASSUME NEW x \in Nodes(s) \ {Head(s)} PROVE x \in Nodes(Tail(s))
  <2>1. PICK k \in 1 .. Len(s) : x = s[k]
    BY DEF Nodes
  <2>2. k # 1
    BY <1>2, <2>1
  <2>3. k - 1 \in 1 .. Len(s) - 1 /\ k - 1 + 1 = k
    BY <1>2, <2>2
  <2>4. QED
    BY <1>1, <2>1, <2>3 DEF Nodes
<1>5. Distinct(Tail(s))
  BY <1>1, <1>2 DEF Distinct
<1>6. Head(s) \in Nodes(s)
  BY <1>2 DEF Nodes
<1>7. Nodes(Tail(s)) = Nodes(s) \ {Head(s)}
  BY <1>3, <1>4
<1>8. QED
  BY <1>1, <1>5, <1>6, <1>7

LEMMA TailOrdered ==
  ASSUME NEW T, NEW s \in Seq(T), s # <<>>, NEW key, OrderedBy(s, key)
  PROVE  /\ OrderedBy(Tail(s), key)
         /\ Tail(s) # <<>> => key[Head(s)] <= key[Head(Tail(s))]
<1>1. /\ Tail(s) \in Seq(T) /\ Len(Tail(s)) = Len(s) - 1
      /\ \A i \in 1 .. Len(s) - 1 : Tail(s)[i] = s[i + 1]
  BY HeadTailProperties
<1>2. Len(s) \in Nat \ {0} /\ Head(s) = s[1]
  OBVIOUS
<1>3. OrderedBy(Tail(s), key)
  BY <1>1, <1>2 DEF OrderedBy
<1>4. ASSUME Tail(s) # <<>> PROVE key[Head(s)] <= key[Head(Tail(s))]
  <2>1. Len(s) - 1 >= 1 /\ Head(Tail(s)) = Tail(s)[1]
    BY <1>1, <1>2, <1>4
  <2>2. Tail(s)[1] = s[2]
    BY <1>1, <1>2, <2>1
  <2>3. QED
    BY <1>2, <2>1, <2>2 DEF OrderedBy
<1>5. QED
  BY <1>3, <1>4
(* LinkAtBack of a node that is not in the list. *)
LEMMA BackNodes ==
  ASSUME NEW T, NEW s \in Seq(T), NEW e \in T, Distinct(s), e \notin Nodes(s)
  PROVE  /\ LinkAtBack(s, e) \in Seq(T)
         /\ Nodes(LinkAtBack(s, e)) = Nodes(s) \cup {e}
         /\ Distinct(LinkAtBack(s, e))
<1> DEFINE r == LinkAtBack(s, e)
<1>1. r = Append(s, e)
  BY DEF LinkAtBack, Unlink
<1>2. /\ r \in Seq(T) /\ Len(r) = Len(s) + 1
      /\ \A i \in 1 .. Len(s) : r[i] = s[i]
      /\ r[Len(s) + 1] = e
  BY <1>1, AppendProperties
<1> HIDE DEF r
<1>3. Len(s) \in Nat
  OBVIOUS
<1>4. \A i \in 1 .. Len(s) + 1 : i \in 1 .. Len(s) \/ i = Len(s) + 1
  BY <1>3
<1>5. Len(s) + 1 \in 1 .. Len(s) + 1 /\ 1 .. Len(s) \subseteq 1 .. Len(s) + 1
  BY <1>3
<1>6. Nodes(r) \subseteq Nodes(s) \cup {e}
  BY <1>2, <1>4 DEF Nodes
<1>7. Nodes(s) \cup {e} \subseteq Nodes(r)
  BY <1>2, <1>5 DEF Nodes
<1>8. Distinct(r)
  <2>1. \A i \in 1 .. Len(s) : r[i] # e
    BY <1>2 DEF Nodes
  <2>2. QED
    BY <1>2, <1>4, <2>1 DEF Distinct
<1>9. QED
  BY <1>2, <1>6, <1>7, <1>8 DEF r
----------------------------------------------------------------------------
(* How many of the places P come no later than i. *)
Rank(P, i) == Cardinality({j \in P : j <= i})

LEMMA RankSteps ==
  ASSUME NEW n \in Nat, NEW P \in SUBSET (1 .. n)
  PROVE  /\ IsFiniteSet(P) /\ Cardinality(P) \in Nat
         /\ Rank(P, 0) = 0 /\ Rank(P, n) = Cardinality(P)
         /\ \A i \in 0 .. n : Rank(P, i) \in 0 .. Cardinality(P)
         /\ \A i \in 1 .. n : Rank(P, i) = IF i \in P THEN Rank(P, i - 1) + 1
                                                      ELSE Rank(P, i - 1)
<1>1. IsFiniteSet(1 .. n)
  BY FS_Interval
<1>2. IsFiniteSet(P) /\ Cardinality(P) \in Nat
  BY <1>1, FS_Subset, FS_CardinalityType
<1>3. {j \in P : j <= 0} = {} /\ {j \in P : j <= n} = P
  <2>1. \A j \in P : ~(j <= 0) /\ j <= n
    OBVIOUS
  <2>2. QED
    BY <2>1
<1>4. Rank(P, 0) = 0 /\ Rank(P, n) = Cardinality(P)
  <2>1. Rank(P, 0) = Cardinality({}) /\ Rank(P, n) = Cardinality(P)
    BY <1>3, Zenon DEF Rank
  <2>2. QED
    BY <2>1, FS_EmptySet
<1>5. ASSUME NEW i \in 0 .. n PROVE Rank(P, i) \in 0 .. Cardinality(P)
  <2>1. {j \in P : j <= i} \in SUBSET P
    OBVIOUS
  <2>2. /\ IsFiniteSet({j \in P : j <= i})
        /\ Cardinality({j \in P : j <= i}) <= Cardinality(P)
    BY <1>2, <2>1, FS_Subset
  <2>3. Cardinality({j \in P : j <= i}) \in Nat
    BY <2>2, FS_CardinalityType
  <2>4. QED
    BY <1>2, <2>2, <2>3 DEF Rank
<1>6. ASSUME NEW i \in 1 .. n
      PROVE  Rank(P, i) = IF i \in P THEN Rank(P, i - 1) + 1 ELSE Rank(P, i - 1)
  <2> DEFINE Q == {j \in P : j <= i - 1}
  <2>1. Q \in SUBSET P /\ i \notin Q
    OBVIOUS
  <2>2. IsFiniteSet(Q)
    BY <1>2, <2>1, FS_Subset
  <2>3. CASE i \in P
    <3>1. \A j \in P : j <= i <=> j <= i - 1 \/ j = i
      OBVIOUS
    <3>2. {j \in P : j <= i} = Q \cup {i}
      BY <2>3, <3>1
    <3>3. Rank(P, i) = Cardinality(Q \cup {i}) /\ Rank(P, i - 1) = Cardinality(Q)
      BY <3>2, Zenon DEF Rank
    <3> HIDE DEF Q
    <3>4. Cardinality(Q \cup {i}) = Cardinality(Q) + 1
      BY <2>1, <2>2, FS_AddElement
    <3>5. QED
      BY <2>3, <3>3, <3>4
  <2>4. CASE i \notin P
    <3>1. \A j \in P : j <= i <=> j <= i - 1
      BY <2>4
    <3>2. {j \in P : j <= i} = Q
      BY <3>1
    <3>3. Rank(P, i) = Rank(P, i - 1)
      BY <3>2, Zenon DEF Rank
    <3>4. QED
      BY <2>4, <3>3
  <2>5. QED
    BY <2>3, <2>4
<1>7. QED
  BY <1>2, <1>4, <1>5, <1>6

(* Ranks grow along the places. *)
LEMMA RankGrows ==
  ASSUME NEW n \in Nat, NEW P \in SUBSET (1 .. n), NEW i \in P, NEW j \in P, i < j
  PROVE  Rank(P, i) < Rank(P, j)
<1> DEFINE A == {k \in P : k <= i}
           B == {k \in P : k <= j}
<1>1. IsFiniteSet(P)
  BY RankSteps
<1>2. A \in SUBSET B /\ B \in SUBSET P /\ j \in B /\ j \notin A
  <2>1. \A k \in P : k \in Int
    OBVIOUS
  <2>2. \A k \in P : k <= i => k <= j
    BY <2>1
  <2>3. j <= j /\ ~(j <= i)
    BY <2>1
  <2>4. QED
    BY <2>2, <2>3
<1> HIDE DEF A, B
<1>3. IsFiniteSet(B)
  BY <1>1, <1>2, FS_Subset
<1>4. /\ IsFiniteSet(A) /\ Cardinality(A) <= Cardinality(B)
      /\ Cardinality(B) # Cardinality(A)
  BY <1>2, <1>3, FS_Subset
<1>5. Cardinality(A) \in Nat /\ Cardinality(B) \in Nat
  BY <1>3, <1>4, FS_CardinalityType
<1>6. QED
  BY <1>4, <1>5 DEF A, B, Rank

(* Some place has each rank. *)
LEMMA RankTaken ==
  ASSUME NEW n \in Nat, NEW P \in SUBSET (1 .. n), NEW k \in 1 .. Cardinality(P)
  PROVE  \E i \in P : Rank(P, i) = k
<1> DEFINE Q == {i \in 0 .. n : Rank(P, i) >= k}
<1>1. /\ Cardinality(P) \in Nat
      /\ Rank(P, 0) = 0 /\ Rank(P, n) = Cardinality(P)
      /\ \A i \in 0 .. n : Rank(P, i) \in 0 .. Cardinality(P)
      /\ \A i \in 1 .. n : Rank(P, i) = IF i \in P THEN Rank(P, i - 1) + 1
                                                   ELSE Rank(P, i - 1)
  BY RankSteps
<1>2. Q \in SUBSET Nat /\ n \in Q
  BY <1>1
<1>3. PICK m \in Q : \A i \in Q : m <= i
  BY <1>2, LeastPosition
<1>4. m \in 0 .. n /\ Rank(P, m) >= k /\ m # 0
  BY <1>1, <1>3
<1>5. m \in 1 .. n /\ m - 1 \in 0 .. n /\ ~(m <= m - 1)
  BY <1>4
<1>6. ~(Rank(P, m - 1) >= k)
  BY <1>3, <1>5
<1>7. Rank(P, m - 1) \in Int /\ Rank(P, m) \in Int
  BY <1>1, <1>5
<1>8. m \in P /\ Rank(P, m) = k
  BY <1>1, <1>4, <1>5, <1>6, <1>7
<1>9. QED
  BY <1>8

(* The places of the nodes that are kept: a list of them in their order.   *)
LEMMA KeepProperties ==
  ASSUME NEW T, NEW s \in Seq(T), NEW P \in SUBSET (1 .. Len(s))
  PROVE  /\ Keep(s, P) \in Seq(T)
         /\ Cardinality(P) \in Nat
         /\ Len(Keep(s, P)) = Cardinality(P)
         /\ \E f \in Bijection(1 .. Cardinality(P), P) :
              /\ \A k \in 1 .. Cardinality(P) : Keep(s, P)[k] = s[f[k]]
              /\ \A k, l \in 1 .. Cardinality(P) : k < l => f[k] < f[l]
<1> DEFINE n == Len(s)
           K == 1 .. Cardinality(P)
           f == [k \in K |-> CHOOSE i \in P : Rank(P, i) = k]
<1>1. n \in Nat /\ P \in SUBSET (1 .. n)
  OBVIOUS
<1>2. /\ Cardinality(P) \in Nat
      /\ \A i \in 0 .. n : Rank(P, i) \in 0 .. Cardinality(P)
      /\ \A i \in 1 .. n : Rank(P, i) = IF i \in P THEN Rank(P, i - 1) + 1
                                                   ELSE Rank(P, i - 1)
  BY <1>1, RankSteps
<1> HIDE DEF n
<1>3. \A i \in P : Rank(P, i) \in K
  <2> SUFFICES ASSUME NEW i \in P PROVE Rank(P, i) \in K
    OBVIOUS
  <2>1. i \in 1 .. n /\ i - 1 \in 0 .. n
    BY <1>1
  <2>2. Rank(P, i - 1) \in 0 .. Cardinality(P) /\ Rank(P, i) \in 0 .. Cardinality(P)
    BY <1>2, <2>1
  <2>3. Rank(P, i) = Rank(P, i - 1) + 1
    BY <1>2, <2>1
  <2>4. QED
    BY <1>2, <2>2, <2>3
<1>4. \A i, j \in P : i < j => Rank(P, i) < Rank(P, j)
  BY <1>1, RankGrows
<1>5. \A i, j \in P : Rank(P, i) = Rank(P, j) => i = j
  <2> SUFFICES ASSUME NEW i \in P, NEW j \in P, Rank(P, i) = Rank(P, j) PROVE i = j
    OBVIOUS
  <2>1. i \in Int /\ j \in Int /\ Rank(P, i) \in Int
    BY <1>1, <1>2, <1>3
  <2>2. ~(i < j) /\ ~(j < i)
    BY <1>4, <2>1
  <2>3. QED
    BY <2>1, <2>2
<1>6. \A k \in K : f[k] \in P /\ Rank(P, f[k]) = k
  <2> SUFFICES ASSUME NEW k \in K PROVE f[k] \in P /\ Rank(P, f[k]) = k
    OBVIOUS
  <2>1. \E i \in P : Rank(P, i) = k
    BY <1>1, RankTaken
  <2>2. QED
    BY <2>1
<1>7. f \in [K -> P]
  BY <1>6
<1>8. \A k \in K : Keep(s, P)[k] = s[f[k]]
  BY DEF Keep, Rank
<1>9. Keep(s, P) = [k \in K |-> s[f[k]]]
  BY DEF Keep, Rank
<1> HIDE DEF f
<1>10. \A k \in K : s[f[k]] \in T
  <2>1. \A i \in 1 .. n : s[i] \in T
    BY ElementOfSeq DEF n
  <2>2. QED
    BY <1>1, <1>6, <2>1
<1>11. Keep(s, P) \in [K -> T]
  BY <1>9, <1>10
<1>12. Keep(s, P) \in Seq(T) /\ Len(Keep(s, P)) = Cardinality(P)
  BY <1>2, <1>11, SeqDef, LenProperties
<1>13. \A k, l \in K : k < l => f[k] < f[l]
  <2> SUFFICES ASSUME NEW k \in K, NEW l \in K, k < l PROVE f[k] < f[l]
    OBVIOUS
  <2>1. f[k] \in P /\ f[l] \in P /\ Rank(P, f[k]) = k /\ Rank(P, f[l]) = l
    BY <1>6
  <2>2. f[k] \in Int /\ f[l] \in Int /\ k \in Int /\ l \in Int
    <3>1. \A i \in P : i \in Int
      BY <1>1
    <3>2. k \in Int /\ l \in Int
      OBVIOUS
    <3>3. QED
      BY <2>1, <3>1, <3>2
  <2>3. f[k] # f[l]
    BY <2>1, <2>2
  <2>4. f[l] < f[k] => l < k
    BY <1>4, <2>1
  <2>5. QED
    BY <2>2, <2>3, <2>4
<1>14. f \in Bijection(K, P)
  <2>1. \A k, l \in K : f[k] = f[l] => k = l
    BY <1>6
  <2>2. \A i \in P : \E k \in K : f[k] = i
    BY <1>3, <1>5, <1>6
  <2>3. f \in Injection(K, P)
    <3>1. \A k, l \in DOMAIN f : f[k] = f[l] => k = l
      BY <1>7, <2>1
    <3>2. QED
      BY <1>7, <3>1, Zenon DEF Injection, IsInjective
  <2>4. f \in Surjection(K, P)
    BY <1>7, <2>2 DEF Surjection
  <2>5. QED
    BY <2>3, <2>4 DEF Bijection
<1>15. QED
  BY <1>2, <1>8, <1>12, <1>13, <1>14

(* The places where node e stands in s. *)
Places(s, e) == {i \in 1 .. Len(s) : s[i] = e}

(* A node of which no place is dropped stands in the list as often as before. *)
LEMMA KeepPlaces ==
  ASSUME NEW T, NEW s \in Seq(T), NEW P \in SUBSET (1 .. Len(s)), NEW e,
         Places(s, e) \subseteq P
  PROVE  ExistsBijection(Places(Keep(s, P), e), Places(s, e))
<1> DEFINE K == 1 .. Cardinality(P)
           r == Keep(s, P)
<1>1. /\ r \in Seq(T) /\ Len(r) = Cardinality(P) /\ Cardinality(P) \in Nat
  BY KeepProperties
<1>2. PICK f \in Bijection(K, P) : \A k \in K : r[k] = s[f[k]]
  BY KeepProperties
<1>3. /\ f \in [K -> P] /\ \A k, l \in K : f[k] = f[l] => k = l
      /\ \A i \in P : \E k \in K : f[k] = i
  BY <1>2 DEF Bijection, Injection, Surjection, IsInjective
<1> DEFINE A == Places(r, e)
           B == Places(s, e)
           g == [k \in A |-> f[k]]
<1> HIDE DEF r
<1>4. A = {k \in K : r[k] = e}
  BY <1>1 DEF Places
<1>5. B \subseteq P /\ \A i \in P : i \in B <=> s[i] = e
  BY DEF Places
<1> HIDE DEF A, B, K
<1>6. \A k \in A : f[k] \in B
  BY <1>2, <1>3, <1>4, <1>5
<1>7. g \in [A -> B]
  BY <1>6
<1>8. \A k, l \in A : g[k] = g[l] => k = l
  BY <1>3, <1>4
<1>9. \A i \in B : \E k \in A : g[k] = i
  <2> SUFFICES ASSUME NEW i \in B PROVE \E k \in A : g[k] = i
    OBVIOUS
  <2>1. PICK k \in K : f[k] = i
    BY <1>3, <1>5
  <2>2. k \in A
    BY <1>2, <1>4, <1>5, <2>1
  <2>3. QED
    BY <2>1, <2>2
<1> HIDE DEF g
<1>10. g \in Bijection(A, B)
  <2>1. g \in Injection(A, B)
    BY <1>7, <1>8 DEF Injection, IsInjective
  <2>2. g \in Surjection(A, B)
    BY <1>7, <1>9 DEF Surjection
  <2>3. QED
    BY <2>1, <2>2 DEF Bijection
<1>11. QED
  BY <1>10 DEF A, B, r, ExistsBijection

(* The nodes that are kept, each once if each was there once. *)
LEMMA KeepNodes ==
  ASSUME NEW T, NEW s \in Seq(T), NEW P \in SUBSET (1 .. Len(s))
  PROVE  /\ Nodes(Keep(s, P)) = {s[i] : i \in P}
         /\ Distinct(s) => Distinct(Keep(s, P))
<1> DEFINE K == 1 .. Cardinality(P)
           r == Keep(s, P)
<1>1. /\ Len(r) = Cardinality(P) /\ Cardinality(P) \in Nat
  BY KeepProperties
<1>2. PICK f \in Bijection(K, P) : \A k \in K : r[k] = s[f[k]]
  BY KeepProperties
<1>3. /\ f \in [K -> P] /\ \A k, l \in K : f[k] = f[l] => k = l
      /\ \A i \in P : \E k \in K : f[k] = i
  BY <1>2 DEF Bijection, Injection, Surjection, IsInjective
<1> HIDE DEF r
<1>4. Nodes(r) = {r[k] : k \in K}
  BY <1>1 DEF Nodes
<1>5. P \subseteq 1 .. Len(s)
  OBVIOUS
<1> HIDE DEF K
<1>6. {r[k] : k \in K} = {s[i] : i \in P}
  <2>1. ASSUME NEW k \in K PROVE r[k] \in {s[i] : i \in P}
    BY <1>2, <1>3
  <2>2. ASSUME NEW i \in P PROVE s[i] \in {r[k] : k \in K}
    BY <1>2, <1>3
  <2>3. QED
    BY <2>1, <2>2
<1>7. ASSUME Distinct(s) PROVE Distinct(r)
  <2> SUFFICES ASSUME NEW k \in K, NEW l \in K, r[k] = r[l] PROVE k = l
    BY <1>1 DEF Distinct, K
  <2>1. f[k] \in 1 .. Len(s) /\ f[l] \in 1 .. Len(s) /\ s[f[k]] = s[f[l]]
    BY <1>2, <1>3, <1>5
  <2>2. f[k] = f[l]
    BY <1>7, <2>1 DEF Distinct
  <2>3. QED
    BY <1>3, <2>2
<1>8. QED
  BY <1>4, <1>6, <1>7 DEF r
----------------------------------------------------------------------------
(* Two lists with the same nodes at the same places.                       *)
LEMMA SameSeq ==
  ASSUME NEW T, NEW a \in Seq(T), NEW b \in Seq(T), Len(a) = Len(b),
         \A i \in 1 .. Len(a) : a[i] = b[i]
  PROVE  a = b
BY SeqEqual

(* The function h counts the places P, in their order.                     *)
Counts(h, n, P) ==
  /\ h \in [1 .. n -> P]
  /\ \A k, l \in 1 .. n : k < l => h[k] < h[l]
  /\ \A i \in P : \E k \in 1 .. n : h[k] = i

(* The rank of a place, when the places are counted in their order.        *)
LEMMA RankCounted ==
  ASSUME NEW m \in Nat, NEW P \in SUBSET (1 .. m), NEW n \in Nat,
         NEW h \in [1 .. n -> P],
         \A k, l \in 1 .. n : k < l => h[k] < h[l],
         \A i \in P : \E k \in 1 .. n : h[k] = i
  PROVE  Cardinality(P) = n /\ \A k \in 1 .. n : Rank(P, h[k]) = k
<1>0. (\A i \in P : i \in Int) /\ \A k \in 1 .. n : h[k] \in P /\ h[k] \in Int /\ k \in Int
  <2>1. \A i \in P : i \in Int
    OBVIOUS
  <2>2. \A k \in 1 .. n : h[k] \in P
    OBVIOUS
  <2>3. \A k \in 1 .. n : k \in Int
    OBVIOUS
  <2>4. QED
    BY ONLY <2>1, <2>2, <2>3, Zenon
<1>1. \A k, l \in 1 .. n : h[k] = h[l] => k = l
  <2> SUFFICES ASSUME NEW k \in 1 .. n, NEW l \in 1 .. n, h[k] = h[l] PROVE k = l
    OBVIOUS
  <2>1. h[k] \in Int /\ h[l] \in Int /\ k \in Int /\ l \in Int
    BY ONLY <1>0, k \in 1 .. n, l \in 1 .. n, Zenon
  <2>2. CASE k < l
    <3>1. h[k] < h[l]
      BY <2>2
    <3>2. QED
      BY ONLY <2>1, <3>1, h[k] = h[l]
  <2>3. CASE l < k
    <3>1. h[l] < h[k]
      BY <2>3
    <3>2. QED
      BY ONLY <2>1, <3>1, h[k] = h[l]
  <2>4. QED
    BY <2>1, <2>2, <2>3
<1>2. h \in Bijection(1 .. n, P)
  <2>1. h \in Injection(1 .. n, P)
    BY <1>1 DEF Injection, IsInjective
  <2>2. h \in Surjection(1 .. n, P)
    BY DEF Surjection
  <2>3. QED
    BY <2>1, <2>2 DEF Bijection
<1>3. Cardinality(P) = n
  <2>1. ExistsBijection(1 .. n, P)
    BY <1>2 DEF ExistsBijection
  <2>2. QED
    BY ONLY <2>1, n \in Nat, FS_CountingElements
<1>4. ASSUME NEW k \in 1 .. n PROVE Rank(P, h[k]) = k
  <2> DEFINE Q == {j \in P : j <= h[k]}
             g == [l \in 1 .. k |-> h[l]]
  <2>1. \A l \in 1 .. n : h[l] \in Q <=> l \in 1 .. k
    <3> SUFFICES ASSUME NEW l \in 1 .. n PROVE h[l] <= h[k] <=> l <= k
      OBVIOUS
    <3>1. h[k] \in Int /\ h[l] \in Int /\ k \in Int /\ l \in Int
      BY ONLY <1>0, k \in 1 .. n, l \in 1 .. n, Zenon
    <3>2. CASE l < k
      <4>1. h[l] < h[k]
        BY <3>2
      <4>2. QED
        BY ONLY <3>1, <3>2, <4>1
    <3>3. CASE l = k
      BY <3>1, <3>3
    <3>4. CASE k < l
      <4>1. h[k] < h[l]
        BY <3>4
      <4>2. QED
        BY ONLY <3>1, <3>4, <4>1
    <3>5. QED
      BY <3>1, <3>2, <3>3, <3>4
  <2>2. \A l \in 1 .. k : l \in 1 .. n
    OBVIOUS
  <2>3. \A i \in Q : i \in P
    OBVIOUS
  <2> HIDE DEF Q
  <2>4. g \in [1 .. k -> Q] /\ \A l \in 1 .. k : g[l] = h[l]
    BY <2>1, <2>2
  <2>5. \A i \in Q : \E l \in 1 .. k : g[l] = i
    BY <2>1, <2>3, <2>4
  <2>6. \A l1, l2 \in 1 .. k : g[l1] = g[l2] => l1 = l2
    BY <1>1, <2>2, <2>4
  <2> HIDE DEF g
  <2>7. g \in Bijection(1 .. k, Q)
    <3>1. g \in Injection(1 .. k, Q)
      BY <2>4, <2>6 DEF Injection, IsInjective
    <3>2. g \in Surjection(1 .. k, Q)
      BY <2>4, <2>5 DEF Surjection
    <3>3. QED
      BY <3>1, <3>2 DEF Bijection
  <2>8. ExistsBijection(1 .. k, Q) /\ k \in Nat
    BY <2>7 DEF ExistsBijection
  <2>9. Cardinality(Q) = k
    BY ONLY <2>8, FS_CountingElements
  <2>10. QED
    BY <2>9 DEF Q, Rank
<1>5. QED
  BY <1>3, <1>4

(* A list whose nodes are those at the places P, in their order, is the    *)
(* one that Keep leaves.                                                   *)
LEMMA KeepIs ==
  ASSUME NEW T, NEW s \in Seq(T), NEW P \in SUBSET (1 .. Len(s)), NEW t \in Seq(T),
         NEW h, Counts(h, Len(t), P), \A k \in 1 .. Len(t) : t[k] = s[h[k]]
  PROVE  t = Keep(s, P)
<1> DEFINE n == Len(t)
           m == Len(s)
<1>0. m \in Nat /\ n \in Nat /\ P \in SUBSET (1 .. m)
  OBVIOUS
<1>1. Cardinality(P) = n /\ \A k \in 1 .. n : Rank(P, h[k]) = k
  <2> HIDE DEF n, m
  <2>1. /\ h \in [1 .. n -> P]
        /\ \A k, l \in 1 .. n : k < l => h[k] < h[l]
        /\ \A i \in P : \E k \in 1 .. n : h[k] = i
    BY DEF n, Counts
  <2>2. QED
    BY ONLY <1>0, <2>1, RankCounted
<1>2. Keep(s, P) = [k \in 1 .. n |-> s[CHOOSE i \in P : Rank(P, i) = k]]
  BY <1>1 DEF Keep, Rank
<1>3. ASSUME NEW k \in 1 .. n PROVE (CHOOSE i \in P : Rank(P, i) = k) = h[k]
  <2> DEFINE c == CHOOSE i \in P : Rank(P, i) = k
  <2>1. h[k] \in P /\ Rank(P, h[k]) = k
    BY <1>1 DEF Counts
  <2>2. c \in P /\ Rank(P, c) = k
    BY <2>1
  <2>3. PICK l \in 1 .. n : h[l] = c
    BY <2>2 DEF Counts
  <2>4. l = k
    BY <1>1, <2>2, <2>3
  <2>5. QED
    BY <2>3, <2>4
<1>4. Keep(s, P) \in Seq(T) /\ Len(Keep(s, P)) = n
  BY <1>1, KeepProperties
<1>5. ASSUME NEW k \in 1 .. n PROVE t[k] = Keep(s, P)[k]
  <2>1. Keep(s, P)[k] = s[CHOOSE i \in P : Rank(P, i) = k]
    BY <1>2
  <2>2. QED
    BY <1>3, <2>1
<1>6. QED
  BY <1>4, <1>5, SameSeq

(* Nothing is unlinked.                                                    *)
LEMMA KeepAll ==
  ASSUME NEW T, NEW s \in Seq(T)
  PROVE  Keep(s, 1 .. Len(s)) = s
<1> DEFINE P == 1 .. Len(s)
           h == [k \in P |-> k]
<1>1. /\ P \in SUBSET (1 .. Len(s)) /\ Counts(h, Len(s), P)
      /\ \A k \in 1 .. Len(s) : s[k] = s[h[k]]
  BY DEF Counts
<1> HIDE DEF P, h
<1>2. s = Keep(s, P)
  BY <1>1, KeepIs
<1>3. QED
  BY <1>2 DEF P

(* All nodes are unlinked up to a place, or the one at a place is.         *)
LEMMA KeepRest ==
  ASSUME NEW T, NEW s \in Seq(T), NEW p \in 1 .. Len(s)
  PROVE  SubSeq(s, p + 1, Len(s)) = Keep(s, p + 1 .. Len(s))
<1> DEFINE P == p + 1 .. Len(s)
           t == SubSeq(s, p + 1, Len(s))
           m == Len(s)
           n == Len(t)
           h == [k \in 1 .. n |-> k + p]
<1>1. m \in Nat /\ p \in 1 .. m /\ m = Len(s)
  OBVIOUS
<1>2. /\ t \in Seq(T) /\ n = m - p /\ n \in Nat
      /\ \A k \in 1 .. n : t[k] = s[k + p]
  <2>1. \A i \in p + 1 .. Len(s) : s[i] \in T
    BY ElementOfSeq
  <2>2. /\ t \in Seq(T)
        /\ n = IF p + 1 <= m THEN (m - (p + 1)) + 1 ELSE 0
        /\ \A k \in 1 .. (m - (p + 1)) + 1 : t[k] = s[((p + 1) + k) - 1]
    BY <2>1, SubSeqProperties
  <2> HIDE DEF t, n, m
  <2>3. /\ n = m - p /\ n \in Nat /\ (m - (p + 1)) + 1 = n
        /\ \A k \in 1 .. n : ((p + 1) + k) - 1 = k + p
    BY <1>1, <2>2
  <2>4. QED
    BY <2>2, <2>3
<1> HIDE DEF t, n, m
<1>3. P = p + 1 .. m
  BY DEF m
<1>4. /\ h \in [1 .. n -> P] /\ P \in SUBSET (1 .. m)
      /\ \A k, l \in 1 .. n : k < l => h[k] < h[l]
      /\ \A k \in 1 .. n : h[k] = k + p
  BY <1>1, <1>2, <1>3
<1>5. ASSUME NEW i \in P PROVE \E k \in 1 .. n : h[k] = i
  <2>1. i - p \in 1 .. n /\ (i - p) + p = i
    BY <1>1, <1>2, <1>3
  <2>2. h[i - p] = i
    BY <1>4, <2>1
  <2>3. QED
    BY <2>1, <2>2
<1> HIDE DEF P, h
<1>6. t = Keep(s, P)
  <2>1. P \in SUBSET (1 .. Len(s)) /\ t \in Seq(T) /\ s \in Seq(T)
    BY <1>1, <1>2, <1>4 DEF n
  <2>2. Counts(h, Len(t), P) /\ \A k \in 1 .. Len(t) : t[k] = s[h[k]]
    <3>1. \A k \in 1 .. n : t[k] = s[h[k]]
      BY <1>2, <1>4
    <3>2. QED
      BY <1>4, <1>5, <3>1 DEF n, Counts
  <2>3. QED
    BY ONLY <2>1, <2>2, KeepIs
<1>7. QED
  BY <1>6 DEF t, P

LEMMA KeepBut ==
  ASSUME NEW T, NEW s \in Seq(T), NEW p \in 1 .. Len(s)
  PROVE  RemoveAt(s, p) = Keep(s, (1 .. Len(s)) \ {p})
<1> DEFINE m == Len(s)
           P == (1 .. m) \ {p}
           t == RemoveAt(s, p)
           n == Len(t)
           h == [k \in 1 .. n |-> IF k < p THEN k ELSE k + 1]
<1>1. m \in Nat /\ p \in 1 .. m /\ m = Len(s)
  OBVIOUS
<1>2. /\ t \in Seq(T) /\ n = m - 1
      /\ \A k \in 1 .. n : t[k] = IF k < p THEN s[k] ELSE s[k + 1]
  BY RemoveProperties
<1> HIDE DEF t, n, m
<1>3. /\ h \in [1 .. n -> P] /\ P \in SUBSET (1 .. m)
      /\ \A k, l \in 1 .. n : k < l => h[k] < h[l]
      /\ \A k \in 1 .. n : h[k] = IF k < p THEN k ELSE k + 1
  <2>1. ASSUME NEW k \in 1 .. n PROVE (IF k < p THEN k ELSE k + 1) \in P
    BY <1>1, <1>2
  <2>2. ASSUME NEW k \in 1 .. n, NEW l \in 1 .. n, k < l
        PROVE  (IF k < p THEN k ELSE k + 1) < (IF l < p THEN l ELSE l + 1)
    BY <1>1, <1>2, <2>2
  <2>3. h \in [1 .. n -> P]
    BY <2>1
  <2>4. QED
    BY <2>2, <2>3
<1>4. ASSUME NEW i \in P PROVE \E k \in 1 .. n : h[k] = i
  <2>1. CASE i < p
    <3>1. i \in 1 .. n /\ h[i] = i
      BY <1>1, <1>2, <1>3, <2>1
    <3>2. QED
      BY <3>1
  <2>2. CASE ~(i < p)
    <3>1. i - 1 \in 1 .. n /\ ~(i - 1 < p) /\ (i - 1) + 1 = i
      BY <1>1, <1>2, <2>2
    <3>2. h[i - 1] = i
      BY <1>3, <3>1
    <3>3. QED
      BY <3>1, <3>2
  <2>3. QED
    BY <2>1, <2>2
<1> HIDE DEF P, h
<1>5. \A k \in 1 .. n : t[k] = s[h[k]]
  BY <1>2, <1>3
<1>6. t = Keep(s, P)
  <2>1. P \in SUBSET (1 .. Len(s)) /\ t \in Seq(T) /\ s \in Seq(T)
    BY <1>1, <1>2, <1>3 DEF n
  <2>2. Counts(h, Len(t), P) /\ \A k \in 1 .. Len(t) : t[k] = s[h[k]]
    BY <1>3, <1>4, <1>5 DEF n, Counts
  <2>3. QED
    BY ONLY <2>1, <2>2, KeepIs
<1>7. QED
  BY <1>6 DEF t, P, m

LEMMA KeepCounted ==
  ASSUME NEW T, NEW s \in Seq(T), NEW P \in SUBSET (1 .. Len(s))
  PROVE  /\ Keep(s, P) \in Seq(T)
         /\ \E h : /\ Counts(h, Len(Keep(s, P)), P)
                   /\ \A k \in 1 .. Len(Keep(s, P)) : Keep(s, P)[k] = s[h[k]]
<1> DEFINE t == Keep(s, P)
<1>1. t \in Seq(T) /\ Len(t) = Cardinality(P)
  BY KeepProperties
<1>2. PICK h \in Bijection(1 .. Cardinality(P), P) :
        /\ \A k \in 1 .. Cardinality(P) : t[k] = s[h[k]]
        /\ \A k, l \in 1 .. Cardinality(P) : k < l => h[k] < h[l]
  BY KeepProperties
<1>3. /\ h \in [1 .. Cardinality(P) -> P]
      /\ \A i \in P : \E k \in 1 .. Cardinality(P) : h[k] = i
  BY <1>2 DEF Bijection, Injection, Surjection
<1> HIDE DEF t
<1>4. Counts(h, Len(t), P) /\ \A k \in 1 .. Len(t) : t[k] = s[h[k]]
  BY <1>1, <1>2, <1>3 DEF Counts
<1>5. QED
  BY <1>1, <1>4 DEF t

(* Nodes are unlinked of what has been left: f[i] is the place that the    *)
(* node at place i had before.                                             *)
FormerPlaces(f, R) == {f[i] : i \in R}

KeptBy(f, s, P, u) ==
  /\ Counts(f, Len(u), P)
  /\ \A k \in 1 .. Len(u) : u[k] = s[f[k]]
  /\ \A R \in SUBSET (1 .. Len(u)) :
       FormerPlaces(f, R) \in SUBSET P /\ Keep(u, R) = Keep(s, FormerPlaces(f, R))

LEMMA KeepKept ==
  ASSUME NEW T, NEW s \in Seq(T), NEW P \in SUBSET (1 .. Len(s))
  PROVE  \E f : KeptBy(f, s, P, Keep(s, P))
<1> DEFINE u == Keep(s, P)
<1>1. u \in Seq(T)
  BY KeepCounted
<1>2. PICK f : /\ Counts(f, Len(u), P)
               /\ \A k \in 1 .. Len(u) : u[k] = s[f[k]]
  BY KeepCounted
<1> HIDE DEF u
<1>3. ASSUME NEW R \in SUBSET (1 .. Len(u))
      PROVE  FormerPlaces(f, R) \in SUBSET P /\ Keep(u, R) = Keep(s, FormerPlaces(f, R))
  <2> DEFINE t == Keep(u, R)
  <2>4. t \in Seq(T)
    BY <1>1, KeepCounted
  <2>5. PICK g : /\ Counts(g, Len(t), R)
                 /\ \A k \in 1 .. Len(t) : t[k] = u[g[k]]
    BY <1>1, KeepCounted
  <2> HIDE DEF t
  <2> DEFINE n == Len(t)
             S == {f[i] : i \in R}
             h == [k \in 1 .. n |-> f[g[k]]]
  <2>6. \A k \in 1 .. n : g[k] \in R /\ g[k] \in 1 .. Len(u)
    BY <2>5 DEF Counts
  <2>7. S \in SUBSET P
    BY <1>2 DEF Counts
  <2>8. Counts(h, n, S)
    <3>1. h \in [1 .. n -> S]
      BY <2>6
    <3>2. ASSUME NEW k \in 1 .. n, NEW l \in 1 .. n, k < l PROVE h[k] < h[l]
      <4>1. g[k] < g[l]
        BY <2>5, <3>2 DEF Counts
      <4>2. f[g[k]] < f[g[l]]
        BY <1>2, <2>6, <4>1 DEF Counts
      <4>3. QED
        BY <4>2
    <3>3. ASSUME NEW j \in S PROVE \E k \in 1 .. n : h[k] = j
      <4>1. PICK i \in R : j = f[i]
        OBVIOUS
      <4>2. PICK k \in 1 .. n : g[k] = i
        BY <2>5 DEF Counts
      <4>3. h[k] = j
        BY <4>1, <4>2
      <4>4. QED
        BY <4>3
    <3> HIDE DEF h, n, S
    <3>4. QED
      BY <3>1, <3>2, <3>3 DEF Counts
  <2>9. \A k \in 1 .. n : t[k] = s[h[k]]
    BY <1>2, <2>5, <2>6
  <2> HIDE DEF S, h
  <2>10. t = Keep(s, S)
    <3>1. S \in SUBSET (1 .. Len(s)) /\ s \in Seq(T) /\ t \in Seq(T)
      BY <2>4, <2>7
    <3>2. Counts(h, Len(t), S) /\ \A k \in 1 .. Len(t) : t[k] = s[h[k]]
      BY <2>8, <2>9
    <3>3. QED
      BY ONLY <3>1, <3>2, KeepIs
  <2>11. QED
    BY <2>7, <2>10 DEF t, S, FormerPlaces
<1>4. KeptBy(f, s, P, u)
  BY <1>2, <1>3 DEF KeptBy
<1>5. QED
  BY <1>4 DEF u

(* The places of two lists, when the second is put behind the first, which *)
(* has n nodes.                                                            *)
Joined(n, P, R) == P \cup {n + i : i \in R}

(* Nodes are unlinked of two lists that are put one behind the other.      *)
LEMMA KeepJoined ==
  ASSUME NEW T, NEW a \in Seq(T), NEW b \in Seq(T),
         NEW P \in SUBSET (1 .. Len(a)), NEW R \in SUBSET (1 .. Len(b))
  PROVE  Keep(a, P) \o Keep(b, R) = Keep(a \o b, Joined(Len(a), P, R))
<1> DEFINE x == Keep(a, P)
           y == Keep(b, R)
           t == x \o y
           s == a \o b
           S == Joined(Len(a), P, R)
<1>1. x \in Seq(T) /\ y \in Seq(T)
  BY KeepCounted
<1>2. PICK f : /\ Counts(f, Len(x), P)
               /\ \A k \in 1 .. Len(x) : x[k] = a[f[k]]
  BY KeepCounted
<1>3. PICK g : /\ Counts(g, Len(y), R)
               /\ \A k \in 1 .. Len(y) : y[k] = b[g[k]]
  BY KeepCounted
<1> HIDE DEF x, y
<1> DEFINE m == Len(x)
           n == Len(y)
           c == Len(a)
           d == Len(b)
<1>4. /\ m \in Nat /\ n \in Nat /\ c \in Nat /\ d \in Nat
      /\ P \in SUBSET (1 .. c) /\ R \in SUBSET (1 .. d)
  BY <1>1
<1>5. /\ t \in Seq(T) /\ Len(t) = m + n
      /\ \A k \in 1 .. m + n : t[k] = IF k <= m THEN x[k] ELSE y[k - m]
  BY <1>1
<1>6. /\ s \in Seq(T) /\ Len(s) = c + d
      /\ \A k \in 1 .. c + d : s[k] = IF k <= c THEN a[k] ELSE b[k - c]
  OBVIOUS
<1>7. /\ \A k \in 1 .. m : f[k] \in P /\ f[k] \in 1 .. c
      /\ \A k \in 1 .. n : g[k] \in R /\ g[k] \in 1 .. d
  BY <1>2, <1>3, <1>4 DEF Counts
<1> DEFINE h == [k \in 1 .. m + n |-> IF k <= m THEN f[k] ELSE c + g[k - m]]
<1>8. S = P \cup {c + i : i \in R}
  BY DEF Joined
<1> HIDE DEF t, s, m, n, c, d, S
<1>9. S \in SUBSET (1 .. c + d)
  <2>1. \A i \in P : i \in 1 .. c + d
    BY ONLY <1>4
  <2>2. \A i \in R : c + i \in 1 .. c + d
    BY ONLY <1>4
  <2>3. QED
    BY ONLY <1>8, <2>1, <2>2
<1>10. \A k \in 1 .. m + n : k \in 1 .. m \/ (~(k <= m) /\ k - m \in 1 .. n)
  BY <1>4
<1>11. /\ \A k \in 1 .. m : h[k] = f[k]
       /\ \A k \in 1 .. n : m + k \in 1 .. m + n /\ h[m + k] = c + g[k]
       /\ \A k \in 1 .. m + n : ~(k <= m) => h[k] = c + g[k - m]
  <2>1. ASSUME NEW k \in 1 .. m PROVE h[k] = f[k]
    BY <1>4
  <2>2. ASSUME NEW k \in 1 .. n PROVE m + k \in 1 .. m + n /\ h[m + k] = c + g[k]
    <3>1. m + k \in 1 .. m + n /\ ~(m + k <= m) /\ (m + k) - m = k
      BY <1>4
    <3>2. QED
      BY <3>1
  <2>3. QED
    BY <2>1, <2>2
<1>12. Counts(h, m + n, S)
  <2>1. ASSUME NEW k \in 1 .. m + n PROVE h[k] \in S
    <3>1. CASE k \in 1 .. m
      BY <1>7, <1>8, <1>11, <3>1
    <3>2. CASE ~(k <= m) /\ k - m \in 1 .. n
      BY <1>7, <1>8, <1>11, <3>2
    <3>3. QED
      BY <1>10, <3>1, <3>2
  <2>2. ASSUME NEW k \in 1 .. m + n, NEW l \in 1 .. m + n, k < l PROVE h[k] < h[l]
    <3>1. CASE l \in 1 .. m
      <4>1. k \in 1 .. m
        BY <1>4, <2>2, <3>1
      <4>2. f[k] < f[l]
        BY <1>2, <2>2, <3>1, <4>1 DEF Counts, m
      <4>3. QED
        BY <1>11, <3>1, <4>1, <4>2
    <3>2. CASE k \in 1 .. m /\ ~(l <= m) /\ l - m \in 1 .. n
      <4>1. f[k] \in 1 .. c /\ g[l - m] \in 1 .. d
        BY <1>7, <3>2
      <4>2. f[k] < c + g[l - m]
        BY ONLY <1>4, <4>1
      <4>3. QED
        BY <1>11, <3>2, <4>2
    <3>3. CASE ~(k <= m) /\ k - m \in 1 .. n /\ ~(l <= m) /\ l - m \in 1 .. n
      <4>1. k - m < l - m
        BY <1>4, <2>2
      <4>2. g[k - m] < g[l - m]
        BY <1>3, <3>3, <4>1 DEF Counts, n
      <4>3. g[k - m] \in 1 .. d /\ g[l - m] \in 1 .. d
        BY <1>7, <3>3
      <4>4. c + g[k - m] < c + g[l - m]
        BY ONLY <1>4, <4>2, <4>3
      <4>5. QED
        BY <1>11, <3>3, <4>4
    <3>4. QED
      <4>1. k \in 1 .. m \/ (~(k <= m) /\ k - m \in 1 .. n)
        BY <1>10
      <4>2. l \in 1 .. m \/ (~(l <= m) /\ l - m \in 1 .. n)
        BY <1>10
      <4>3. ~(k <= m) => ~(l \in 1 .. m)
        BY <1>4, <2>2
      <4>4. k \in 1 .. m => k <= m
        BY <1>4
      <4>5. QED
        BY <3>1, <3>2, <3>3, <4>1, <4>2, <4>3, <4>4
  <2>3. ASSUME NEW j \in S PROVE \E k \in 1 .. m + n : h[k] = j
    <3>1. CASE j \in P
      <4>1. PICK k \in 1 .. m : f[k] = j
        BY <1>2, <3>1 DEF Counts, m
      <4>2. k \in 1 .. m + n /\ h[k] = j
        BY <1>4, <1>11, <4>1
      <4>3. QED
        BY <4>2
    <3>2. ASSUME NEW i \in R, j = c + i PROVE \E k \in 1 .. m + n : h[k] = j
      <4>1. PICK k \in 1 .. n : g[k] = i
        BY <1>3 DEF Counts, n
      <4>2. m + k \in 1 .. m + n /\ h[m + k] = j
        BY <1>11, <3>2, <4>1
      <4>3. QED
        BY <4>2
    <3>3. QED
      BY <1>8, <3>1, <3>2
  <2>4. h \in [1 .. m + n -> S]
    BY <2>1
  <2> HIDE DEF h
  <2>5. QED
    BY <2>2, <2>3, <2>4 DEF Counts
<1> HIDE DEF h
<1>13. ASSUME NEW k \in 1 .. m + n PROVE t[k] = s[h[k]]
  <2>1. CASE k \in 1 .. m
    <3>1. t[k] = x[k] /\ x[k] = a[f[k]] /\ h[k] = f[k]
      BY <1>2, <1>4, <1>5, <1>11, <2>1 DEF m
    <3>2. f[k] \in 1 .. c + d /\ f[k] <= c
      BY <1>4, <1>7, <2>1
    <3>3. QED
      BY <1>6, <3>1, <3>2
  <2>2. CASE ~(k <= m) /\ k - m \in 1 .. n
    <3>1. t[k] = y[k - m] /\ y[k - m] = b[g[k - m]] /\ h[k] = c + g[k - m]
      BY <1>3, <1>5, <1>11, <2>2 DEF n
    <3>2. g[k - m] \in 1 .. d
      BY <1>7, <2>2
    <3>3. /\ c + g[k - m] \in 1 .. c + d /\ ~(c + g[k - m] <= c)
          /\ (c + g[k - m]) - c = g[k - m]
      BY ONLY <1>4, <3>2
    <3>4. QED
      BY <1>6, <3>1, <3>3
  <2>3. QED
    BY <1>10, <2>1, <2>2
<1>14. t = Keep(s, S)
  <2>1. S \in SUBSET (1 .. Len(s)) /\ s \in Seq(T) /\ t \in Seq(T)
    BY <1>5, <1>6, <1>9
  <2>2. Counts(h, Len(t), S) /\ \A k \in 1 .. Len(t) : t[k] = s[h[k]]
    BY <1>5, <1>12, <1>13
  <2>3. QED
    BY ONLY <2>1, <2>2, KeepIs
<1>15. QED
  BY <1>14 DEF t, s, S, x, y

(* The node at the first of the places is the head of what is left, the    *)
(* others are its tail.                                                    *)
LEMMA KeepFirst ==
  ASSUME NEW T, NEW s \in Seq(T), NEW p \in 1 .. Len(s),
         NEW P \in SUBSET (1 .. Len(s)), \A i \in P : p < i
  PROVE  Keep(s, {p} \cup P) = <<s[p]>> \o Keep(s, P)
<1> DEFINE x == Keep(s, P)
           S == {p} \cup P
           t == <<s[p]>> \o x
<1>1. x \in Seq(T)
  BY KeepCounted
<1>2. PICK f : /\ Counts(f, Len(x), P)
               /\ \A k \in 1 .. Len(x) : x[k] = s[f[k]]
  BY KeepCounted
<1> HIDE DEF x
<1> DEFINE m == Len(x)
           c == Len(s)
           h == [k \in 1 .. m + 1 |-> IF k = 1 THEN p ELSE f[k - 1]]
<1>3. m \in Nat /\ c \in Nat /\ p \in 1 .. c /\ P \in SUBSET (1 .. c) /\ s[p] \in T
  BY <1>1, ElementOfSeq
<1>4. /\ t \in Seq(T) /\ Len(t) = m + 1 /\ t[1] = s[p]
      /\ \A k \in 2 .. m + 1 : t[k] = x[k - 1]
  BY <1>1, <1>3, FrontProperties
<1>5. \A k \in 1 .. m : f[k] \in P
  BY <1>2 DEF Counts
<1> HIDE DEF t, m, c
<1>6. \A k \in 1 .. m + 1 : k = 1 \/ (k # 1 /\ k \in 2 .. m + 1 /\ k - 1 \in 1 .. m)
  BY <1>3
<1>7. /\ 1 \in 1 .. m + 1 /\ h[1] = p
      /\ \A k \in 1 .. m + 1 : k # 1 => h[k] = f[k - 1]
  BY <1>3
<1>8. Counts(h, m + 1, S)
  <2>1. ASSUME NEW k \in 1 .. m + 1 PROVE h[k] \in S
    BY <1>5, <1>6, <1>7
  <2>2. ASSUME NEW k \in 1 .. m + 1, NEW l \in 1 .. m + 1, k < l PROVE h[k] < h[l]
    <3>1. l # 1 /\ l - 1 \in 1 .. m
      BY <1>3, <2>2
    <3>2. CASE k = 1
      BY <1>5, <1>7, <3>1, <3>2
    <3>3. CASE k # 1
      <4>1. k - 1 \in 1 .. m /\ k - 1 < l - 1
        BY <1>3, <2>2, <3>3
      <4>2. f[k - 1] < f[l - 1]
        BY <1>2, <3>1, <4>1 DEF Counts, m
      <4>3. QED
        BY <1>7, <3>1, <3>3, <4>2
    <3>4. QED
      BY <3>2, <3>3
  <2>3. ASSUME NEW j \in S PROVE \E k \in 1 .. m + 1 : h[k] = j
    <3>1. CASE j = p
      BY <1>7, <3>1
    <3>2. CASE j \in P
      <4>1. PICK k \in 1 .. m : f[k] = j
        BY <1>2, <3>2 DEF Counts, m
      <4>2. k + 1 \in 1 .. m + 1 /\ k + 1 # 1 /\ (k + 1) - 1 = k
        BY <1>3
      <4>3. h[k + 1] = j
        BY <1>7, <4>1, <4>2
      <4>4. QED
        BY <4>2, <4>3
    <3>3. QED
      BY <3>1, <3>2
  <2>4. h \in [1 .. m + 1 -> S]
    BY <2>1
  <2> HIDE DEF h
  <2>5. QED
    BY <2>2, <2>3, <2>4 DEF Counts
<1> HIDE DEF h
<1>9. ASSUME NEW k \in 1 .. m + 1 PROVE t[k] = s[h[k]]
  <2>1. CASE k = 1
    BY <1>4, <1>7, <2>1
  <2>2. CASE k # 1 /\ k \in 2 .. m + 1 /\ k - 1 \in 1 .. m
    <3>1. t[k] = x[k - 1] /\ x[k - 1] = s[f[k - 1]] /\ h[k] = f[k - 1]
      BY <1>2, <1>4, <1>7, <2>2 DEF m
    <3>2. QED
      BY <3>1
  <2>3. QED
    BY <1>6, <2>1, <2>2
<1>10. t = Keep(s, S)
  <2>1. S \in SUBSET (1 .. Len(s)) /\ s \in Seq(T) /\ t \in Seq(T)
    BY <1>3, <1>4 DEF c
  <2>2. Counts(h, Len(t), S) /\ \A k \in 1 .. Len(t) : t[k] = s[h[k]]
    BY <1>4, <1>8, <1>9
  <2>3. QED
    BY ONLY <2>1, <2>2, KeepIs
<1>11. QED
  BY <1>10 DEF t, S, x
=============================================================================
