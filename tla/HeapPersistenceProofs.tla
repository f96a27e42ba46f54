------------------------ MODULE HeapPersistenceProofs ------------------------
(***************************************************************************)
(* What is proved about the extended weak references, for objects, values, *)
(* priorities and banks of every size (Heap_Persistence.cpp):              *)
(*                                                                         *)
(*   - TypeCorrect, for every choice of the constants;                     *)
(*   - BanksAgree: the weak references and the flash agree, when a bank is *)
(*     one erasable block;                                                 *)
(*   - Survives: the refinement of SurvivingObjects, and Recovered: a      *)
(*     power loss takes no persisted value, both when power also stays     *)
(*     during a change of banks (the run heap_loss shows that they fail    *)
(*     otherwise).                                                         *)
(*                                                                         *)
(* Each has its inductive invariant, which contains the one before:        *)
(* TypesInv, AgreeInv and SurviveInv.  The lemmas come in the same order:  *)
(* the list, a cell, a bank, the types of every step; what a bank holds;   *)
(* and what is kept from one restart to the next.                          *)
(***************************************************************************)
EXTENDS HeapPersistence, DblLinkedListProofs

(* Of the constants all proofs use what HeapAssumption says.               *)
USE HeapAssumption

----------------------------------------------------------------------------
(* The list of weak references. *)

(* The least of some positions, as FiniteSetsExt defines it. *)
LEMMA MinOfPositions ==
  ASSUME NEW P \in SUBSET Nat, P # {}
  PROVE  Min(P) \in P /\ \A i \in P : Min(P) <= i
<1>1. PICK m \in P : \A i \in P : m <= i
  BY LeastPosition
<1>2. QED
  BY <1>1 DEF Min

(* An arrangement of all objects holds each of them once. *)
LEMMA ArrangedNodes ==
  ASSUME NEW l \in SetToSeqs(Object)
  PROVE  l \in Seq(Object) /\ Distinct(l) /\ Nodes(l) = Object
<1> DEFINE n == Cardinality(Object)
<1>1. n \in Nat
  BY FS_CardinalityType
<1>2. l \in [1 .. n -> Object] /\ \A i, j \in 1 .. n : i # j => l[i] # l[j]
  BY DEF SetToSeqs
<1>3. l \in Seq(Object) /\ Len(l) = n
  BY <1>1, <1>2
<1>4. Distinct(l)
  BY <1>2, <1>3 DEF Distinct
<1>5. l \in Injection(1 .. n, Object)
  BY <1>2 DEF Injection, IsInjective
<1>6. Cardinality(1 .. n) = n
  BY <1>1, FS_Interval
<1>7. l \in Surjection(1 .. n, Object)
  BY <1>5, <1>6, FS_Injection
<1>8. Object \subseteq Nodes(l)
  BY <1>2, <1>3, <1>7 DEF Surjection, Nodes
<1>9. Nodes(l) \subseteq Object
  BY <1>2, <1>3 DEF Nodes
<1>10. QED
  BY <1>3, <1>4, <1>8, <1>9

(* And a list that holds each of them once is an arrangement. *)
LEMMA NodesArranged ==
  ASSUME NEW l \in Seq(Object), Distinct(l), Nodes(l) = Object
  PROVE  l \in SetToSeqs(Object)
<1>1. Len(l) \in Nat /\ l \in [1 .. Len(l) -> Object]
  BY LenProperties
<1>2. l \in Injection(1 .. Len(l), Object)
  BY <1>1 DEF Distinct, Injection, IsInjective
<1>3. l \in Surjection(1 .. Len(l), Object)
  BY <1>1 DEF Nodes, Surjection
<1>4. ExistsBijection(1 .. Len(l), Object)
  BY <1>2, <1>3 DEF ExistsBijection, Bijection
<1>5. Cardinality(Object) = Len(l)
  BY <1>1, <1>4, FS_CountingElements
<1>6. QED
  BY <1>1, <1>5 DEF SetToSeqs, Distinct

(* InsertInPriorityOrder moves an object and keeps all others. *)
LEMMA InPriorityOrderArranged ==
  ASSUME NEW l \in SetToSeqs(Object), NEW pri, NEW o \in Object
  PROVE  InPriorityOrder(l, pri, o) \in SetToSeqs(Object)
<1> DEFINE others == Unlink(l, o)
           places == {i \in 1 .. Len(others) + 1 : i <= Len(others) => pri[others[i]] <= pri[o]}
           r == InsertBefore(others, Min(places), o)
<1>1. l \in Seq(Object) /\ Distinct(l) /\ Nodes(l) = Object
  BY ArrangedNodes
<1>2. others \in Seq(Object) /\ Distinct(others) /\ Nodes(others) = Object \ {o}
  BY <1>1, UnlinkNodes
<1>3. Len(others) \in Nat
  BY <1>2, LenProperties
<1> HIDE DEF others
<1>4. Min(places) \in 1 .. Len(others) + 1
  <2>1. Len(others) + 1 \in places /\ places \in SUBSET Nat
    BY <1>3
  <2>2. Min(places) \in places
    BY <2>1, MinOfPositions
  <2>3. QED
    BY <2>2
<1> HIDE DEF places
<1>5. r \in Seq(Object)
  BY <1>2, <1>4, InsertProperties
<1>6. Nodes(r) = Nodes(others) \cup {o} /\ Distinct(r)
  BY <1>2, <1>4, InsertNodes
<1>7. r \in SetToSeqs(Object)
  BY <1>2, <1>5, <1>6, NodesArranged
<1>8. QED
  BY <1>7 DEF InPriorityOrder, r, places, others

(* The first object of a set: there is one unless the set is empty. *)
LEMMA FirstOf ==
  ASSUME list \in SetToSeqs(Object), NEW S \in SUBSET Object
  PROVE  IF S = {} THEN First(S) = NoObject ELSE First(S) \in S
<1> DEFINE places == {i \in 1 .. Len(list) : list[i] \in S}
<1>1. list \in Seq(Object) /\ Nodes(list) = Object
  BY ArrangedNodes
<1>2. places = {} <=> S = {}
  <2>1. ASSUME NEW x \in S PROVE places # {}
    <3>1. PICK i \in 1 .. Len(list) : list[i] = x
      BY <1>1 DEF Nodes
    <3>2. QED
      BY <3>1
  <2>2. ASSUME NEW i \in places PROVE S # {}
    OBVIOUS
  <2>3. QED
    BY <2>1, <2>2
<1>3. places \in SUBSET Nat
  BY <1>1
<1>4. places # {} => Min(places) \in places
  BY <1>3, MinOfPositions
<1>5. First(S) = IF places = {} THEN NoObject ELSE list[Min(places)]
  BY DEF First
<1>6. places # {} => list[Min(places)] \in S
  BY <1>4
<1> HIDE DEF places
<1>7. QED
  BY <1>2, <1>5, <1>6
----------------------------------------------------------------------------
(* One bank. *)

BankType == [header : BOOLEAN, seq : 0 .. Erased, cells : [1 .. Cells -> Cell]]

(* All objects of a bank, also deleted ones, end before the cell e. *)
Below(bank, e) == \A p \in Headers(bank) : p + Length(bank.cells[p].val) <= e

PutCell(bank, p, c) == [bank EXCEPT !.cells = [@ EXCEPT ![p] = c]]

(* The lengths of objects. *)
LEMMA Lengths ==
  ASSUME NEW v \in Value
  PROVE  /\ Bursts[v] \in Nat /\ Bursts[v] > 0
         /\ Length(v) = 1 + Bursts[v] /\ Length(v) < SafeCells
  BY DEF Length

(* The values a cell can have. *)
LEMMA CellFacts ==
  /\ Free \in Cell /\ Used \in Cell /\ Header \subseteq Cell
  /\ Free # Used /\ Free \notin Header /\ Used \notin Header
  /\ Free.val = NoValue /\ Used.val = NoValue
  /\ \A c \in Cell : c.val \in Value \cup {NoValue}
  /\ \A c \in Cell : c \notin {Free, Used} => c.val \in Value
  /\ \A c \in Cell : c \notin {Free, Used} /\ c.live => c \in Header
  /\ \A v \in Value : Deleted(v) \in Cell /\ ~Deleted(v).live /\ Deleted(v).val = v
  /\ \A v \in Value : Deleted(v) # Free /\ Deleted(v) # Used
  /\ Deleted(NoValue) = Free
<1>1. Free \in Cell /\ Used \in Cell /\ Header \subseteq Cell
  BY DEF Cell
<1>3. Free # Used /\ Free.val = NoValue /\ Used.val = NoValue
  BY DEF Free, Used
<1>4. Free \notin Header /\ Used \notin Header
  BY DEF Free, Used, Header
<1>5. /\ \A v \in Value : Deleted(v) \in Cell /\ ~Deleted(v).live /\ Deleted(v).val = v
      /\ \A v \in Value : Deleted(v) # Free /\ Deleted(v) # Used
      /\ Deleted(NoValue) = Free
  <2>1. ASSUME NEW v \in Value PROVE Deleted(v) \in Cell
    BY DEF Cell
  <2>2. ASSUME NEW v \in Value PROVE ~Deleted(v).live /\ Deleted(v).val = v
    BY DEF Deleted
  <2>3. \A v \in Value : v # NoValue
    OBVIOUS
  <2>4. \A v \in Value : Deleted(v) # Free /\ Deleted(v) # Used
    BY <1>3, <2>2, <2>3
  <2>5. Deleted(NoValue) = Free
    BY DEF Deleted, Free
  <2>6. QED
    BY <2>1, <2>2, <2>4, <2>5
<1>6. \A c \in Header : c.val \in Value
  BY DEF Header
<1>7. \A c \in Cell : c \in Header \/ c = Free \/ c = Used \/ \E v \in Value : c = Deleted(v)
  BY DEF Cell
<1> HIDE DEF Cell, Deleted, Free, Used, Header
<1>8. QED
  BY <1>1, <1>3, <1>4, <1>5, <1>6, <1>7

(* What is read at the place of a header. *)
LEMMA HeaderFacts ==
  ASSUME NEW bank \in BankType, NEW p \in Headers(bank)
  PROVE  /\ p \in 1 .. Cells /\ bank.cells[p] \in Cell \ {Free, Used}
         /\ bank.cells[p].val \in Value
         /\ p \in Good(bank) => bank.cells[p] \in Header
<1>1. p \in 1 .. Cells /\ bank.cells[p] \notin {Free, Used} /\ bank.cells[p] \in Cell
  BY DEF Headers, BankType
<1>2. p \in Good(bank) => bank.cells[p].live
  BY DEF Good, IsGood
<1>3. QED
  BY <1>1, <1>2, CellFacts

(* Writing a cell. *)
LEMMA PutCellType ==
  ASSUME NEW bank \in BankType, NEW p, NEW c \in Cell
  PROVE  /\ PutCell(bank, p, c) \in BankType
         /\ PutCell(bank, p, c).header = bank.header /\ PutCell(bank, p, c).seq = bank.seq
         /\ \A q \in 1 .. Cells : PutCell(bank, p, c).cells[q] =
                                  IF q = p THEN c ELSE bank.cells[q]
  BY DEF PutCell, BankType

(* An object is deleted: it is no longer good, and nothing else changes.   *)
LEMMA DeletedObject ==
  ASSUME NEW bank \in BankType, Below(bank, Cells), NEW p \in Headers(bank),
         NEW D, D = PutCell(bank, p, Deleted(bank.cells[p].val))
  PROVE  /\ D \in BankType /\ D.header = bank.header /\ D.seq = bank.seq
         /\ Headers(D) = Headers(bank)
         /\ \A q \in Headers(bank) : D.cells[q].val = bank.cells[q].val
         /\ \A q \in 1 .. Cells : q # p => D.cells[q] = bank.cells[q]
         /\ Good(D) = Good(bank) \ {p}
<1> DEFINE v == bank.cells[p].val
<1>1. p \in 1 .. Cells /\ v \in Value /\ bank.cells[p] # Used
  BY HeaderFacts
<1>2. Deleted(v) \in Cell /\ Deleted(v).val = v /\ Deleted(v) \notin {Free, Used} /\ ~Deleted(v).live
  BY <1>1, CellFacts
<1>3. /\ D \in BankType /\ D.header = bank.header /\ D.seq = bank.seq
      /\ \A q \in 1 .. Cells : D.cells[q] = IF q = p THEN Deleted(v) ELSE bank.cells[q]
  BY <1>2, PutCellType
<1>4. Headers(D) = Headers(bank)
  BY <1>1, <1>2, <1>3 DEF Headers
<1>5. \A q \in Headers(bank) : D.cells[q].val = bank.cells[q].val
  BY <1>2, <1>3 DEF Headers
<1>6. ASSUME NEW q \in Headers(bank), q # p
      PROVE  IsGood(D, q) <=> IsGood(bank, q)
  <2>1. q \in 1 .. Cells /\ bank.cells[q].val \in Value
    BY HeaderFacts
  <2>2. D.cells[q] = bank.cells[q]
    BY <1>3, <1>6, <2>1
  <2>3. q + Bursts[bank.cells[q].val] < Cells /\ Bursts[bank.cells[q].val] \in Nat
    BY <2>1, Lengths DEF Below
  <2>4. ASSUME NEW x \in q + 1 .. q + Bursts[bank.cells[q].val]
        PROVE  D.cells[x] = Used <=> bank.cells[x] = Used
    <3>1. x \in 1 .. Cells
      BY <2>1, <2>3
    <3>2. QED
      BY <1>1, <1>2, <1>3, <3>1
  <2>5. QED
    BY <2>2, <2>4 DEF IsGood
<1>7. ~IsGood(D, p)
  BY <1>1, <1>2, <1>3 DEF IsGood
<1>8. Good(D) = Good(bank) \ {p}
  BY <1>4, <1>6, <1>7 DEF Good
<1>9. QED
  BY <1>3, <1>4, <1>5, <1>8

PendingType == [obj : Object, pos : 1 .. Cells, left : 1 .. Cells]

(* pd is being written to a bank, an object with the value v behind all    *)
(* others: its header and some of its data are there.                      *)
Writing(bank, pd, v) ==
  /\ v \in Value /\ pd.pos \in Headers(bank)
  /\ bank.cells[pd.pos].live
  /\ bank.cells[pd.pos].obj = pd.obj /\ bank.cells[pd.pos].val = v
  /\ pd.left \in 1 .. Bursts[v]
  /\ \A x \in pd.pos + 1 .. pd.pos + Bursts[v] :
       bank.cells[x] = IF x <= pd.pos + Bursts[v] - pd.left THEN Used ELSE Free
  /\ \A q \in Headers(bank) : q # pd.pos => q + Length(bank.cells[q].val) <= pd.pos

(* A header is written where there is room for its object. *)
LEMMA HeaderWritten ==
  ASSUME NEW bank \in BankType, Below(bank, Cells), NEW p \in 1 .. Cells, Below(bank, p),
         NEW h \in Header, CanWrite(bank, p, Length(h.val)),
         NEW H, H = PutCell(bank, p, h)
  PROVE  /\ H \in BankType /\ H.header = bank.header /\ H.seq = bank.seq
         /\ Headers(H) = Headers(bank) \cup {p}
         /\ \A q \in Headers(bank) : H.cells[q] = bank.cells[q]
         /\ Good(H) = Good(bank)
         /\ Below(H, p + Length(h.val)) /\ Below(H, Cells)
         /\ Writing(H, [obj |-> h.obj, pos |-> p, left |-> Bursts[h.val]], h.val)
<1> DEFINE v == h.val
           n == Length(v)
<1>1. v \in Value /\ h.live /\ h \in Cell /\ h \notin {Free, Used}
  BY CellFacts DEF Header
<1>2. Bursts[v] \in Nat /\ Bursts[v] > 0 /\ n = 1 + Bursts[v]
  BY <1>1, Lengths
<1>3. p + n + 1 <= Cells /\ \A q \in p .. p + n + 1 : bank.cells[q] = Free
  BY DEF CanWrite
<1>4. /\ H \in BankType /\ H.header = bank.header /\ H.seq = bank.seq
      /\ \A q \in 1 .. Cells : H.cells[q] = IF q = p THEN h ELSE bank.cells[q]
  BY <1>1, PutCellType
<1>5. bank.cells[p] = Free
  BY <1>2, <1>3
<1>6. Headers(H) = Headers(bank) \cup {p} /\ p \notin Headers(bank)
  BY <1>1, <1>4, <1>5 DEF Headers
<1>7. \A q \in Headers(bank) : H.cells[q] = bank.cells[q]
  BY <1>4, <1>6 DEF Headers
<1>8. ASSUME NEW q \in Headers(bank)
      PROVE  IsGood(H, q) <=> IsGood(bank, q)
  <2>1. q \in 1 .. Cells /\ bank.cells[q].val \in Value
    BY HeaderFacts
  <2>2. q + Bursts[bank.cells[q].val] < p /\ Bursts[bank.cells[q].val] \in Nat
    BY <2>1, Lengths DEF Below
  <2>3. \A x \in q + 1 .. q + Bursts[bank.cells[q].val] : H.cells[x] = bank.cells[x]
    BY <1>4, <2>1, <2>2
  <2>4. QED
    BY <1>7, <2>3 DEF IsGood
<1>9. H.cells[p] = h
  BY <1>4
<1>10. \A x \in p + 1 .. p + Bursts[v] : H.cells[x] = Free
  BY <1>2, <1>3, <1>4
<1>11. ~IsGood(H, p)
  <2>1. p + 1 \in p + 1 .. p + Bursts[v]
    BY <1>2
  <2>2. H.cells[p + 1] # Used
    BY <1>10, <2>1, CellFacts
  <2>3. QED
    BY <1>9, <2>1, <2>2 DEF IsGood
<1>12. Good(H) = Good(bank)
  BY <1>6, <1>8, <1>11 DEF Good
<1>13. \A q \in Headers(bank) : q + Length(H.cells[q].val) <= p /\ q + Length(H.cells[q].val) \in Int
  <2>1. TAKE q \in Headers(bank)
  <2>2. bank.cells[q].val \in Value /\ q \in 1 .. Cells
    BY HeaderFacts
  <2>3. QED
    BY <1>7, <2>2, Lengths DEF Below
<1>14. Below(H, p + n) /\ Below(H, Cells)
  <2>1. ASSUME NEW q \in Headers(H)
        PROVE  q + Length(H.cells[q].val) <= p + n /\ q + Length(H.cells[q].val) <= Cells
    <3>1. CASE q = p
      BY <1>2, <1>3, <1>9, <3>1
    <3>2. CASE q \in Headers(bank)
      BY <1>2, <1>3, <1>13, <3>2
    <3>3. QED
      BY <1>6, <3>1, <3>2
  <2>2. QED
    BY <2>1 DEF Below
<1>15. Writing(H, [obj |-> h.obj, pos |-> p, left |-> Bursts[v]], v)
  <2> DEFINE pd == [obj |-> h.obj, pos |-> p, left |-> Bursts[v]]
  <2>1. pd.obj = h.obj /\ pd.pos = p /\ pd.left = Bursts[v]
    OBVIOUS
  <2> HIDE DEF pd
  <2>2. \A x \in p + 1 .. p + Bursts[v] : ~(x <= p + Bursts[v] - Bursts[v])
    BY <1>2
  <2>3. QED
    BY <1>1, <1>2, <1>6, <1>9, <1>10, <1>13, <2>1, <2>2 DEF Writing
<1>16. QED
  BY <1>4, <1>6, <1>7, <1>12, <1>14, <1>15

(* A header cut short, or left behind by a power loss, is not good.        *)
LEMMA HeaderCutShort ==
  ASSUME NEW bank \in BankType, Below(bank, Cells), NEW p \in 1 .. Cells, Below(bank, p),
         bank.cells[p] = Free, NEW U, U = PutCell(bank, p, Used)
  PROVE  /\ U \in BankType /\ U.header = bank.header /\ U.seq = bank.seq
         /\ Headers(U) = Headers(bank)
         /\ \A q \in Headers(bank) : U.cells[q] = bank.cells[q]
         /\ Good(U) = Good(bank)
<1>1. /\ U \in BankType /\ U.header = bank.header /\ U.seq = bank.seq
      /\ \A q \in 1 .. Cells : U.cells[q] = IF q = p THEN Used ELSE bank.cells[q]
  BY CellFacts, PutCellType
<1>2. Headers(U) = Headers(bank) /\ p \notin Headers(bank)
  BY <1>1 DEF Headers
<1>3. \A q \in Headers(bank) : U.cells[q] = bank.cells[q]
  BY <1>1, <1>2 DEF Headers
<1>4. ASSUME NEW q \in Headers(bank)
      PROVE  IsGood(U, q) <=> IsGood(bank, q)
  <2>1. q \in 1 .. Cells /\ bank.cells[q].val \in Value
    BY HeaderFacts
  <2>2. q + Bursts[bank.cells[q].val] < p /\ Bursts[bank.cells[q].val] \in Nat
    BY <2>1, Lengths DEF Below
  <2>3. \A x \in q + 1 .. q + Bursts[bank.cells[q].val] : U.cells[x] = bank.cells[x]
    BY <1>1, <2>1, <2>2
  <2>4. QED
    BY <1>3, <2>3 DEF IsGood
<1>5. QED
  BY <1>1, <1>2, <1>3, <1>4 DEF Good

(* The next burst of data of the pending object pd. *)
Further(bank, pd, v) == PutCell(bank, pd.pos + Length(v) - pd.left, Used)

(* A write burst completes the object or brings it one further.            *)
LEMMA BurstWritten ==
  ASSUME NEW bank \in BankType, Below(bank, Cells), NEW pd \in PendingType, NEW v, Writing(bank, pd, v),
         NEW N, N = Further(bank, pd, v)
  PROVE  /\ N \in BankType /\ N.header = bank.header /\ N.seq = bank.seq
         /\ Headers(N) = Headers(bank)
         /\ \A q \in Headers(bank) : N.cells[q] = bank.cells[q]
         /\ pd.pos \notin Good(bank)
         /\ Good(N) = IF pd.left = 1 THEN Good(bank) \cup {pd.pos} ELSE Good(bank)
         /\ pd.left # 1 => Writing(N, Rest(pd), v)
<1> DEFINE p == pd.pos
           m == Bursts[v] - pd.left
           x == p + 1 + m
           rest == Rest(pd)
<1>1. v \in Value /\ p \in Headers(bank) /\ pd.left \in 1 .. Bursts[v]
  BY DEF Writing
<1>2. Bursts[v] \in Nat /\ Bursts[v] > 0 /\ Length(v) = 1 + Bursts[v]
  BY <1>1, Lengths
<1>3. /\ p \in 1 .. Cells /\ bank.cells[p] \notin {Free, Used}
      /\ bank.cells[p].live /\ bank.cells[p].val = v
  BY <1>1, HeaderFacts DEF Writing
<1>4. m \in 0 .. Bursts[v] - 1 /\ x = p + Length(v) - pd.left
  BY <1>1, <1>2, <1>3
<1>5. p + Length(v) <= Cells
  BY <1>1, <1>3 DEF Below
<1>6. x \in p + 1 .. p + Bursts[v] /\ x \in 1 .. Cells
  BY <1>2, <1>3, <1>4, <1>5
<1>7. \A y \in p + 1 .. p + Bursts[v] : bank.cells[y] = IF y < x THEN Used ELSE Free
  <2>1. TAKE y \in p + 1 .. p + Bursts[v]
  <2>2. bank.cells[y] = IF y <= p + Bursts[v] - pd.left THEN Used ELSE Free
    BY DEF Writing
  <2>3. QED
    BY <1>1, <1>2, <1>3, <2>2
<1>8. bank.cells[x] = Free
  BY <1>6, <1>7
<1>9. /\ N \in BankType /\ N.header = bank.header /\ N.seq = bank.seq
      /\ \A q \in 1 .. Cells : N.cells[q] = IF q = x THEN Used ELSE bank.cells[q]
  BY <1>4, CellFacts, PutCellType DEF Further
<1> HIDE DEF x, m
<1>10. Headers(N) = Headers(bank) /\ x \notin Headers(bank)
  BY <1>6, <1>8, <1>9 DEF Headers
<1>11. \A q \in Headers(bank) : N.cells[q] = bank.cells[q]
  BY <1>9, <1>10 DEF Headers
<1>12. ASSUME NEW q \in Headers(bank), q # p
       PROVE  IsGood(N, q) <=> IsGood(bank, q)
  <2>1. q \in 1 .. Cells /\ bank.cells[q].val \in Value
    BY HeaderFacts
  <2>2. q + Length(bank.cells[q].val) <= p
    BY <1>12 DEF Writing
  <2>3. q + Bursts[bank.cells[q].val] < p /\ Bursts[bank.cells[q].val] \in Nat
    BY <1>3, <2>1, <2>2, Lengths
  <2>4. \A y \in q + 1 .. q + Bursts[bank.cells[q].val] : N.cells[y] = bank.cells[y]
    BY <1>3, <1>6, <1>9, <2>1, <2>3
  <2>5. QED
    BY <1>11, <2>4 DEF IsGood
<1>13. p \notin Good(bank)
  BY <1>3, <1>6, <1>8, CellFacts DEF Good, IsGood
<1>14. N.cells[p] = bank.cells[p]
  BY <1>1, <1>11
<1>15. \A y \in p + 1 .. p + Bursts[v] : N.cells[y] = IF y <= x THEN Used ELSE Free
  BY <1>3, <1>5, <1>2, <1>6, <1>7, <1>9
<1>16. pd.left = 1 => IsGood(N, p)
  <2>1. pd.left = 1 => x = p + Bursts[v]
    BY <1>2, <1>3, <1>4
  <2>2. pd.left = 1 => \A y \in p + 1 .. p + Bursts[v] : N.cells[y] = Used
    BY <1>2, <1>3, <1>15, <2>1
  <2>3. QED
    BY <1>3, <1>14, <2>2 DEF IsGood
<1>17. pd.left # 1 => ~IsGood(N, p)
  <2>1. pd.left # 1 => x + 1 \in p + 1 .. p + Bursts[v]
    BY <1>1, <1>2, <1>3, <1>4
  <2>2. pd.left # 1 => N.cells[x + 1] = Free
    BY <1>3, <1>6, <1>15, <2>1
  <2>3. QED
    BY <1>3, <1>14, <2>1, <2>2, CellFacts DEF IsGood
<1>18. Good(N) = IF pd.left = 1 THEN Good(bank) \cup {p} ELSE Good(bank)
  BY <1>1, <1>10, <1>12, <1>13, <1>16, <1>17 DEF Good
<1>19. ASSUME pd.left # 1 PROVE Writing(N, rest, v)
  <2>1. rest.obj = pd.obj /\ rest.pos = p /\ rest.left = pd.left - 1
    BY <1>19 DEF PendingType, Rest
  <2>2. rest.left \in 1 .. Bursts[v]
    BY <1>1, <1>2, <1>19, <2>1
  <2>3. ASSUME NEW y \in p + 1 .. p + Bursts[v]
        PROVE  N.cells[y] = IF y <= p + Bursts[v] - rest.left THEN Used ELSE Free
    <3>1. p + Bursts[v] - rest.left = x
      BY <1>1, <1>2, <1>3, <1>4, <2>1
    <3>2. QED
      BY <1>15, <3>1
  <2> HIDE DEF rest
  <2>4. \A q \in Headers(N) : q # p => q + Length(N.cells[q].val) <= p
    BY <1>10, <1>11 DEF Writing
  <2>5. QED
    BY <1>1, <1>3, <1>10, <1>14, <2>1, <2>2, <2>3, <2>4 DEF Writing
<1>20. QED
  BY <1>9, <1>10, <1>11, <1>13, <1>18, <1>19

(* Where Bank::Initialize continues is behind all objects of the bank.     *)
LEMMA BehindFacts ==
  ASSUME NEW bank \in BankType, Below(bank, Cells)
  PROVE  /\ Behind(bank) \in 0 .. Cells + 1
         /\ Behind(bank) # 0 => Below(bank, Behind(bank))
<1> DEFINE End(p) == p + Length(bank.cells[p].val)
           Ends(e) == /\ \A p \in Headers(bank) : End(p) <= e
                      /\ e = 1 \/ \E p \in Headers(bank) : End(p) = e
<1>1. \A p \in Headers(bank) : End(p) \in 1 .. Cells
  <2>1. TAKE p \in Headers(bank)
  <2>2. p \in 1 .. Cells /\ bank.cells[p].val \in Value
    BY HeaderFacts
  <2>3. QED
    BY <2>2, Lengths DEF Below
<1>2. \E e \in 1 .. Cells + 1 : Ends(e)
  <2>1. CASE Headers(bank) = {}
    BY <2>1
  <2>2. CASE Headers(bank) # {}
    <3> DEFINE L == {Cells - End(p) : p \in Headers(bank)}
    <3>1. L \in SUBSET Nat /\ L # {}
      BY <1>1, <2>2
    <3>2. PICK m \in L : \A i \in L : m <= i
      BY <3>1, LeastPosition
    <3>3. PICK p \in Headers(bank) : m = Cells - End(p)
      BY <3>2
    <3>4. \A q \in Headers(bank) : End(q) <= End(p)
      <4>1. TAKE q \in Headers(bank)
      <4>2. m <= Cells - End(q)
        BY <3>2
      <4>3. QED
        BY <1>1, <3>3, <4>2
    <3>5. Ends(End(p)) /\ End(p) \in 1 .. Cells + 1
      BY <1>1, <3>3, <3>4
    <3>6. QED
      BY <3>5
  <2>3. QED
    BY <2>1, <2>2
<1>3. CASE IsGoodBank(bank)
  <2>1. Behind(bank) = CHOOSE e \in 1 .. Cells + 1 : Ends(e)
    BY <1>3 DEF Behind
  <2>2. Behind(bank) \in 1 .. Cells + 1 /\ Ends(Behind(bank))
    <3> HIDE DEF Ends
    <3>1. QED
      BY <1>2, <2>1
  <2>3. QED
    BY <2>2 DEF Below
<1>4. CASE ~IsGoodBank(bank)
  BY <1>4 DEF Behind
<1>5. QED
  BY <1>3, <1>4

(* An erased bank holds nothing. *)
LEMMA NothingThere ==
  ASSUME NEW bank, \A p \in 1 .. Cells : bank.cells[p] = Free
  PROVE  Headers(bank) = {} /\ Good(bank) = {} /\ \A e : Below(bank, e)
  BY DEF Headers, Good, Below

(* Erasing the first block leaves what it leaves as it was.                *)
LEMMA FirstErased ==
  ASSUME NEW bank \in BankType, Below(bank, Cells), NEW E, E = EraseFirst(bank)
  PROVE  /\ E \in BankType /\ E.header = FALSE /\ E.seq = Erased
         /\ Below(E, Cells)
         /\ BlockCells = Cells => \A p \in 1 .. Cells : E.cells[p] = Free
<1>1. /\ E.header = FALSE /\ E.seq = Erased
      /\ E.cells = [p \in 1 .. Cells |-> IF p <= BlockCells THEN Free ELSE bank.cells[p]]
      /\ E = [header |-> E.header, seq |-> E.seq, cells |-> E.cells]
  BY DEF EraseFirst, BankType
<1>2. E.cells \in [1 .. Cells -> Cell]
  BY <1>1, CellFacts DEF BankType
<1>3. Erased \in 0 .. Erased
  BY DEF Erased
<1>4. E \in BankType
  BY <1>1, <1>2, <1>3 DEF BankType
<1>5. \A p \in Headers(E) : p \in Headers(bank) /\ E.cells[p] = bank.cells[p]
  BY <1>1 DEF Headers
<1>6. Below(E, Cells)
  BY <1>5 DEF Below
<1>7. QED
  BY <1>1, <1>4, <1>6

(* What Format writes into a bank that has no header.                      *)
LEMMA Formatted ==
  ASSUME NEW bank \in BankType
  PROVE  /\ Format(bank) \in BankType /\ Format(bank).cells = bank.cells
         /\ Format(bank).header = TRUE /\ Format(bank).seq = Erased
<1>1. Erased \in 0 .. Erased
  BY DEF Erased
<1>2. QED
  BY <1>1 DEF Format, BankType

(* An erased bank, and the first bank A that Initialize makes of it.       *)
LEMMA BlankType ==
  /\ Blank \in BankType /\ [Blank EXCEPT !.header = TRUE, !.seq = 1] \in BankType
  /\ Blank.header = FALSE /\ Blank.seq = Erased
  /\ [Blank EXCEPT !.header = TRUE, !.seq = 1].header = TRUE
  /\ [Blank EXCEPT !.header = TRUE, !.seq = 1].seq = 1
  /\ \A p \in 1 .. Cells : /\ Blank.cells[p] = Free
                           /\ [Blank EXCEPT !.header = TRUE, !.seq = 1].cells[p] = Free
<1>1. Erased \in 0 .. Erased /\ 1 \in 0 .. Erased
  BY DEF Erased
<1>2. [p \in 1 .. Cells |-> Free] \in [1 .. Cells -> Cell]
  BY CellFacts
<1>3. Blank \in BankType
  BY <1>1, <1>2 DEF Blank, BankType
<1>4. QED
  BY <1>1, <1>3 DEF Blank, BankType

(* The operations on both banks, as operations on one of them.             *)
Banks == [Bank -> BankType]

(* A write to one cell of one bank.                                        *)
LEMMA CellWritten ==
  ASSUME NEW f \in Banks, NEW b \in Bank, NEW p, NEW c \in Cell
  PROVE  /\ [f EXCEPT ![b].cells[p] = c] = [f EXCEPT ![b] = PutCell(f[b], p, c)]
         /\ [f EXCEPT ![b].cells[p] = c] \in Banks
         /\ [f EXCEPT ![b].cells[p] = c][b] = PutCell(f[b], p, c)
         /\ \A x \in Bank : x # b => [f EXCEPT ![b].cells[p] = c][x] = f[x]
<1>1. f[b] \in BankType /\ PutCell(f[b], p, c) \in BankType
  BY PutCellType DEF Banks
<1>2. [f EXCEPT ![b].cells[p] = c] = [f EXCEPT ![b] = PutCell(f[b], p, c)]
  BY DEF PutCell
<1>3. QED
  BY <1>1, <1>2 DEF Banks

(* Delete is such a write.                                                 *)
LEMMA CellDeleted ==
  ASSUME NEW f \in Banks, NEW b \in Bank, NEW p
  PROVE  /\ Delete(f, b, p) = [f EXCEPT ![b] = PutCell(f[b], p, Deleted(f[b].cells[p].val))]
         /\ \A x \in Bank : x # b => Delete(f, b, p)[x] = f[x]
         /\ Delete(f, b, p)[b] = PutCell(f[b], p, Deleted(f[b].cells[p].val))
<1>1. Delete(f, b, p) = [f EXCEPT ![b] = PutCell(f[b], p, Deleted(f[b].cells[p].val))]
  BY DEF Delete, PutCell, Deleted
<1>2. QED
  BY <1>1 DEF Banks

(* A bank keeps its type and its bound when a cell is used or deleted.     *)
LEMMA CellUsed ==
  ASSUME NEW bank \in BankType, NEW e, Below(bank, e), NEW p
  PROVE  PutCell(bank, p, Used) \in BankType /\ Below(PutCell(bank, p, Used), e)
<1> DEFINE N == PutCell(bank, p, Used)
<1>1. N \in BankType /\ \A q \in 1 .. Cells : N.cells[q] = IF q = p THEN Used ELSE bank.cells[q]
  BY CellFacts, PutCellType
<1> HIDE DEF N
<1>2. \A q \in Headers(N) : q \in Headers(bank) /\ N.cells[q] = bank.cells[q]
  BY <1>1 DEF Headers
<1>3. Below(N, e)
  BY <1>2 DEF Below
<1>4. QED
  BY <1>1, <1>3 DEF N

(* So does one whose cell is given up, also when there is none (cell 0).   *)
LEMMA CellGivenUp ==
  ASSUME NEW bank \in BankType, NEW e, Below(bank, e), NEW p \in 0 .. Cells,
         NEW D, D = PutCell(bank, p, Deleted(bank.cells[p].val))
  PROVE  D \in BankType /\ Below(D, e)
<1>1. CASE p = 0
  <2>1. D = bank
    BY <1>1 DEF PutCell, BankType
  <2>2. QED
    BY <2>1
<1>2. CASE p \in 1 .. Cells
  <2> DEFINE c == Deleted(bank.cells[p].val)
  <2>1. bank.cells[p] \in Cell
    BY <1>2 DEF BankType
  <2>2. /\ c \in Cell
        /\ c \notin {Free, Used} => bank.cells[p] \notin {Free, Used} /\ c.val = bank.cells[p].val
    BY <2>1, CellFacts
  <2>3. D \in BankType /\ \A q \in 1 .. Cells : D.cells[q] = IF q = p THEN c ELSE bank.cells[q]
    BY <2>2, PutCellType
  <2> HIDE DEF c
  <2>4. \A q \in Headers(D) : q \in Headers(bank) /\ D.cells[q].val = bank.cells[q].val
    BY <2>2, <2>3 DEF Headers
  <2>5. QED
    BY <2>3, <2>4 DEF Below
<1>3. QED
  BY <1>1, <1>2

----------------------------------------------------------------------------
(* Types. *)

(* Both banks are well typed, and no object reaches beyond the end.        *)
BanksInv(f) == f \in Banks /\ \A b \in Bank : Below(f[b], Cells)

(* The states in which bank B is filled with the objects of bank A.        *)
CopyStates == {"CopyToOtherBank", "CopyBackToRam", "SwitchBank"}

(* What is stored, or copied, has a value. *)
Persisted ==
  \A o \in Object : /\ target[o] # 0 => value[o] # NoValue
                    /\ state = "EraseSector" => copied[o] = 0
                    /\ state \in CopyStates /\ copied[o] # 0 => value[o] # NoValue

(* Together: what is inductive for the types.                              *)
TypesInv == TypeOK /\ BanksInv(flash) /\ Persisted

(* Only o may have been stored or copied. *)
OnlyStores(b, o) ==
  /\ \A x \in Object : x # o => target'[x] = target[x] /\ copied'[x] = copied[x]
  /\ b = a => UNCHANGED copied
  /\ b # a => UNCHANGED target

(* Delete keeps the types of the banks.                                    *)
LEMMA DeleteTyped ==
  ASSUME NEW f, BanksInv(f), NEW b \in Bank, NEW p \in 0 .. Cells
  PROVE  BanksInv(Delete(f, b, p))
<1> DEFINE D == PutCell(f[b], p, Deleted(f[b].cells[p].val))
<1>1. f \in Banks /\ f[b] \in BankType /\ \A x \in Bank : Below(f[x], Cells)
  BY DEF BanksInv, Banks
<1>2. D \in BankType /\ Below(D, Cells)
  BY <1>1, CellGivenUp
<1>3. Delete(f, b, p) = [f EXCEPT ![b] = D]
  BY <1>1, CellDeleted
<1> HIDE DEF D
<1>4. QED
  BY <1>1, <1>2, <1>3 DEF BanksInv, Banks

(* There are two banks.                                                    *)
LEMMA OtherBank ==
  ASSUME NEW b \in Bank
  PROVE  Other(b) \in Bank /\ Other(b) # b /\ Other(Other(b)) = b /\ \A x \in Bank : x # b => x = Other(b)
  BY DEF Bank, Other

(* The record of a pending object. *)
LEMMA NothingPending == NoPending \notin PendingType /\ NoPending.obj = NoObject /\ NoPending.pos = 0
  BY DEF NoPending, PendingType

(* How many bursts of a pending object are left.                           *)
LEMMA RestTyped ==
  ASSUME NEW pd \in PendingType
  PROVE  /\ pd.left = 1 => Rest(pd) = NoPending
         /\ pd.left # 1 => /\ Rest(pd) = [pd EXCEPT !.left = @ - 1]
                           /\ Rest(pd) \in PendingType
                           /\ Rest(pd).obj = pd.obj /\ Rest(pd).pos = pd.pos
                           /\ Rest(pd).left = pd.left - 1
<1>1. CASE pd.left = 1
  BY <1>1 DEF Rest
<1>2. CASE pd.left # 1
  <2>1. Rest(pd) = [pd EXCEPT !.left = @ - 1]
    BY <1>2 DEF Rest
  <2>2. pd.left - 1 \in 1 .. Cells
    BY <1>2 DEF PendingType
  <2>3. QED
    BY <1>2, <2>1, <2>2 DEF PendingType
<1>3. QED
  BY <1>1, <1>2

(* A write burst, whatever is there. *)
LEMMA BurstTyped ==
  ASSUME TypeOK, NEW f, BanksInv(f), NEW b \in Bank, NEW pd \in PendingType,
         Burst(b, f, pd)
  PROVE  /\ BanksInv(flash')
         /\ pending' # NoPending => pending' \in PendingType /\ pending'.obj = pd.obj
         /\ target' \in [Object -> 0 .. Cells] /\ copied' \in [Object -> 0 .. Cells]
         /\ faults' \in 0 .. MaxFaults
         /\ OnlyStores(b, pd.obj)
<1> DEFINE next == pd.pos + Length(value[pd.obj]) - pd.left
           done == IF pd.left = 1 THEN pd.pos ELSE 0
<1>1. /\ target \in [Object -> 0 .. Cells] /\ copied \in [Object -> 0 .. Cells]
      /\ faults \in 0 .. MaxFaults
  BY DEF TypeOK
<1>2. f \in Banks /\ f[b] \in BankType /\ \A x \in Bank : Below(f[x], Cells)
  BY DEF BanksInv, Banks
<1>3. pd.pos \in 0 .. Cells /\ done \in 0 .. Cells
  BY DEF PendingType
<1>4. Rest(pd) # NoPending => Rest(pd) \in PendingType /\ Rest(pd).obj = pd.obj
  BY RestTyped
<1>5. CASE /\ flash' = [f EXCEPT ![b].cells[next] = Used] /\ pending' = Rest(pd)
           /\ IF b = a THEN target' = [target EXCEPT ![pd.obj] = done] /\ UNCHANGED copied
                       ELSE copied' = [copied EXCEPT ![pd.obj] = done] /\ UNCHANGED target
           /\ UNCHANGED faults
  <2> DEFINE N == PutCell(f[b], next, Used)
  <2>1. flash' = [f EXCEPT ![b] = N]
    BY ONLY <1>5 DEF PutCell
  <2>2. N \in BankType /\ Below(N, Cells)
    BY <1>2, CellUsed
  <2> HIDE DEF N
  <2>3. BanksInv(flash')
    BY <1>2, <2>1, <2>2 DEF BanksInv, Banks
  <2>4. target' \in [Object -> 0 .. Cells] /\ copied' \in [Object -> 0 .. Cells]
    <3> HIDE DEF done, next
    <3>1. QED
      BY <1>1, <1>3, <1>5
  <2>5. OnlyStores(b, pd.obj)
    <3> HIDE DEF done, next
    <3>1. QED
      BY <1>1, <1>5 DEF OnlyStores
  <2>6. QED
    BY <1>1, <1>4, <1>5, <2>3, <2>4, <2>5
<1>6. CASE /\ faults < MaxFaults /\ faults' = faults + 1
           /\ flash' = Delete(f, b, pd.pos) /\ pending' = NoPending
           /\ UNCHANGED <<target, copied>>
  BY <1>1, <1>3, <1>4, <1>6, DeleteTyped DEF OnlyStores
<1>7. QED
  BY <1>5, <1>6 DEF Burst

(* The room that is found for an object. *)
LEMMA RoomFacts ==
  ASSUME TypeOK, NEW b \in Bank, NEW v \in Value, RoomsFor(b, Length(v)) # {},
         NEW p, p = RoomFor(b, Length(v))
  PROVE  /\ p \in 1 .. Cells /\ p + Length(v) + 1 <= Cells
         /\ current[b] # 0 /\ current[b] <= p /\ CanWrite(flash[b], p, Length(v))
<1>1. current[b] \in 0 .. Cells + 1
  BY DEF TypeOK
<1>2. RoomsFor(b, Length(v)) \in SUBSET Nat
  BY <1>1 DEF RoomsFor
<1>3. p \in RoomsFor(b, Length(v))
  BY <1>2, MinOfPositions DEF RoomFor
<1>4. QED
  BY <1>1, <1>3 DEF RoomsFor, CanWrite

(* A header is written, whatever is there. *)
LEMMA HeaderTyped ==
  ASSUME TypesInv, NEW b \in Bank, NEW o \in Object, value[o] \in Value,
         RoomsFor(b, Length(value[o])) # {},
         NEW p, p = RoomFor(b, Length(value[o])),
         NEW h, h = [obj |-> o, val |-> value[o], pri |-> priority[o], live |-> TRUE]
  PROVE  /\ h \in Header
         /\ WithHeader(b, o) = [flash EXCEPT ![b] = PutCell(flash[b], p, h)]
         /\ BanksInv(WithHeader(b, o))
         /\ [obj |-> o, pos |-> p, left |-> Bursts[value[o]]] \in PendingType
<1> DEFINE v == value[o]
<1>1. p \in 1 .. Cells /\ p + Length(v) + 1 <= Cells
  BY RoomFacts DEF TypesInv
<1>2. Bursts[v] \in Nat /\ Bursts[v] > 0 /\ Length(v) = 1 + Bursts[v]
  BY Lengths
<1>3. h \in Header
  BY DEF TypesInv, TypeOK, Header
<1>4. flash \in Banks /\ flash[b] \in BankType /\ \A x \in Bank : Below(flash[x], Cells)
  BY DEF TypesInv, BanksInv, Banks
<1> DEFINE H == PutCell(flash[b], p, h)
<1>5. WithHeader(b, o) = [flash EXCEPT ![b] = H]
  BY DEF WithHeader, PutCell
<1>6. H \in BankType /\ \A q \in 1 .. Cells : H.cells[q] = IF q = p THEN h ELSE flash[b].cells[q]
  <2>1. h \in Cell
    BY <1>3, CellFacts
  <2>2. QED
    BY ONLY <1>4, <2>1, PutCellType
<1> HIDE DEF H
<1>7. Below(H, Cells)
  <2>1. ASSUME NEW q \in Headers(H) PROVE q + Length(H.cells[q].val) <= Cells
    <3>1. CASE q = p
      <4>1. H.cells[q].val = v
        BY <1>1, <1>6, <3>1
      <4>2. QED
        BY <1>1, <1>2, <3>1, <4>1
    <3>2. CASE q # p
      BY <1>4, <1>6, <3>2 DEF Below, Headers
    <3>3. QED
      BY <3>1, <3>2
  <2>2. QED
    BY <2>1 DEF Below
<1>8. BanksInv(WithHeader(b, o))
  BY <1>4, <1>5, <1>6, <1>7 DEF BanksInv, Banks
<1>9. [obj |-> o, pos |-> p, left |-> Bursts[v]] \in PendingType
  BY <1>1, <1>2 DEF PendingType
<1>10. QED
  BY <1>3, <1>5, <1>8, <1>9 DEF H

(* What WriteHeader does to the types. *)
LEMMA WriteHeaderTyped ==
  ASSUME TypesInv, NEW b \in Bank, NEW o \in Object, value[o] # NoValue,
         RoomsFor(b, Length(value[o])) # {}, WriteHeader(b, o)
  PROVE  /\ BanksInv(flash') /\ current' \in [Bank -> 0 .. Cells + 1]
         /\ pending' # NoPending => pending' \in PendingType /\ pending'.obj = o
         /\ target' \in [Object -> 0 .. Cells] /\ copied' \in [Object -> 0 .. Cells]
         /\ faults' \in 0 .. MaxFaults
         /\ OnlyStores(b, o)
<1> DEFINE v == value[o]
           p == RoomFor(b, Length(v))
           pd == [obj |-> o, pos |-> p, left |-> Bursts[v]]
<1>1. v \in Value
  BY DEF TypesInv, TypeOK
<1>2. p \in 1 .. Cells /\ p + Length(v) + 1 <= Cells
  BY <1>1, RoomFacts DEF TypesInv
<1>3. Bursts[v] \in Nat /\ Bursts[v] > 0 /\ Length(v) = 1 + Bursts[v]
  BY <1>1, Lengths
<1>4. BanksInv(WithHeader(b, o)) /\ pd \in PendingType
  BY <1>1, HeaderTyped
<1>5. Burst(b, WithHeader(b, o), pd) /\ current' = [current EXCEPT ![b] = p + Length(v)]
  BY DEF WriteHeader
<1>6. current' \in [Bank -> 0 .. Cells + 1]
  <2>1. p + Length(v) \in 0 .. Cells + 1
    BY <1>2, <1>3
  <2>2. current \in [Bank -> 0 .. Cells + 1]
    BY DEF TypesInv, TypeOK
  <2> HIDE DEF p, v
  <2>3. QED
    BY <1>5, <2>1, <2>2
<1>7. pd.obj = o
  OBVIOUS
<1> HIDE DEF pd
<1>8. QED
  BY <1>4, <1>5, <1>6, <1>7, BurstTyped DEF TypesInv

(* A search for room in vain. *)
LEMMA NoPlaceTyped ==
  ASSUME TypesInv, NEW b \in Bank, NEW o \in Object, value[o] # NoValue, NoPlace(b, o)
  PROVE  current' \in [Bank -> 0 .. Cells + 1]
<1>1. value[o] \in Value /\ current \in [Bank -> 0 .. Cells + 1]
  BY DEF TypesInv, TypeOK
<1> DEFINE end == Cells - Length(value[o])
<1>2. end \in 0 .. Cells + 1
  BY <1>1, Lengths
<1>3. current' = [current EXCEPT ![b] = IF @ = 0 \/ @ > end THEN @ ELSE end]
  BY DEF NoPlace
<1> HIDE DEF end
<1>4. QED
  BY <1>1, <1>2, <1>3

(* What Initialize finds of an object. *)
LEMMA FoundFacts ==
  ASSUME NEW bank \in BankType, NEW o
  PROVE  /\ FoundIn(bank, o) \in 0 .. Cells
         /\ FoundIn(bank, o) # 0 =>
              /\ FoundIn(bank, o) \in Good(bank) /\ FoundIn(bank, o) \in 1 .. Cells
              /\ bank.cells[FoundIn(bank, o)] \in Header
              /\ bank.cells[FoundIn(bank, o)].obj = o
         /\ FoundIn(bank, o) = 0 => \A p \in Good(bank) : bank.cells[p].obj # o
<1> DEFINE found == {p \in Good(bank) : bank.cells[p].obj = o}
<1>1. FoundIn(bank, o) = IF found = {} THEN 0 ELSE Min(found)
  BY DEF FoundIn
<1>2. Good(bank) \subseteq Headers(bank)
  BY DEF Good
<1>3. found \in SUBSET (1 .. Cells)
  BY <1>2, HeaderFacts
<1>4. found # {} => Min(found) \in found
  <2>1. found \in SUBSET Nat
    BY <1>3
  <2>2. QED
    BY <2>1, MinOfPositions
<1>5. found # {} => /\ Min(found) \in Good(bank) /\ Min(found) \in 1 .. Cells
                    /\ bank.cells[Min(found)] \in Header /\ bank.cells[Min(found)].obj = o
  BY <1>2, <1>3, <1>4, HeaderFacts
<1>6. found # {} => Min(found) # 0
  BY <1>5
<1>7. found = {} => \A p \in Good(bank) : bank.cells[p].obj # o
  OBVIOUS
<1> HIDE DEF found
<1>8. QED
  BY <1>1, <1>5, <1>6, <1>7

(* What Initialize does to the flash. *)
LEMMA FlashAtBootFacts ==
  ASSUME NEW f, BanksInv(f)
  PROVE  /\ BankAtBoot(f) \in Bank /\ BanksInv(FlashAtBoot(f))
         /\ FlashAtBoot(f)[Other(BankAtBoot(f))] = f[Other(BankAtBoot(f))]
         /\ \/ FlashAtBoot(f)[BankAtBoot(f)] = f[BankAtBoot(f)]
            \/ Good(FlashAtBoot(f)[BankAtBoot(f)]) = {}
<1> DEFINE b == BankAtBoot(f)
           F == [Blank EXCEPT !.header = TRUE, !.seq = 1]
<1>1. b \in Bank
  BY DEF BankAtBoot, Bank
<1>2. f \in Banks /\ \A x \in Bank : Below(f[x], Cells)
  BY DEF BanksInv
<1>3. F \in BankType /\ Below(F, Cells) /\ Good(F) = {}
  BY BlankType, NothingThere
<1> HIDE DEF b, F
<1>4. FlashAtBoot(f) = f \/ FlashAtBoot(f) = [f EXCEPT ![b] = F]
  BY DEF FlashAtBoot, b, F
<1>5. Other(b) \in Bank /\ Other(b) # b
  BY <1>1, OtherBank
<1>6. CASE FlashAtBoot(f) = f
  BY <1>1, <1>6 DEF b
<1>7. CASE FlashAtBoot(f) = [f EXCEPT ![b] = F]
  <2>1. BanksInv(FlashAtBoot(f))
    BY <1>1, <1>2, <1>3, <1>7 DEF BanksInv, Banks
  <2>2. FlashAtBoot(f)[b] = F /\ FlashAtBoot(f)[Other(b)] = f[Other(b)]
    BY <1>1, <1>2, <1>5, <1>7 DEF Banks
  <2>3. QED
    BY <1>1, <1>3, <2>1, <2>2 DEF b
<1>8. QED
  BY <1>4, <1>6, <1>7

(* What power can leave in flash: the banks as they are, but for a header  *)
(* without data, a header cut short, or the bank that is being erased.     *)
HeaderLeft(f, b, o) ==
  /\ o \in Object /\ value[o] \in Value /\ RoomsFor(b, Length(value[o])) # {}
  /\ f \in {WithHeader(b, o), [flash EXCEPT ![b].cells[RoomFor(b, Length(value[o]))] = Used]}

HalfErased(f) ==
  LET b == Other(a)
  IN f \in {[flash EXCEPT ![b].header = FALSE], [flash EXCEPT ![b].cells = EraseFirst(flash[b]).cells]}

(* These are all the banks that power can leave.                           *)
LEMMA LeftByPowerLoss ==
  ASSUME TypesInv, NEW f \in AtPowerLoss
  PROVE  \/ f = flash
         \/ \E o \in Object : \/ state = "FlushNextObject" /\ HeaderLeft(f, a, o)
                              \/ state = "CopyToOtherBank" /\ HeaderLeft(f, Other(a), o)
         \/ state = "EraseSector" /\ HalfErased(f)
<1> DEFINE b == IF state = "FlushNextObject" THEN a ELSE Other(a)
           o == IF state = "FlushNextObject" THEN First(Unsaved) ELSE First(Uncopied)
           writes == /\ run # "nobody" /\ pending = NoPending
                     /\ state \in {"FlushNextObject", "CopyToOtherBank"}
                     /\ o # NoObject /\ RoomsFor(b, Length(value[o])) # {}
           erases == run # "nobody" /\ state = "EraseSector"
           W == {WithHeader(b, o), [flash EXCEPT ![b].cells[RoomFor(b, Length(value[o]))] = Used]}
           E == {[flash EXCEPT ![Other(a)].header = FALSE],
                 [flash EXCEPT ![Other(a)].cells = EraseFirst(flash[Other(a)]).cells]}
<1>1. f \in {flash} \cup (IF ~writes THEN {} ELSE W) \cup (IF ~erases THEN {} ELSE E)
  <2>1. erases => b = Other(a)
    OBVIOUS
  <2>2. AtPowerLoss = {flash} \cup (IF ~writes THEN {} ELSE W)
          \cup (IF ~erases THEN {}
                ELSE {[flash EXCEPT ![b].header = FALSE],
                      [flash EXCEPT ![b].cells = EraseFirst(flash[b]).cells]})
    BY DEF AtPowerLoss
  <2> HIDE DEF b, writes, W, erases
  <2>3. QED
    BY <2>1, <2>2
<1>2. Unsaved \in SUBSET Object /\ Uncopied \in SUBSET Object
  BY DEF Unsaved, Uncopied
<1>3. First(Unsaved) # NoObject => First(Unsaved) \in Unsaved
  <2>1. list \in SetToSeqs(Object)
    BY DEF TypesInv, TypeOK
  <2>2. QED
    BY <1>2, <2>1, FirstOf
<1>4. First(Uncopied) # NoObject => First(Uncopied) \in Uncopied
  <2>1. list \in SetToSeqs(Object)
    BY DEF TypesInv, TypeOK
  <2>2. QED
    BY <1>2, <2>1, FirstOf
<1>5. state = "FlushNextObject" /\ o # NoObject => o \in Object /\ value[o] \in Value
  BY <1>3 DEF Unsaved, TypesInv, TypeOK
<1>6. state = "CopyToOtherBank" /\ o # NoObject => o \in Object /\ value[o] \in Value
  <2>1. \A x \in Uncopied : x \in Object /\ value[x] \in Value
    BY DEF Uncopied, TypesInv, TypeOK, Persisted
  <2>2. QED
    BY <1>4, <2>1
<1>7. ASSUME writes, f \in W
      PROVE  \E x \in Object : \/ state = "FlushNextObject" /\ HeaderLeft(f, a, x)
                               \/ state = "CopyToOtherBank" /\ HeaderLeft(f, Other(a), x)
  <2>1. CASE state = "FlushNextObject"
    <3>1. o \in Object /\ b = a /\ value[o] \in Value
      BY <1>5, <1>7, <2>1
    <3>2. HeaderLeft(f, a, o)
      <4> HIDE DEF o
      <4>1. QED
        BY <1>7, <3>1 DEF HeaderLeft
    <3>3. QED
      BY <2>1, <3>1, <3>2
  <2>2. CASE state = "CopyToOtherBank"
    <3>1. o \in Object /\ b = Other(a) /\ value[o] \in Value
      BY <1>6, <1>7, <2>2
    <3>2. HeaderLeft(f, Other(a), o)
      <4> HIDE DEF o
      <4>1. QED
        BY <1>7, <3>1 DEF HeaderLeft
    <3>3. QED
      BY <2>2, <3>1, <3>2
  <2>3. QED
    BY <1>7, <2>1, <2>2
<1>8. ASSUME erases, f \in E PROVE state = "EraseSector" /\ HalfErased(f)
  BY <1>8 DEF HalfErased
<1> HIDE DEF writes, erases, W, E
<1>9. QED
  BY <1>1, <1>7, <1>8

(* Every restored list is an arrangement of the objects.                   *)
LEMMA InitTyped == Init => TypesInv
<1> SUFFICES ASSUME Init PROVE TypesInv
  OBVIOUS
<1> DEFINE F == [Blank EXCEPT !.header = TRUE, !.seq = 1]
<1>1. /\ flash = [b \in Bank |-> IF b = 0 THEN F ELSE Blank]
      /\ a = 0 /\ current = [b \in Bank |-> 1 - b]
      /\ value = [o \in Object |-> NoValue]
      /\ target = [o \in Object |-> 0] /\ copied = target
      /\ priority = InitialPriority /\ list \in SetToSeqs(Object)
      /\ state = "FlushNextObject" /\ pending = NoPending
      /\ queued = TRUE /\ run = "nobody" /\ faults = 0
  BY DEF Init, Restorations
<1>2. F \in BankType /\ Blank \in BankType /\ Below(F, Cells) /\ Below(Blank, Cells)
  BY BlankType, NothingThere
<1> HIDE DEF F
<1>3. BanksInv(flash)
  BY <1>1, <1>2 DEF BanksInv, Banks
<1>4. current \in [Bank -> 0 .. Cells + 1] /\ a \in Bank
  BY <1>1 DEF Bank
<1>5. value \in [Object -> Value \cup {NoValue}] /\ target \in [Object -> 0 .. Cells]
  BY <1>1
<1>6. TypeOK
  BY <1>1, <1>3, <1>4, <1>5 DEF TypeOK, BanksInv, Banks, BankType, States
<1>7. Persisted
  BY <1>1 DEF Persisted, CopyStates
<1>8. QED
  BY <1>3, <1>6, <1>7 DEF TypesInv

(* The returns of AdvanceState. *)
LEMMA ReturnTyped ==
  ASSUME TypeOK
  PROVE  /\ \A r \in BOOLEAN : Return(r) =>
              queued' \in BOOLEAN /\ run' \in {"nobody", "Callback", "Flush", "FlushAgain"}
         /\ \A s \in States : StateAfter(s) \in {s, "FlushNextObject"} /\ StateAfter(s) \in States
<1>1. queued \in BOOLEAN /\ run \in {"nobody", "Callback", "Flush", "FlushAgain"}
  BY DEF TypeOK
<1>2. \A r \in BOOLEAN : Return(r) =>
        queued' \in BOOLEAN /\ run' \in {"nobody", "Callback", "Flush", "FlushAgain"}
  BY <1>1 DEF Return
<1>3. "FlushNextObject" \in States
  BY DEF States
<1>4. \A s \in States : StateAfter(s) \in {s, "FlushNextObject"} /\ StateAfter(s) \in States
  BY <1>3 DEF StateAfter
<1>5. QED
  BY <1>2, <1>4

(* The rest of a pending object is written. *)
LEMMA ContinueTyped ==
  ASSUME TypesInv, NEW b \in Bank, Continue(b),
         b = a \/ state = "CopyToOtherBank", state \in States \ {"EraseSector"}
  PROVE  TypesInv'
<1>1. TypeOK /\ BanksInv(flash) /\ Persisted
  BY DEF TypesInv
<1>2. pending \in PendingType /\ value[pending.obj] # NoValue /\ Burst(b, flash, pending)
  BY <1>1 DEF TypeOK, Continue, PendingType
<1>3. /\ BanksInv(flash')
      /\ pending' # NoPending => pending' \in PendingType /\ pending'.obj = pending.obj
      /\ target' \in [Object -> 0 .. Cells] /\ copied' \in [Object -> 0 .. Cells]
      /\ faults' \in 0 .. MaxFaults
      /\ OnlyStores(b, pending.obj)
  BY <1>1, <1>2, BurstTyped
<1>4. UNCHANGED <<run, queued, a, current, value, priority, list, state>>
  BY DEF Continue, Stay
<1>5. TypeOK'
  BY <1>1, <1>2, <1>3, <1>4 DEF TypeOK, BanksInv, Banks, BankType, PendingType
<1>6. Persisted'
  BY <1>1, <1>2, <1>3, <1>4 DEF Persisted, OnlyStores, CopyStates
<1>7. QED
  BY <1>3, <1>5, <1>6 DEF TypesInv

(* A new object is begun. *)
LEMMA BeginTyped ==
  ASSUME TypesInv, NEW b \in Bank, NEW o \in Object, value[o] # NoValue,
         RoomsFor(b, Length(value[o])) # {}, WriteHeader(b, o),
         UNCHANGED <<run, queued, a, value, priority, list, state>>,
         state \in States \ {"EraseSector"}
  PROVE  TypesInv'
<1>1. TypeOK /\ BanksInv(flash) /\ Persisted
  BY DEF TypesInv
<1>2. /\ BanksInv(flash') /\ current' \in [Bank -> 0 .. Cells + 1]
      /\ pending' # NoPending => pending' \in PendingType /\ pending'.obj = o
      /\ target' \in [Object -> 0 .. Cells] /\ copied' \in [Object -> 0 .. Cells]
      /\ faults' \in 0 .. MaxFaults
      /\ OnlyStores(b, o)
  BY WriteHeaderTyped
<1>3. TypeOK'
  BY <1>1, <1>2 DEF TypeOK, BanksInv, Banks, BankType, PendingType
<1>4. Persisted'
  BY <1>1, <1>2 DEF Persisted, OnlyStores
<1>5. QED
  BY <1>2, <1>3, <1>4 DEF TypesInv

(* The first object that is not saved, or not copied, has a value.         *)
LEMMA NextObject ==
  ASSUME TypesInv
  PROVE  /\ First(Unsaved) # NoObject =>
              First(Unsaved) \in Unsaved /\ First(Unsaved) \in Object /\ value[First(Unsaved)] # NoValue
         /\ First(Uncopied) # NoObject =>
              First(Uncopied) \in Uncopied /\ First(Uncopied) \in Object /\ value[First(Uncopied)] # NoValue
         /\ First(Uncopied) = NoObject => Uncopied = {}
<1>1. list \in SetToSeqs(Object) /\ NoObject \notin Object
  BY DEF TypesInv, TypeOK
<1>2. Unsaved \in SUBSET Object /\ Uncopied \in SUBSET Object
  BY DEF Unsaved, Uncopied
<1>3. IF Unsaved = {} THEN First(Unsaved) = NoObject ELSE First(Unsaved) \in Unsaved
  BY <1>1, <1>2, FirstOf
<1>4. IF Uncopied = {} THEN First(Uncopied) = NoObject ELSE First(Uncopied) \in Uncopied
  BY <1>1, <1>2, FirstOf
<1>5. \A o \in Unsaved : value[o] # NoValue
  BY DEF Unsaved
<1>6. \A o \in Uncopied : value[o] # NoValue
  BY DEF Uncopied, TypesInv, Persisted
<1>7. QED
  BY <1>1, <1>2, <1>3, <1>4, <1>5, <1>6

(* The steps of AdvanceState. *)
LEMMA FlushTyped == TypesInv /\ FlushNextObject => TypesInv'
<1> SUFFICES ASSUME TypesInv, FlushNextObject PROVE TypesInv'
  OBVIOUS
<1> DEFINE o == First(Unsaved)
<1>1. TypeOK /\ BanksInv(flash) /\ Persisted
  BY DEF TypesInv
<1>2. state = "FlushNextObject" /\ state \in States \ {"EraseSector"} /\ a \in Bank
  BY <1>1 DEF FlushNextObject, TypeOK
<1>3. o # NoObject => o \in Object /\ value[o] # NoValue
  BY NextObject
<1>4. {"Idle", "Erase"} \subseteq States
  BY DEF States
<1> HIDE DEF o
<1>5. CASE Continue(a)
  BY <1>2, <1>5, ContinueTyped
<1>6. CASE /\ o = NoObject /\ state' = StateAfter("Idle") /\ Return(FALSE)
           /\ UNCHANGED <<flash, a, current, weak, pending, faults>>
  <2>1. state' \in {"Idle", "FlushNextObject"} /\ state' \in States
        /\ queued' \in BOOLEAN /\ run' \in {"nobody", "Callback", "Flush", "FlushAgain"}
    BY <1>1, <1>4, <1>6, ReturnTyped
  <2>2. QED
    BY <1>1, <1>6, <2>1
    DEF TypesInv, TypeOK, BanksInv, Banks, BankType, Persisted, weak, CopyStates
<1>7. CASE /\ o # NoObject /\ RoomsFor(a, Length(value[o])) # {} /\ WriteHeader(a, o)
           /\ Stay /\ UNCHANGED <<a, value, priority, list, state>>
  BY <1>2, <1>3, <1>7, BeginTyped DEF Stay
<1>8. CASE /\ o # NoObject /\ NoPlace(a, o)
           /\ IF UsedUpTo(o) < SafeCells THEN state' = StateAfter("Erase") /\ Return(TRUE)
                                         ELSE state' = StateAfter("Idle") /\ Return(FALSE)
           /\ UNCHANGED <<flash, a, weak, pending, faults>>
  <2>1. current' \in [Bank -> 0 .. Cells + 1]
    BY <1>2, <1>3, <1>8, NoPlaceTyped
  <2>2. state' \in {"Idle", "Erase", "FlushNextObject"} /\ state' \in States
        /\ queued' \in BOOLEAN /\ run' \in {"nobody", "Callback", "Flush", "FlushAgain"}
    BY <1>1, <1>4, <1>8, ReturnTyped
  <2>3. QED
    BY <1>1, <1>8, <2>1, <2>2
    DEF TypesInv, TypeOK, BanksInv, Banks, BankType, Persisted, weak, CopyStates
<1>9. QED
  BY <1>5, <1>6, <1>7, <1>8 DEF FlushNextObject, o

(* AdvanceState where nothing is pending.                                  *)
LEMMA IdleTyped == TypesInv /\ Idle => TypesInv'
<1> SUFFICES ASSUME TypesInv, Idle PROVE TypesInv'
  OBVIOUS
<1>1. TypeOK /\ BanksInv(flash) /\ Persisted /\ "Idle" \in States
  BY DEF TypesInv, States
<1>2. state' \in {"Idle", "FlushNextObject"} /\ state' \in States
      /\ queued' \in BOOLEAN /\ run' \in {"nobody", "Callback", "Flush", "FlushAgain"}
  BY <1>1, ReturnTyped DEF Idle
<1>3. QED
  BY <1>1, <1>2
  DEF Idle, TypesInv, TypeOK, BanksInv, Banks, BankType, Persisted, weak, CopyStates

(* AdvanceState where the change of banks begins.                          *)
LEMMA EraseTyped == TypesInv /\ Erase => TypesInv'
<1> SUFFICES ASSUME TypesInv, Erase PROVE TypesInv'
  OBVIOUS
<1>1. TypeOK /\ BanksInv(flash) /\ Persisted
  BY DEF TypesInv
<1>2. "EraseSector" \in States /\ "EraseSector" \notin CopyStates
  BY DEF States, CopyStates
<1>3. TypeOK'
  BY <1>1, <1>2 DEF Erase, Stay, TypeOK, BanksInv
<1>4. Persisted'
  BY <1>1, <1>2 DEF Erase, Stay, Persisted
<1>5. QED
  BY <1>1, <1>3, <1>4 DEF Erase, TypesInv

(* What EraseSector makes of bank B. *)
LEMMA SectorErased ==
  ASSUME TypesInv, EraseSector,
         NEW b, b = Other(a), NEW E, E = Format(EraseFirst(flash[b]))
  PROVE  /\ b \in Bank /\ E \in BankType /\ E.header = TRUE /\ E.seq = Erased
         /\ Below(E, Cells)
         /\ BlockCells = Cells => \A p \in 1 .. Cells : E.cells[p] = Free
         /\ flash' = [flash EXCEPT ![b] = E] /\ current' = [current EXCEPT ![b] = Behind(E)]
<1>1. a \in Bank /\ flash \in Banks /\ \A x \in Bank : Below(flash[x], Cells)
  BY DEF TypesInv, TypeOK, BanksInv
<1>2. b \in Bank
  BY <1>1, OtherBank
<1>3. flash[b] \in BankType /\ Below(flash[b], Cells)
  BY <1>1, <1>2 DEF Banks
<1> DEFINE F == EraseFirst(flash[b])
<1>4. /\ F \in BankType /\ Below(F, Cells)
      /\ BlockCells = Cells => \A p \in 1 .. Cells : F.cells[p] = Free
  BY <1>3, FirstErased
<1>5. E \in BankType /\ E.cells = F.cells /\ E.header = TRUE /\ E.seq = Erased
  BY <1>4, Formatted
<1>6. Below(E, Cells)
  BY <1>4, <1>5 DEF Below, Headers
<1>7. flash' = [flash EXCEPT ![b] = E] /\ current' = [current EXCEPT ![b] = Behind(E)]
  BY DEF EraseSector
<1> HIDE DEF F
<1>8. QED
  BY <1>2, <1>4, <1>5, <1>6, <1>7

(* AdvanceState where bank B is erased.                                    *)
LEMMA EraseSectorTyped == TypesInv /\ EraseSector => TypesInv'
<1> SUFFICES ASSUME TypesInv, EraseSector PROVE TypesInv'
  OBVIOUS
<1> DEFINE b == Other(a)
           E == Format(EraseFirst(flash[b]))
<1>1. TypeOK /\ BanksInv(flash) /\ Persisted
  BY DEF TypesInv
<1>2. /\ b \in Bank /\ E \in BankType /\ Below(E, Cells)
      /\ flash' = [flash EXCEPT ![b] = E] /\ current' = [current EXCEPT ![b] = Behind(E)]
  BY SectorErased
<1>3. /\ state = "EraseSector" /\ state' = "CopyToOtherBank"
      /\ UNCHANGED <<run, queued, a, weak, pending, faults>>
  BY DEF EraseSector, Stay
<1> HIDE DEF b, E
<1>4. Behind(E) \in 0 .. Cells + 1
  BY <1>2, BehindFacts
<1>5. BanksInv(flash')
  BY <1>1, <1>2 DEF BanksInv, Banks
<1>6. current' \in [Bank -> 0 .. Cells + 1]
  BY <1>1, <1>2, <1>4 DEF TypeOK
<1>7. TypeOK'
  BY <1>1, <1>3, <1>5, <1>6 DEF TypeOK, BanksInv, Banks, BankType, weak, States
<1>8. Persisted'
  BY <1>1, <1>3 DEF Persisted, weak, CopyStates
<1>9. QED
  BY <1>5, <1>7, <1>8 DEF TypesInv

(* AdvanceState where the objects of bank A are copied to bank B.          *)
LEMMA CopyTyped == TypesInv /\ CopyToOtherBank => TypesInv'
<1> SUFFICES ASSUME TypesInv, CopyToOtherBank PROVE TypesInv'
  OBVIOUS
<1> DEFINE b == Other(a)
           o == First(Uncopied)
           fits == o # NoObject /\ UsedUpTo(o) < SafeCells
<1>1. TypeOK /\ BanksInv(flash) /\ Persisted
  BY DEF TypesInv
<1>2. state = "CopyToOtherBank" /\ state \in States \ {"EraseSector"} /\ b \in Bank
  BY <1>1, OtherBank DEF CopyToOtherBank, TypeOK
<1>3. o # NoObject => o \in Object /\ value[o] # NoValue
  BY NextObject
<1>4. \/ Continue(b)
      \/ /\ fits /\ RoomsFor(b, Length(value[o])) # {} /\ WriteHeader(b, o)
         /\ Stay /\ UNCHANGED <<a, value, priority, list, state>>
      \/ /\ IF fits THEN NoPlace(b, o) ELSE UNCHANGED current
         /\ state' = "CopyBackToRam"
         /\ Stay /\ UNCHANGED <<flash, a, weak, pending, faults>>
  BY DEF CopyToOtherBank
<1> HIDE DEF b, o
<1>5. CASE Continue(b)
  BY <1>2, <1>5, ContinueTyped
<1>6. CASE /\ fits /\ RoomsFor(b, Length(value[o])) # {} /\ WriteHeader(b, o)
           /\ Stay /\ UNCHANGED <<a, value, priority, list, state>>
  BY <1>2, <1>3, <1>6, BeginTyped DEF Stay
<1>7. CASE /\ IF fits THEN NoPlace(b, o) ELSE UNCHANGED current
           /\ state' = "CopyBackToRam"
           /\ Stay /\ UNCHANGED <<flash, a, weak, pending, faults>>
  <2>1. current' \in [Bank -> 0 .. Cells + 1]
    <3>1. CASE fits
      BY <1>2, <1>3, <1>7, <3>1, NoPlaceTyped
    <3>2. CASE ~fits
      BY <1>1, <1>7, <3>2 DEF TypeOK
    <3>3. QED
      BY <3>1, <3>2
  <2>2. QED
    BY <1>1, <1>2, <1>7, <2>1
    DEF TypesInv, TypeOK, BanksInv, Banks, BankType, Persisted, weak, CopyStates, States, Stay
<1>8. QED
  BY <1>4, <1>5, <1>6, <1>7

(* AdvanceState where objects that bank B has no room for are given up.    *)
LEMMA BackToRamTyped == TypesInv /\ CopyBackToRam => TypesInv'
<1> SUFFICES ASSUME TypesInv, CopyBackToRam PROVE TypesInv'
  OBVIOUS
<1> DEFINE o == First(Uncopied)
<1>1. TypeOK /\ BanksInv(flash) /\ Persisted
  BY DEF TypesInv
<1>2. /\ state = "CopyBackToRam"
      /\ UNCHANGED <<a, current, value, copied, priority, list, pending>>
  BY DEF CopyBackToRam
<1>3. o # NoObject => o \in Object
  BY NextObject
<1>4. {"SwitchBank", "Erase", "CopyBackToRam"} \subseteq States
  BY DEF States
<1>5. \/ /\ state' = "SwitchBank" /\ Stay /\ UNCHANGED <<flash, target, faults>>
      \/ /\ o # NoObject
         /\ flash' = Delete(flash, a, target[o]) /\ target' = [target EXCEPT ![o] = 0]
         /\ Stay /\ UNCHANGED <<state, faults>>
      \/ /\ faults < MaxFaults /\ faults' = faults + 1
         /\ state' = StateAfter("Erase") /\ Return(TRUE)
         /\ UNCHANGED <<flash, target>>
  BY DEF CopyBackToRam
<1> HIDE DEF o
<1>6. CASE state' = "SwitchBank" /\ Stay /\ UNCHANGED <<flash, target, faults>>
  BY <1>1, <1>2, <1>4, <1>6
  DEF TypesInv, TypeOK, BanksInv, Banks, BankType, Persisted, CopyStates, Stay
<1>7. CASE /\ o # NoObject
           /\ flash' = Delete(flash, a, target[o]) /\ target' = [target EXCEPT ![o] = 0]
           /\ Stay /\ UNCHANGED <<state, faults>>
  <2>1. a \in Bank /\ target[o] \in 0 .. Cells /\ target \in [Object -> 0 .. Cells]
    BY <1>1, <1>3, <1>7 DEF TypeOK
  <2>2. BanksInv(flash')
    BY <1>1, <1>7, <2>1, DeleteTyped
  <2>3. /\ target' \in [Object -> 0 .. Cells]
        /\ \A x \in Object : target'[x] = 0 \/ target'[x] = target[x]
    <3>1. target' = [target EXCEPT ![o] = 0] /\ 0 \in 0 .. Cells
      BY <1>7
    <3>2. \A x \in Object : target'[x] = IF x = o THEN 0 ELSE target[x]
      BY <2>1, <3>1
    <3>3. target' \in [Object -> 0 .. Cells]
      BY <2>1, <3>1
    <3>4. QED
      BY <3>2, <3>3
  <2>4. TypeOK'
    BY <1>1, <1>2, <1>7, <2>2, <2>3 DEF TypeOK, BanksInv, Banks, BankType, Stay
  <2>5. Persisted'
    BY <1>1, <1>2, <1>7, <2>3 DEF Persisted
  <2>6. QED
    BY <2>2, <2>4, <2>5 DEF TypesInv
<1>8. CASE /\ faults < MaxFaults /\ faults' = faults + 1
           /\ state' = StateAfter("Erase") /\ Return(TRUE)
           /\ UNCHANGED <<flash, target>>
  <2>1. state' \in {"Erase", "FlushNextObject"} /\ state' \in States
        /\ queued' \in BOOLEAN /\ run' \in {"nobody", "Callback", "Flush", "FlushAgain"}
    BY <1>1, <1>4, <1>8, ReturnTyped
  <2>2. faults' \in 0 .. MaxFaults
    BY <1>1, <1>8 DEF TypeOK
  <2>3. QED
    BY <1>1, <1>2, <1>8, <2>1, <2>2
    DEF TypesInv, TypeOK, BanksInv, Banks, BankType, Persisted, CopyStates
<1>9. QED
  BY <1>5, <1>6, <1>7, <1>8

(* The sequence numbers are written, and the cells stay as they are.       *)
LEMMA Sequenced ==
  ASSUME NEW f \in Banks, a \in Bank, NEW g, g = SetSequence(f)
  PROVE  /\ g \in Banks
         /\ \A b \in Bank : g[b].cells = f[b].cells /\ g[b].header = f[b].header
         /\ g[a].seq = IF f[a].seq = Erased THEN Erased ELSE 1
         /\ g[Other(a)].seq = IF f[a].seq = Erased THEN 0 ELSE 2
<1> DEFINE b == Other(a)
<1>1. b \in Bank /\ b # a /\ \A x \in Bank : x = a \/ x = b
  BY OtherBank
<1>2. f[a] \in BankType /\ f[b] \in BankType /\ {0, 1, 2} \subseteq 0 .. Erased
  BY <1>1 DEF Banks, Erased
<1> HIDE DEF b
<1>3. \A n \in {0, 1, 2}, x \in Bank : [f[x] EXCEPT !.seq = n] \in BankType
  BY <1>2 DEF Banks, BankType
<1>4. CASE f[a].seq = Erased
  <2>1. g = [f EXCEPT ![b] = [f[b] EXCEPT !.seq = 0]]
    BY <1>4 DEF SetSequence, b
  <2>2. g \in Banks
    BY <1>1, <1>3, <2>1 DEF Banks
  <2>3. QED
    BY <1>1, <1>2, <1>4, <2>1, <2>2 DEF Banks, BankType, b
<1>5. CASE f[a].seq # Erased
  <2>1. g = [f EXCEPT ![b] = [f[b] EXCEPT !.seq = 2], ![a] = [f[a] EXCEPT !.seq = 1]]
    BY <1>1, <1>5 DEF SetSequence, b, Banks
  <2>2. g \in Banks
    BY <1>1, <1>3, <2>1 DEF Banks
  <2>3. QED
    BY <1>1, <1>2, <1>5, <2>1, <2>2 DEF Banks, BankType, b
<1>6. QED
  BY <1>4, <1>5

(* AdvanceState where the banks change roles.                              *)
LEMMA SwitchTyped == TypesInv /\ SwitchBank => TypesInv'
<1> SUFFICES ASSUME TypesInv, SwitchBank PROVE TypesInv'
  OBVIOUS
<1>1. TypeOK /\ BanksInv(flash) /\ Persisted /\ flash \in Banks /\ a \in Bank
  BY DEF TypesInv, TypeOK, BanksInv
<1>2. /\ state = "SwitchBank" /\ state' = "FlushNextObject"
      /\ target' = copied /\ copied' = [o \in Object |-> 0]
      /\ flash' = SetSequence(flash) /\ a' = Other(a)
      /\ UNCHANGED <<run, queued, current, value, priority, list, pending, faults>>
  BY DEF SwitchBank, Stay
<1>3. flash' \in Banks /\ \A b \in Bank : flash'[b].cells = flash[b].cells
  BY <1>1, <1>2, Sequenced
<1>4. BanksInv(flash')
  BY <1>1, <1>3 DEF BanksInv, Below, Headers
<1>5. a' \in Bank
  BY <1>1, <1>2, OtherBank
<1>6. copied' \in [Object -> 0 .. Cells] /\ target' \in [Object -> 0 .. Cells]
  BY <1>1, <1>2 DEF TypeOK
<1>7. TypeOK'
  BY <1>1, <1>2, <1>3, <1>5, <1>6 DEF TypeOK, Banks, BankType, States
<1>8. Persisted'
  BY <1>1, <1>2 DEF Persisted, CopyStates
<1>9. QED
  BY <1>4, <1>7, <1>8 DEF TypesInv

(* The completion, the callback and the flush of the whole.                *)
LEMMA RunTyped == TypesInv /\ (Yield \/ Callback \/ FlushAll) => TypesInv'
<1> SUFFICES ASSUME TypesInv, Yield \/ Callback \/ FlushAll PROVE TypesInv'
  OBVIOUS
<1>1. TypeOK /\ BanksInv(flash) /\ Persisted
  BY DEF TypesInv
<1>2. /\ queued' \in BOOLEAN /\ run' \in {"nobody", "Callback", "Flush", "FlushAgain"}
      /\ UNCHANGED <<flash, a, current, weak, state, pending, faults>>
  BY <1>1, ReturnTyped DEF Yield, Callback, FlushAll, TypeOK
<1>3. QED
  BY <1>1, <1>2 DEF TypesInv, TypeOK, BanksInv, Banks, BankType, Persisted, weak

(* What InvalidateEntry does to the types. *)
LEMMA InvalidateTyped ==
  ASSUME TypesInv, NEW o \in Object, NEW v \in Value \cup {NoValue}, InvalidateEntry(o, v)
  PROVE  /\ BanksInv(flash')
         /\ pending' = IF pending.obj = o THEN NoPending ELSE pending
         /\ target' = [target EXCEPT ![o] = 0] /\ target' \in [Object -> 0 .. Cells]
         /\ value' = [value EXCEPT ![o] = v] /\ value' \in [Object -> Value \cup {NoValue}]
         /\ pending' # NoPending => value'[pending'.obj] # NoValue
         /\ queued' \in BOOLEAN
         /\ state' \in States \ CopyStates /\ (state' = "EraseSector" => state = "EraseSector")
<1> DEFINE b == IF state = "FlushNextObject" THEN a ELSE Other(a)
           f == IF pending.obj = o THEN Delete(flash, b, pending.pos) ELSE flash
<1>1. TypeOK /\ BanksInv(flash) /\ Persisted
  BY DEF TypesInv
<1>2. /\ flash' = (IF target[o] # 0 THEN Delete(f, a, target[o]) ELSE f)
      /\ pending' = IF pending.obj = o THEN NoPending ELSE pending
      /\ target' = [target EXCEPT ![o] = 0]
      /\ value' = [value EXCEPT ![o] = v]
      /\ queued' = (queued \/ state = "Idle")
      /\ state' = CASE state = "Idle" -> "FlushNextObject"
                    [] state \in {"CopyToOtherBank", "CopyBackToRam", "SwitchBank"} -> "Erase"
                    [] OTHER -> state
  BY DEF InvalidateEntry
<1>3. a \in Bank /\ b \in Bank /\ target \in [Object -> 0 .. Cells] /\ 0 \in 0 .. Cells
  BY <1>1, OtherBank DEF TypeOK
<1>4. pending.pos \in 0 .. Cells
  BY <1>1, NothingPending DEF TypeOK, PendingType
<1> HIDE DEF b
<1>5. BanksInv(f)
  BY <1>1, <1>3, <1>4, DeleteTyped
<1> HIDE DEF f
<1>6. BanksInv(flash')
  BY <1>2, <1>3, <1>5, DeleteTyped
<1>7. target' \in [Object -> 0 .. Cells]
  BY <1>2, <1>3
<1>8. value \in [Object -> Value \cup {NoValue}] /\ value' \in [Object -> Value \cup {NoValue}]
  BY <1>1, <1>2 DEF TypeOK
<1>9. pending' # NoPending => value'[pending'.obj] # NoValue
  <2>1. ASSUME pending' # NoPending PROVE value'[pending'.obj] # NoValue
    <3>1. pending.obj # o /\ pending' = pending
      BY <1>2, <2>1
    <3>2. value[pending.obj] # NoValue /\ pending.obj \in Object
      BY <1>1, <2>1, <3>1 DEF TypeOK
    <3>3. QED
      BY <1>2, <1>8, <3>1, <3>2
  <2>2. QED
    BY <2>1
<1>10. queued' \in BOOLEAN
  BY <1>1, <1>2 DEF TypeOK
<1>11. state' \in States \ CopyStates /\ (state' = "EraseSector" => state = "EraseSector")
  <2>1. state \in States
    BY <1>1 DEF TypeOK
  <2>2. QED
    BY <1>2, <2>1 DEF States, CopyStates
<1>12. QED
  BY <1>2, <1>6, <1>7, <1>8, <1>9, <1>10, <1>11

(* What the collector and the program do to an object. *)
LEMMA ReplacedTyped ==
  ASSUME TypesInv, NEW o \in Object, NEW v \in Value \cup {NoValue}, InvalidateEntry(o, v),
         UNCHANGED <<a, current, copied, priority, run, faults>>, list' \in SetToSeqs(Object)
  PROVE  TypesInv'
<1>1. TypeOK /\ BanksInv(flash) /\ Persisted
  BY DEF TypesInv
<1>2. /\ BanksInv(flash')
      /\ pending' = IF pending.obj = o THEN NoPending ELSE pending
      /\ target' = [target EXCEPT ![o] = 0] /\ target' \in [Object -> 0 .. Cells]
      /\ value' = [value EXCEPT ![o] = v] /\ value' \in [Object -> Value \cup {NoValue}]
      /\ pending' # NoPending => value'[pending'.obj] # NoValue
      /\ queued' \in BOOLEAN
      /\ state' \in States \ CopyStates /\ (state' = "EraseSector" => state = "EraseSector")
  BY InvalidateTyped
<1>3. flash' \in Banks /\ pending' \in {NoPending} \cup PendingType
  BY <1>1, <1>2 DEF BanksInv, TypeOK, PendingType
<1>4. TypeOK'
  BY <1>1, <1>2, <1>3 DEF TypeOK, Banks, BankType, PendingType
<1>5. \A x \in Object : x # o => target'[x] = target[x] /\ value'[x] = value[x]
  BY <1>1, <1>2 DEF TypeOK
<1>6. target'[o] = 0
  BY <1>1, <1>2 DEF TypeOK
<1>7. Persisted'
  <2>1. \A x \in Object : target'[x] # 0 => value'[x] # NoValue
    BY <1>1, <1>5, <1>6 DEF Persisted
  <2>2. \A x \in Object : state' = "EraseSector" => copied'[x] = 0
    BY <1>1, <1>2 DEF Persisted
  <2>3. state' \notin CopyStates
    BY <1>2
  <2>4. QED
    BY <2>1, <2>2, <2>3 DEF Persisted
<1>8. QED
  BY <1>2, <1>4, <1>7 DEF TypesInv

(* What the program, the collector and Recover do.                         *)
LEMMA ProgramTyped == TypesInv /\ Program => TypesInv'
<1> SUFFICES ASSUME TypesInv, NEW o \in Object,
                    \/ \E v \in Value \cup {NoValue} : SetTarget(o, v)
                    \/ \E p \in Priority \cup {priority[o]} : SetPriority(o, p)
                    \/ Drop(o)
             PROVE  TypesInv'
  BY DEF Program
<1>1. TypeOK /\ BanksInv(flash) /\ Persisted
  BY DEF TypesInv
<1>2. list \in SetToSeqs(Object)
  BY <1>1 DEF TypeOK
<1>3. ASSUME NEW v \in Value \cup {NoValue}, SetTarget(o, v) PROVE TypesInv'
  <2>1. list' \in SetToSeqs(Object)
    BY <1>2, <1>3, InPriorityOrderArranged DEF SetTarget
  <2>2. UNCHANGED <<a, current, copied, priority, run, faults>>
    BY <1>3 DEF SetTarget
  <2>3. CASE v # value[o]
    BY <1>3, <2>1, <2>2, <2>3, ReplacedTyped DEF SetTarget
  <2>4. CASE v = value[o]
    <3>1. UNCHANGED <<flash, pending, target, value, queued, state>>
      BY <1>3, <2>4 DEF SetTarget
    <3>2. TypeOK'
      BY <1>1, <2>1, <2>2, <3>1 DEF TypeOK
    <3>3. QED
      BY <1>1, <2>2, <3>1, <3>2 DEF TypesInv, BanksInv, Persisted
  <2>5. QED
    BY <2>3, <2>4
<1>4. ASSUME NEW p \in Priority \cup {priority[o]}, SetPriority(o, p) PROVE TypesInv'
  <2>1. priority' = [priority EXCEPT ![o] = p] /\ list' = InPriorityOrder(list, priority', o)
        /\ UNCHANGED <<flash, a, current, value, target, copied, manager, faults>>
    BY <1>4 DEF SetPriority
  <2>2. list' \in SetToSeqs(Object)
    BY <1>2, <2>1, InPriorityOrderArranged
  <2>3. priority' \in [Object -> Int]
    BY <1>1, <2>1 DEF TypeOK
  <2>4. TypeOK'
    BY <1>1, <2>1, <2>2, <2>3 DEF TypeOK, manager
  <2>5. QED
    BY <1>1, <2>1, <2>4 DEF TypesInv, BanksInv, Persisted, manager
<1>5. ASSUME Drop(o) PROVE TypesInv'
  BY <1>2, <1>5, ReplacedTyped DEF Drop
<1>6. QED
  BY <1>3, <1>4, <1>5

(* What a power loss leaves has the type of a bank. *)
LEMMA LeftTyped ==
  ASSUME TypesInv, NEW f \in AtPowerLoss
  PROVE  BanksInv(f)
<1>1. a \in Bank /\ Other(a) \in Bank /\ BanksInv(flash) /\ flash \in Banks
      /\ \A x \in Bank : Below(flash[x], Cells) /\ flash[x] \in BankType
  BY OtherBank DEF TypesInv, TypeOK, BanksInv, Banks
<1>2. ASSUME NEW b \in Bank, NEW o \in Object, HeaderLeft(f, b, o) PROVE BanksInv(f)
  <2> DEFINE p == RoomFor(b, Length(value[o]))
             U == PutCell(flash[b], p, Used)
  <2>1. value[o] \in Value /\ RoomsFor(b, Length(value[o])) # {}
    BY <1>2 DEF HeaderLeft
  <2>2. BanksInv(WithHeader(b, o))
    BY <2>1, HeaderTyped
  <2>3. [flash EXCEPT ![b].cells[p] = Used] = [flash EXCEPT ![b] = U]
    BY DEF PutCell
  <2>4. U \in BankType /\ Below(U, Cells)
    BY <1>1, CellUsed
  <2> HIDE DEF U
  <2>5. BanksInv([flash EXCEPT ![b] = U])
    BY <1>1, <2>4 DEF BanksInv, Banks
  <2>6. QED
    BY <1>2, <2>2, <2>3, <2>5 DEF HeaderLeft
<1>3. ASSUME HalfErased(f) PROVE BanksInv(f)
  <2> DEFINE b == Other(a)
             X == [flash[b] EXCEPT !.header = FALSE]
             Y == [flash[b] EXCEPT !.cells = EraseFirst(flash[b]).cells]
  <2>1. f = [flash EXCEPT ![b] = X] \/ f = [flash EXCEPT ![b] = Y]
    BY <1>3 DEF HalfErased
  <2>2. X \in BankType /\ Below(X, Cells)
    BY <1>1 DEF BankType, Below, Headers
  <2>3. EraseFirst(flash[b]) \in BankType /\ Below(EraseFirst(flash[b]), Cells)
    BY <1>1, FirstErased
  <2>4. Y \in BankType /\ Y.cells = EraseFirst(flash[b]).cells
    BY <1>1, <2>3 DEF BankType
  <2>5. Below(Y, Cells)
    BY <2>3, <2>4 DEF Below, Headers
  <2> HIDE DEF X, Y
  <2>6. QED
    BY <1>1, <2>1, <2>2, <2>4, <2>5 DEF BanksInv, Banks
<1>4. QED
  BY <1>1, <1>2, <1>3, LeftByPowerLoss

(* Initialize makes a well-typed state of any flash. *)
LEMMA BootTyped ==
  ASSUME TypesInv, NEW f, BanksInv(f), Boot(f), UNCHANGED faults
  PROVE  TypesInv'
<1> DEFINE bank == FlashAtBoot(f)[BankAtBoot(f)]
<1>1. BankAtBoot(f) \in Bank /\ BanksInv(FlashAtBoot(f))
  BY FlashAtBootFacts
<1>2. bank \in BankType
  BY <1>1 DEF BanksInv, Banks
<1>3. /\ flash' = FlashAtBoot(f) /\ a' = BankAtBoot(f)
      /\ current' = [b \in Bank |-> Behind(flash'[b])]
      /\ target' = [o \in Object |-> FoundIn(bank, o)]
      /\ value' = [o \in Object |-> IF target'[o] = 0 THEN NoValue ELSE bank.cells[target'[o]].val]
      /\ priority' = [o \in Object |-> IF target'[o] = 0 THEN InitialPriority[o]
                                                        ELSE bank.cells[target'[o]].pri]
      /\ list' \in SetToSeqs(Object)
      /\ copied' = [o \in Object |-> 0]
      /\ state' = "FlushNextObject" /\ pending' = NoPending
      /\ queued' = TRUE /\ run' = "nobody"
  BY DEF Boot, Restorations
<1> HIDE DEF bank
<1>4. BanksInv(flash')
  BY <1>1, <1>3
<1>5. current' \in [Bank -> 0 .. Cells + 1]
  <2>1. \A b \in Bank : flash'[b] \in BankType /\ Below(flash'[b], Cells)
    BY <1>4 DEF BanksInv, Banks
  <2>2. \A b \in Bank : Behind(flash'[b]) \in 0 .. Cells + 1
    BY <2>1, BehindFacts
  <2>3. QED
    BY <1>3, <2>2
<1>6. \A o \in Object : /\ target'[o] \in 0 .. Cells
                        /\ target'[o] # 0 => bank.cells[target'[o]] \in Header
  BY <1>2, <1>3, FoundFacts
<1>7. target' \in [Object -> 0 .. Cells]
  BY <1>3, <1>6
<1>8. \A h \in Header : h.val \in Value /\ h.pri \in Int
  BY DEF Header
<1>9. /\ \A o \in Object : target'[o] # 0 => value'[o] \in Value
      /\ value' \in [Object -> Value \cup {NoValue}]
  BY <1>3, <1>6, <1>8
<1>10. priority' \in [Object -> Int]
  BY <1>3, <1>6, <1>8
<1>11. TypeOK'
  BY <1>1, <1>3, <1>4, <1>5, <1>7, <1>9, <1>10
  DEF TypesInv, TypeOK, BanksInv, Banks, BankType, States
<1>12. Persisted'
  BY <1>3, <1>9 DEF Persisted, CopyStates
<1>13. QED
  BY <1>4, <1>11, <1>12 DEF TypesInv

(* Every step keeps the types.                                             *)
LEMMA TypesStep == TypesInv /\ [Next]_vars => TypesInv'
<1> SUFFICES ASSUME TypesInv, [Next]_vars PROVE TypesInv'
  OBVIOUS
<1>1. CASE AdvanceState
  BY <1>1, FlushTyped, IdleTyped, EraseTyped, EraseSectorTyped, CopyTyped, BackToRamTyped,
     SwitchTyped
  DEF AdvanceState
<1>2. CASE Yield \/ Callback \/ FlushAll
  BY <1>2, RunTyped
<1>3. CASE Program
  BY <1>3, ProgramTyped
<1>4. CASE PowerLoss
  BY <1>4, LeftTyped, BootTyped DEF PowerLoss
<1>5. CASE UNCHANGED vars
  BY <1>5 DEF vars, weak, manager, TypesInv, TypeOK, BanksInv, Persisted
<1>6. QED
  BY <1>1, <1>2, <1>3, <1>4, <1>5 DEF Next

(* Every variable stays in its type: no step of AdvanceState, no call of   *)
(* the program, no power loss and no Initialize leaves a list of weak      *)
(* references that lost or doubled an object, a place outside its bank or a*)
(* pending object without a value (Heap_Persistence.cpp, with Erase of a   *)
(* bank and PowerLoss at any write).                                       *)
THEOREM TypeCorrect == Spec => []TypeOK
<1>1. TypesInv => TypeOK
  BY DEF TypesInv
<1>2. QED
  BY <1>1, InitTyped, TypesStep, PTL DEF Spec

----------------------------------------------------------------------------
(* What the banks hold, when a block is a whole bank. *)

(* Agrees, read from the objects and from the cells. *)
Holds(bank, at, val) ==
  /\ \A o \in Object : at[o] # 0 => /\ at[o] \in Good(bank)
                                    /\ bank.cells[at[o]].obj = o
                                    /\ bank.cells[at[o]].val = val[o]
  /\ \A p \in Good(bank) : at[bank.cells[p].obj] = p

(* No object twice.                                                        *)
Single(bank) ==
  \A p, q \in Good(bank) : bank.cells[p].obj = bank.cells[q].obj => p = q

(* The objects that are good in another bank are good in this one, and the *)
(* same.                                                                   *)
SameGood(more, bank) ==
  /\ Good(more) \subseteq Good(bank)
  /\ \A q \in Good(more) : /\ more.cells[q].obj = bank.cells[q].obj
                           /\ more.cells[q].val = bank.cells[q].val

(* A good object has a place, an owner and a value.                        *)
LEMMA GoodFacts ==
  ASSUME NEW bank \in BankType, NEW p \in Good(bank)
  PROVE  /\ p \in Headers(bank) /\ p \in 1 .. Cells /\ p # 0
         /\ bank.cells[p].obj \in Object /\ bank.cells[p].val \in Value
<1>1. p \in Headers(bank)
  BY DEF Good
<1>2. p \in 1 .. Cells /\ bank.cells[p] \in Header
  BY <1>1, HeaderFacts
<1>3. \A h \in Header : h.obj \in Object /\ h.val \in Value
  BY DEF Header
<1>4. QED
  BY <1>1, <1>2, <1>3

(* The two ways to read that objects and cells agree are one.              *)
LEMMA AgreesHolds ==
  ASSUME NEW bank \in BankType, NEW at
  PROVE  Agrees(bank, at) <=> Holds(bank, at, value)
<1>1. ASSUME Agrees(bank, at) PROVE Holds(bank, at, value)
  <2>1. Good(bank) = {at[o] : o \in {x \in Object : at[x] # 0}}
    BY <1>1 DEF Agrees
  <2>2. \A o \in Object : at[o] # 0 => bank.cells[at[o]].obj = o /\ bank.cells[at[o]].val = value[o]
    BY <1>1 DEF Agrees
  <2>3. ASSUME NEW o \in Object, at[o] # 0 PROVE at[o] \in Good(bank)
    <3>1. o \in {x \in Object : at[x] # 0}
      BY <2>3
    <3>2. QED
      BY <2>1, <3>1
  <2>4. ASSUME NEW p \in Good(bank) PROVE at[bank.cells[p].obj] = p
    <3>1. PICK o \in Object : at[o] # 0 /\ p = at[o]
      BY <2>1
    <3>2. QED
      BY <2>2, <3>1
  <2>5. QED
    BY <2>2, <2>3, <2>4 DEF Holds
<1>2. ASSUME Holds(bank, at, value) PROVE Agrees(bank, at)
  <2>1. \A o \in Object : at[o] # 0 => /\ at[o] \in Good(bank)
                                       /\ bank.cells[at[o]].obj = o
                                       /\ bank.cells[at[o]].val = value[o]
    BY <1>2 DEF Holds
  <2>2. \A p \in Good(bank) : at[bank.cells[p].obj] = p /\ p # 0 /\ bank.cells[p].obj \in Object
    BY <1>2, GoodFacts DEF Holds
  <2>3. Good(bank) = {at[o] : o \in {x \in Object : at[x] # 0}}
    <3>1. ASSUME NEW p \in Good(bank) PROVE p \in {at[o] : o \in {x \in Object : at[x] # 0}}
      <4>1. bank.cells[p].obj \in {x \in Object : at[x] # 0}
        BY <2>2
      <4>2. QED
        BY <2>2, <4>1
    <3>2. ASSUME NEW p \in {at[o] : o \in {x \in Object : at[x] # 0}} PROVE p \in Good(bank)
      BY <2>1
    <3>3. QED
      BY <3>1, <3>2
  <2>4. QED
    BY <2>1, <2>3 DEF Agrees
<1>3. QED
  BY <1>1, <1>2

(* A bank that agrees with its objects holds none of them twice.           *)
LEMMA HoldsSingle ==
  ASSUME NEW bank, NEW at, NEW val, Holds(bank, at, val)
  PROVE  Single(bank)
  BY DEF Holds, Single

(* Nor does one that holds less of them.                                   *)
LEMMA SameSingle ==
  ASSUME NEW bank, NEW less, Single(bank), SameGood(less, bank)
  PROVE  Single(less)
  BY DEF SameGood, Single

(* Nothing else became good or was given up. *)
LEMMA HoldsSame ==
  ASSUME NEW bank, NEW same, NEW at, NEW val, Holds(bank, at, val),
         SameGood(same, bank), Good(same) = Good(bank)
  PROVE  Holds(same, at, val)
<1>1. \A q \in Good(bank) : /\ same.cells[q].obj = bank.cells[q].obj
                            /\ same.cells[q].val = bank.cells[q].val
  BY DEF SameGood
<1>2. QED
  BY <1>1 DEF Holds

(* One object was given up. *)
LEMMA HoldsLess ==
  ASSUME NEW bank \in BankType, NEW less, NEW at \in [Object -> 0 .. Cells], NEW val,
         Holds(bank, at, val),
         NEW o \in Object, SameGood(less, bank), Good(less) = Good(bank) \ {at[o]}
  PROVE  Holds(less, [at EXCEPT ![o] = 0], val)
<1> DEFINE rest == [at EXCEPT ![o] = 0]
<1>1. rest[o] = 0 /\ \A x \in Object : x # o => rest[x] = at[x]
  OBVIOUS
<1> HIDE DEF rest
<1>2. /\ \A x \in Object : at[x] # 0 => /\ at[x] \in Good(bank)
                                        /\ bank.cells[at[x]].obj = x
                                        /\ bank.cells[at[x]].val = val[x]
      /\ \A p \in Good(bank) : at[bank.cells[p].obj] = p
  BY DEF Holds
<1>3. \A q \in Good(less) : /\ q \in Good(bank) /\ less.cells[q].obj = bank.cells[q].obj
                            /\ less.cells[q].val = bank.cells[q].val
  BY DEF SameGood
<1>4. ASSUME NEW x \in Object, rest[x] # 0
      PROVE  rest[x] \in Good(less) /\ less.cells[rest[x]].obj = x /\ less.cells[rest[x]].val = val[x]
  <2>1. x # o /\ rest[x] = at[x]
    BY <1>1, <1>4
  <2>2. at[x] # at[o]
    BY <1>2, <1>4, <2>1
  <2>3. at[x] \in Good(less)
    BY <1>2, <1>4, <2>1, <2>2
  <2>4. QED
    BY <1>2, <1>3, <1>4, <2>1, <2>3
<1>5. ASSUME NEW p \in Good(less) PROVE rest[less.cells[p].obj] = p
  <2>1. p \in Good(bank) /\ p # at[o] /\ less.cells[p].obj = bank.cells[p].obj
    BY <1>3
  <2>2. at[bank.cells[p].obj] = p /\ bank.cells[p].obj \in Object
    BY <1>2, <2>1, GoodFacts
  <2>3. QED
    BY <1>1, <2>1, <2>2
<1>6. QED
  BY <1>4, <1>5 DEF Holds, rest

(* One object was completed. *)
LEMMA HoldsMore ==
  ASSUME NEW bank \in BankType, NEW more \in BankType, NEW at \in [Object -> 0 .. Cells], NEW val,
         Holds(bank, at, val), SameGood(bank, more),
         NEW p, p \notin Good(bank), Good(more) = Good(bank) \cup {p},
         NEW o \in Object, at[o] = 0, more.cells[p].obj = o, more.cells[p].val = val[o]
  PROVE  Holds(more, [at EXCEPT ![o] = p], val)
<1> DEFINE then == [at EXCEPT ![o] = p]
<1>1. then[o] = p /\ \A x \in Object : x # o => then[x] = at[x]
  OBVIOUS
<1> HIDE DEF then
<1>2. /\ \A x \in Object : at[x] # 0 => /\ at[x] \in Good(bank)
                                        /\ bank.cells[at[x]].obj = x
                                        /\ bank.cells[at[x]].val = val[x]
      /\ \A q \in Good(bank) : at[bank.cells[q].obj] = q
  BY DEF Holds
<1>3. \A q \in Good(bank) : /\ bank.cells[q].obj = more.cells[q].obj
                            /\ bank.cells[q].val = more.cells[q].val
  BY DEF SameGood
<1>4. ASSUME NEW x \in Object, then[x] # 0
      PROVE  then[x] \in Good(more) /\ more.cells[then[x]].obj = x /\ more.cells[then[x]].val = val[x]
  BY <1>1, <1>2, <1>3, <1>4
<1>5. ASSUME NEW q \in Good(more) PROVE then[more.cells[q].obj] = q
  <2>1. CASE q = p
    BY <1>1, <2>1
  <2>2. CASE q \in Good(bank)
    <3>1. at[more.cells[q].obj] = q /\ more.cells[q].obj \in Object /\ q # 0
      BY <1>2, <1>3, <2>2, GoodFacts
    <3>2. QED
      BY <1>1, <3>1
  <2>3. QED
    BY <2>1, <2>2
<1>6. QED
  BY <1>4, <1>5 DEF Holds, then

(* The value of an object that is not there was replaced. *)
LEMMA HoldsValue ==
  ASSUME NEW bank, NEW at, NEW val, NEW new, Holds(bank, at, val),
         NEW o \in Object, at[o] = 0, \A x \in Object : x # o => new[x] = val[x]
  PROVE  Holds(bank, at, new)
  BY DEF Holds

(* Initialize finds what the bank holds. *)
LEMMA HoldsFound ==
  ASSUME NEW bank \in BankType, Single(bank),
         NEW at, at = [o \in Object |-> FoundIn(bank, o)],
         NEW val, \A o \in Object : at[o] # 0 => val[o] = bank.cells[at[o]].val
  PROVE  Holds(bank, at, val)
<1>1. \A o \in Object : at[o] # 0 => at[o] \in Good(bank) /\ bank.cells[at[o]].obj = o
  BY FoundFacts
<1>2. ASSUME NEW p \in Good(bank) PROVE at[bank.cells[p].obj] = p
  <2> DEFINE o == bank.cells[p].obj
  <2>1. o \in Object
    BY GoodFacts
  <2>2. at[o] = FoundIn(bank, o) /\ at[o] # 0
    BY <2>1, FoundFacts
  <2>3. at[o] \in Good(bank) /\ bank.cells[at[o]].obj = o
    BY <1>1, <2>1, <2>2
  <2>4. QED
    BY <2>3 DEF Single
<1>3. QED
  BY <1>1, <1>2 DEF Holds

(* An empty bank agrees with objects that are nowhere.                     *)
LEMMA NothingHeld ==
  ASSUME NEW bank, Good(bank) = {}, NEW at, \A o \in Object : at[o] = 0, NEW val
  PROVE  Holds(bank, at, val) /\ Single(bank)
  BY DEF Holds, Single

(* Deleting what is there, whatever it is, makes nothing good.             *)
LEMMA DeletedAnywhere ==
  ASSUME NEW bank \in BankType, Below(bank, Cells), NEW p \in 1 .. Cells,
         NEW D, D = PutCell(bank, p, Deleted(bank.cells[p].val))
  PROVE  SameGood(D, bank)
<1> DEFINE c == Deleted(bank.cells[p].val)
<1>1. bank.cells[p] \in Cell
  BY DEF BankType
<1>2. c \in Cell /\ ~c.live /\ c # Used
  <2>1. bank.cells[p].val \in Value \cup {NoValue}
    BY <1>1, CellFacts
  <2>2. ~Free.live /\ Free # Used /\ Free \in Cell /\ Deleted(NoValue) = Free
    BY CellFacts DEF Free
  <2>3. QED
    BY <2>1, <2>2, CellFacts
<1>3. D \in BankType /\ \A q \in 1 .. Cells : D.cells[q] = IF q = p THEN c ELSE bank.cells[q]
  BY <1>2, PutCellType
<1> HIDE DEF c
<1>4. ASSUME NEW q \in Good(D)
      PROVE  q \in Good(bank) /\ D.cells[q] = bank.cells[q]
  <2>1. q \in 1 .. Cells /\ q \in Headers(D) /\ IsGood(D, q) /\ D.cells[q].live
    BY <1>3, GoodFacts DEF Good, IsGood
  <2>2. D.cells[q] = bank.cells[q] /\ q \in Headers(bank)
    BY <1>2, <1>3, <2>1 DEF Headers
  <2>3. bank.cells[q].val \in Value
    BY <2>2, HeaderFacts
  <2>4. q + Bursts[bank.cells[q].val] < Cells /\ Bursts[bank.cells[q].val] \in Nat
    BY <2>1, <2>2, <2>3, Lengths DEF Below
  <2>5. ASSUME NEW x \in q + 1 .. q + Bursts[bank.cells[q].val] PROVE bank.cells[x] = Used
    <3>1. x \in 1 .. Cells
      BY <2>1, <2>4
    <3>2. D.cells[x] = Used
      BY <2>1, <2>2 DEF IsGood
    <3>3. QED
      BY <1>2, <1>3, <3>1, <3>2
  <2>6. QED
    BY <2>1, <2>2, <2>5 DEF Good, IsGood
<1>5. QED
  BY <1>4 DEF SameGood

(* A write burst of an object with the value v, in a bank that holds the   *)
(* objects at the cells `at'.                                              *)
LEMMA BurstHolds ==
  ASSUME TypesInv, NEW f, BanksInv(f), NEW b \in Bank, NEW pd \in PendingType,
         NEW v, v = value[pd.obj], Writing(f[b], pd, v), Burst(b, f, pd),
         NEW at, at = (IF b = a THEN target ELSE copied), Holds(f[b], at, value), at[pd.obj] = 0,
         NEW then, then = (IF b = a THEN target' ELSE copied')
  PROVE  /\ Holds(flash'[b], then, value)
         /\ flash'[Other(b)] = f[Other(b)]
         /\ flash'[b].header = f[b].header /\ flash'[b].seq = f[b].seq
         /\ pending' # NoPending => Writing(flash'[b], pending', v) /\ then[pd.obj] = 0
         /\ \A e : Below(f[b], e) => Below(flash'[b], e)
<1> DEFINE bank == f[b]
           o == pd.obj
           p == pd.pos
           next == p + Length(v) - pd.left
           done == IF pd.left = 1 THEN p ELSE 0
<1>1. f \in Banks /\ bank \in BankType /\ Below(bank, Cells) /\ Other(b) \in Bank /\ Other(b) # b
  BY OtherBank DEF BanksInv, Banks
<1>2. at \in [Object -> 0 .. Cells] /\ o \in Object /\ at[o] = 0
  BY DEF TypesInv, TypeOK, PendingType
<1>3. p \in Headers(bank) /\ bank.cells[p].obj = o /\ bank.cells[p].val = v
  BY DEF Writing
<1>4. PICK N : N = Further(bank, pd, v)
  OBVIOUS
<1>5. /\ N \in BankType /\ N.header = bank.header /\ N.seq = bank.seq
      /\ Headers(N) = Headers(bank)
      /\ \A q \in Headers(bank) : N.cells[q] = bank.cells[q]
      /\ p \notin Good(bank)
      /\ Good(N) = IF pd.left = 1 THEN Good(bank) \cup {p} ELSE Good(bank)
      /\ pd.left # 1 => Writing(N, Rest(pd), v)
  BY ONLY <1>1, <1>4, BurstWritten, pd \in PendingType, Writing(f[b], pd, v)
<1>6. CASE /\ flash' = [f EXCEPT ![b].cells[next] = Used] /\ pending' = Rest(pd)
           /\ IF b = a THEN target' = [target EXCEPT ![o] = done] /\ UNCHANGED copied
                       ELSE copied' = [copied EXCEPT ![o] = done] /\ UNCHANGED target
  <2>1. flash' = [f EXCEPT ![b] = N]
    BY ONLY <1>4, <1>6 DEF PutCell, Further
  <2>2. then = [at EXCEPT ![o] = done]
    BY <1>6
  <2> HIDE DEF next, done
  <2>3. flash'[b] = N /\ flash'[Other(b)] = f[Other(b)]
    BY <1>1, <2>1 DEF Banks
  <2>4. Good(bank) \subseteq Headers(bank)
    BY DEF Good
  <2>5. SameGood(bank, N)
    BY <1>5, <2>4 DEF SameGood
  <2>6. CASE pd.left = 1
    <3>1. done = p /\ pending' = NoPending
      BY <1>6, <2>6, RestTyped DEF done
    <3>2. N.cells[p].obj = o /\ N.cells[p].val = value[o] /\ Good(N) = Good(bank) \cup {p}
      BY <1>3, <1>5, <2>6
    <3>3. Holds(N, [at EXCEPT ![o] = p], value)
      BY <1>1, <1>2, <1>5, <2>5, <3>2, HoldsMore
    <3>4. QED
      BY <1>5, <2>2, <2>3, <3>1, <3>3 DEF Below
  <2>7. CASE pd.left # 1
    <3>1. then = at /\ pending' = Rest(pd)
      BY <1>2, <1>6, <2>2, <2>7, RestTyped DEF done
    <3>2. Good(N) = Good(bank) /\ SameGood(N, bank)
      BY <1>5, <2>4, <2>7 DEF SameGood
    <3>3. Holds(N, at, value)
      BY <3>2, HoldsSame
    <3>4. QED
      BY <1>2, <1>5, <2>3, <2>7, <3>1, <3>3 DEF Below
  <2>8. QED
    BY <2>6, <2>7
<1>7. CASE flash' = Delete(f, b, p) /\ pending' = NoPending /\ UNCHANGED <<target, copied>>
  <2> DEFINE D == PutCell(bank, p, Deleted(bank.cells[p].val))
  <2>1. flash'[b] = D /\ flash'[Other(b)] = f[Other(b)] /\ then = at
    BY <1>1, <1>7, CellDeleted
  <2>2. /\ D \in BankType /\ D.header = bank.header /\ D.seq = bank.seq
        /\ Headers(D) = Headers(bank)
        /\ \A q \in Headers(bank) : D.cells[q].val = bank.cells[q].val
        /\ \A q \in 1 .. Cells : q # p => D.cells[q] = bank.cells[q]
        /\ Good(D) = Good(bank) \ {p}
    BY <1>1, <1>3, DeletedObject
  <2> HIDE DEF D
  <2>3. Good(D) = Good(bank)
    BY <1>5, <2>2
  <2>4. SameGood(D, bank)
    BY <1>1, <1>5, <2>2, <2>3, GoodFacts DEF SameGood
  <2>5. Holds(D, at, value)
    BY <2>3, <2>4, HoldsSame
  <2>6. QED
    BY <1>7, <2>1, <2>2, <2>5 DEF Below
<1>8. QED
  BY <1>6, <1>7 DEF Burst

(* What WriteHeader writes first: a header, whole or cut short, behind all *)
(* objects of the bank.                                                    *)
EndsInv == \A b \in Bank : current[b] # 0 => Below(flash[b], current[b])

(* A header cut short by a power loss, and what is pending with a header.  *)
CutShort(b, o) == [flash EXCEPT ![b].cells[RoomFor(b, Length(value[o]))] = Used]
Begun(b, o) == [obj |-> o, pos |-> RoomFor(b, Length(value[o])), left |-> Bursts[value[o]]]

(* The room for a new object is behind all others. *)
LEMMA RoomBehind ==
  ASSUME TypesInv, EndsInv, NEW b \in Bank, NEW v \in Value, RoomsFor(b, Length(v)) # {},
         NEW p, p = RoomFor(b, Length(v))
  PROVE  /\ p \in 1 .. Cells /\ CanWrite(flash[b], p, Length(v))
         /\ flash[b].cells[p] = Free /\ Below(flash[b], p)
<1> DEFINE bank == flash[b]
<1>1. bank \in BankType
  BY DEF TypesInv, BanksInv, Banks
<1>2. /\ p \in 1 .. Cells /\ p + Length(v) + 1 <= Cells
      /\ current[b] # 0 /\ current[b] <= p /\ CanWrite(bank, p, Length(v))
  BY RoomFacts DEF TypesInv
<1>3. Below(bank, current[b]) /\ current[b] \in Int
  BY <1>2 DEF EndsInv, TypesInv, TypeOK
<1>4. \A q \in Headers(bank) : q + Length(bank.cells[q].val) \in Int
  <2>1. TAKE q \in Headers(bank)
  <2>2. q \in 1 .. Cells /\ bank.cells[q].val \in Value
    BY <1>1, HeaderFacts
  <2>3. QED
    BY <2>2, Lengths
<1>5. Below(bank, p)
  BY <1>2, <1>3, <1>4 DEF Below
<1>6. p \in p .. p + Length(v) + 1
  BY <1>2, Lengths
<1>7. QED
  BY <1>2, <1>5, <1>6 DEF CanWrite

(* A new header adds no good object: its object is being written.          *)
LEMMA HeaderHolds ==
  ASSUME TypesInv, EndsInv, NEW b \in Bank, NEW o \in Object, value[o] \in Value,
         RoomsFor(b, Length(value[o])) # {},
         NEW f, f = WithHeader(b, o)
  PROVE  /\ BanksInv(f)
         /\ \A x \in Bank : SameGood(f[x], flash[x]) /\ Good(f[x]) = Good(flash[x])
         /\ \A x \in Bank : f[x].header = flash[x].header /\ f[x].seq = flash[x].seq
         /\ f[Other(b)] = flash[Other(b)]
         /\ Below(f[b], RoomFor(b, Length(value[o])) + Length(value[o]))
         /\ Writing(f[b], Begun(b, o), value[o]) /\ Begun(b, o) \in PendingType
<1> DEFINE v == value[o]
           bank == flash[b]
           p == RoomFor(b, Length(v))
<1>1. flash \in Banks /\ bank \in BankType /\ Below(bank, Cells) /\ Other(b) \in Bank /\ Other(b) # b
  BY OtherBank DEF TypesInv, BanksInv, Banks
<1>2. p \in 1 .. Cells /\ CanWrite(bank, p, Length(v)) /\ Below(bank, p)
  BY RoomBehind
<1>3. PICK h : h = [obj |-> o, val |-> v, pri |-> priority[o], live |-> TRUE]
  OBVIOUS
<1>4. /\ h \in Header /\ f = [flash EXCEPT ![b] = PutCell(bank, p, h)] /\ BanksInv(f)
      /\ Begun(b, o) \in PendingType
  BY <1>3, HeaderTyped DEF Begun
<1>5. h.obj = o /\ h.val = v /\ h \in Cell
  BY <1>3, <1>4, CellFacts
<1>6. PICK H : H = PutCell(bank, p, h)
  OBVIOUS
<1>7. /\ H \in BankType /\ H.header = bank.header /\ H.seq = bank.seq
      /\ \A q \in Headers(bank) : H.cells[q] = bank.cells[q]
      /\ Good(H) = Good(bank) /\ Below(H, p + Length(h.val))
      /\ Writing(H, [obj |-> h.obj, pos |-> p, left |-> Bursts[h.val]], h.val)
  BY <1>1, <1>2, <1>4, <1>5, <1>6, HeaderWritten
<1>8. f[b] = H /\ f[Other(b)] = flash[Other(b)] /\ \A x \in Bank : x # b => f[x] = flash[x]
  BY <1>1, <1>4, <1>6 DEF Banks
<1>9. Good(bank) \subseteq Headers(bank)
  BY DEF Good
<1>10. SameGood(H, bank) /\ \A x \in Bank : SameGood(flash[x], flash[x])
  BY <1>7, <1>9 DEF SameGood
<1>11. \A x \in Bank : SameGood(f[x], flash[x]) /\ Good(f[x]) = Good(flash[x])
  BY <1>7, <1>8, <1>10
<1>12. Below(f[b], p + Length(v)) /\ Writing(f[b], Begun(b, o), v)
  BY <1>5, <1>7, <1>8 DEF Begun
<1>13. \A x \in Bank : f[x].header = flash[x].header /\ f[x].seq = flash[x].seq
  BY <1>7, <1>8
<1>14. QED
  BY <1>4, <1>8, <1>11, <1>12, <1>13

(* Nor does a header that could not be completed.                          *)
LEMMA CutShortHolds ==
  ASSUME TypesInv, EndsInv, NEW b \in Bank, NEW o \in Object, value[o] \in Value,
         RoomsFor(b, Length(value[o])) # {},
         NEW g, g = CutShort(b, o)
  PROVE  /\ \A x \in Bank : SameGood(g[x], flash[x]) /\ Good(g[x]) = Good(flash[x])
         /\ \A x \in Bank : g[x].header = flash[x].header /\ g[x].seq = flash[x].seq
<1> DEFINE bank == flash[b]
           p == RoomFor(b, Length(value[o]))
<1>1. flash \in Banks /\ bank \in BankType /\ Below(bank, Cells)
  BY DEF TypesInv, BanksInv, Banks
<1>2. p \in 1 .. Cells /\ Below(bank, p) /\ bank.cells[p] = Free
  BY RoomBehind
<1>3. PICK U : U = PutCell(bank, p, Used)
  OBVIOUS
<1>4. /\ U \in BankType /\ U.header = bank.header /\ U.seq = bank.seq
      /\ \A q \in Headers(bank) : U.cells[q] = bank.cells[q]
      /\ Good(U) = Good(bank)
  BY <1>1, <1>2, <1>3, HeaderCutShort
<1>5. SameGood(U, bank) /\ \A x \in Bank : SameGood(flash[x], flash[x])
  BY <1>4 DEF SameGood, Good
<1>6. g[b] = U /\ \A x \in Bank : x # b => g[x] = flash[x]
  <2>1. g = [flash EXCEPT ![b] = U]
    BY <1>3 DEF PutCell, CutShort
  <2>2. QED
    BY <1>1, <2>1 DEF Banks
<1>7. QED
  BY <1>4, <1>5, <1>6

(* A new object is begun in a bank that does not hold it yet.              *)
LEMMA BeginHolds ==
  ASSUME TypesInv, EndsInv, NEW b \in Bank, NEW o \in Object, value[o] # NoValue,
         RoomsFor(b, Length(value[o])) # {}, WriteHeader(b, o),
         NEW at, at = (IF b = a THEN target ELSE copied), Holds(flash[b], at, value), at[o] = 0,
         NEW then, then = (IF b = a THEN target' ELSE copied')
  PROVE  /\ Holds(flash'[b], then, value)
         /\ flash'[Other(b)] = flash[Other(b)]
         /\ flash'[b].header = flash[b].header /\ flash'[b].seq = flash[b].seq
         /\ pending' # NoPending => Writing(flash'[b], pending', value[o]) /\ then[o] = 0
         /\ EndsInv'
<1> DEFINE v == value[o]
           p == RoomFor(b, Length(v))
           f == WithHeader(b, o)
           pd == Begun(b, o)
<1>1. v \in Value /\ current \in [Bank -> 0 .. Cells + 1]
  BY DEF TypesInv, TypeOK
<1>2. /\ BanksInv(f)
      /\ SameGood(f[b], flash[b]) /\ Good(f[b]) = Good(flash[b])
      /\ f[b].header = flash[b].header /\ f[b].seq = flash[b].seq
      /\ f[Other(b)] = flash[Other(b)]
      /\ Below(f[b], p + Length(v)) /\ Writing(f[b], pd, v) /\ pd \in PendingType
  BY ONLY <1>1, TypesInv, EndsInv, b \in Bank, o \in Object,
          RoomsFor(b, Length(value[o])) # {}, HeaderHolds
<1>3. Burst(b, f, pd) /\ current' = [current EXCEPT ![b] = p + Length(v)]
  BY DEF WriteHeader, Begun
<1>4. pd.obj = o
  BY DEF Begun
<1> HIDE DEF f, pd, p
<1>5. Holds(f[b], at, value)
  BY <1>2, HoldsSame
<1>6. /\ Holds(flash'[b], then, value)
      /\ flash'[Other(b)] = f[Other(b)]
      /\ flash'[b].header = f[b].header /\ flash'[b].seq = f[b].seq
      /\ pending' # NoPending => Writing(flash'[b], pending', v) /\ then[o] = 0
      /\ \A e : Below(f[b], e) => Below(flash'[b], e)
  BY <1>2, <1>3, <1>4, <1>5, BurstHolds
<1>7. EndsInv'
  <2>1. current'[b] = p + Length(v) /\ \A x \in Bank : x # b => current'[x] = current[x]
    BY <1>1, <1>3
  <2>2. Below(flash'[b], current'[b])
    BY <1>2, <1>6, <2>1
  <2>3. \A x \in Bank : x # b => flash'[x] = flash[x]
    BY <1>2, <1>6, OtherBank
  <2>4. QED
    BY <2>1, <2>2, <2>3 DEF EndsInv
<1>8. QED
  BY <1>2, <1>6, <1>7

(* A search in vain leaves m_current behind all objects. *)
LEMMA NoPlaceEnds ==
  ASSUME TypesInv, EndsInv, NEW b \in Bank, NEW o \in Object, value[o] # NoValue, NoPlace(b, o),
         UNCHANGED flash
  PROVE  EndsInv'
<1> DEFINE end == Cells - Length(value[o])
<1>1. value[o] \in Value /\ current \in [Bank -> 0 .. Cells + 1]
      /\ \A x \in Bank : flash[x] \in BankType
  BY DEF TypesInv, TypeOK, BanksInv, Banks
<1>2. end \in Int
  BY <1>1, Lengths
<1>3. current' = [current EXCEPT ![b] = IF @ = 0 \/ @ > end THEN @ ELSE end]
  BY DEF NoPlace
<1> HIDE DEF end
<1>4. \A x \in Bank : current'[x] # 0 => current[x] # 0 /\ current'[x] >= current[x]
                                         /\ current'[x] \in Int
  BY <1>1, <1>2, <1>3
<1>5. ASSUME NEW x \in Bank, current'[x] # 0 PROVE Below(flash'[x], current'[x])
  <2>1. Below(flash[x], current[x]) /\ current[x] \in Int
    BY <1>1, <1>4, <1>5 DEF EndsInv
  <2>2. ASSUME NEW q \in Headers(flash[x]) PROVE q + Length(flash[x].cells[q].val) \in Int
    <3>1. q \in 1 .. Cells /\ flash[x].cells[q].val \in Value
      BY <1>1, HeaderFacts
    <3>2. QED
      BY <3>1, Lengths
  <2>3. QED
    BY <1>4, <1>5, <2>1, <2>2 DEF Below
<1>6. QED
  BY <1>5 DEF EndsInv

(* Bank A holds what is persisted, bank B what was copied, and no bank     *)
(* holds an object twice.                                                  *)
HeldInv ==
  /\ Holds(flash[a], target, value)
  /\ state \in CopyStates => Holds(flash[Other(a)], copied, value)

(* The pending object is the last of the bank that is being written, and   *)
(* not complete.                                                           *)
PendingInv ==
  pending # NoPending =>
    /\ state \in {"FlushNextObject", "CopyToOtherBank", "Erase"}
    /\ state = "FlushNextObject" =>
         Writing(flash[a], pending, value[pending.obj]) /\ target[pending.obj] = 0
    /\ state = "CopyToOtherBank" =>
         Writing(flash[Other(a)], pending, value[pending.obj]) /\ copied[pending.obj] = 0

(* Together: what the objects say of the flash is what is there.           *)
AgreeInv == TypesInv /\ EndsInv /\ HeldInv /\ Single(flash[Other(a)]) /\ PendingInv

(* The parts of the invariant, as the steps below cite them.               *)
LEMMA AgreeTypes ==
  ASSUME AgreeInv
  PROVE  /\ TypesInv /\ TypeOK /\ BanksInv(flash) /\ EndsInv /\ PendingInv /\ flash \in Banks
         /\ a \in Bank /\ Other(a) \in Bank /\ Other(a) # a /\ Other(Other(a)) = a
         /\ \A b \in Bank : flash[b] \in BankType /\ Below(flash[b], Cells)
         /\ Single(flash[Other(a)])
         /\ Holds(flash[a], target, value)
         /\ state \in CopyStates => Holds(flash[Other(a)], copied, value)
         /\ target \in [Object -> 0 .. Cells] /\ copied \in [Object -> 0 .. Cells]
         /\ value \in [Object -> Value \cup {NoValue}]
         /\ state \in States
  BY OtherBank DEF AgreeInv, TypesInv, TypeOK, BanksInv, Banks, HeldInv

(* The bank in which there was written, and the other. *)
LEMMA WrittenAgrees ==
  ASSUME AgreeInv, TypesInv', EndsInv', NEW b, NEW o,
         (b = a /\ state = "FlushNextObject") \/ (b = Other(a) /\ state = "CopyToOtherBank"),
         UNCHANGED <<a, value, state>>,
         NEW then, then = (IF b = a THEN target' ELSE copied'),
         b = a => UNCHANGED copied, b # a => UNCHANGED target,
         Holds(flash'[b], then, value), flash'[Other(b)] = flash[Other(b)],
         pending' # NoPending =>
           Writing(flash'[b], pending', value[o]) /\ then[o] = 0 /\ pending'.obj = o
  PROVE  AgreeInv'
<1>1. /\ a \in Bank /\ Other(a) # a /\ Other(Other(a)) = a
      /\ Single(flash[Other(a)]) /\ Holds(flash[a], target, value)
  BY AgreeTypes
<1>2. CASE b = a /\ state = "FlushNextObject"
  <2>1. HeldInv'
    BY <1>2 DEF HeldInv, CopyStates
  <2>2. Single(flash[Other(a)])'
    BY <1>1, <1>2
  <2>3. PendingInv'
    BY <1>2 DEF PendingInv
  <2>4. QED
    BY <2>1, <2>2, <2>3 DEF AgreeInv
<1>3. CASE b = Other(a) /\ state = "CopyToOtherBank"
  <2>1. HeldInv'
    BY <1>1, <1>3 DEF HeldInv
  <2>2. Single(flash[Other(a)])'
    BY <1>3, HoldsSingle
  <2>3. PendingInv'
    BY <1>1, <1>3 DEF PendingInv
  <2>4. QED
    BY <2>1, <2>2, <2>3 DEF AgreeInv
<1>4. QED
  BY <1>2, <1>3

(* A write burst: the objects agree with the banks before and after.       *)
LEMMA ContinueAgrees ==
  ASSUME AgreeInv, TypesInv', NEW b, Continue(b),
         (b = a /\ state = "FlushNextObject") \/ (b = Other(a) /\ state = "CopyToOtherBank")
  PROVE  AgreeInv'
<1> DEFINE o == pending.obj
           at == IF b = a THEN target ELSE copied
           then == IF b = a THEN target' ELSE copied'
<1>1. /\ TypesInv /\ TypeOK /\ BanksInv(flash) /\ EndsInv
      /\ a \in Bank /\ b \in Bank /\ Other(a) # a
  BY AgreeTypes
<1>2. Burst(b, flash, pending) /\ pending # NoPending /\ UNCHANGED <<a, current, value, state>>
  BY DEF Continue
<1>3. pending \in PendingType
  BY <1>1, <1>2 DEF TypeOK, PendingType
<1>4. Writing(flash[b], pending, value[o]) /\ at[o] = 0
  BY <1>1, <1>2 DEF AgreeInv, PendingInv
<1>5. Holds(flash[b], at, value)
  BY <1>1 DEF AgreeInv, HeldInv, CopyStates
<1>6. /\ pending' # NoPending => pending'.obj = o
      /\ OnlyStores(b, o)
  BY <1>1, <1>2, <1>3, BurstTyped
<1>7. /\ Holds(flash'[b], then, value)
      /\ flash'[Other(b)] = flash[Other(b)]
      /\ pending' # NoPending => Writing(flash'[b], pending', value[o]) /\ then[o] = 0
      /\ \A e : Below(flash[b], e) => Below(flash'[b], e)
  BY ONLY <1>1, <1>2, <1>3, <1>4, <1>5, BurstHolds
<1>8. EndsInv'
  <2>1. \A x \in Bank : x # b => flash'[x] = flash[x]
    BY <1>1, <1>7, OtherBank
  <2>2. QED
    BY <1>1, <1>2, <1>7, <2>1 DEF EndsInv
<1> HIDE DEF at, then
<1>9. b = a => UNCHANGED copied
  BY <1>6 DEF OnlyStores
<1>10. b # a => UNCHANGED target
  BY <1>6 DEF OnlyStores
<1>11. then = IF b = a THEN target' ELSE copied'
  BY DEF then
<1>12. QED
  BY <1>2, <1>6, <1>7, <1>8, <1>9, <1>10, <1>11, WrittenAgrees

(* So they do when a header is written.                                    *)
LEMMA BeginAgrees ==
  ASSUME AgreeInv, TypesInv', NEW b, NEW o \in Object, value[o] # NoValue,
         RoomsFor(b, Length(value[o])) # {}, WriteHeader(b, o),
         UNCHANGED <<a, value, state>>,
         \/ b = a /\ state = "FlushNextObject" /\ target[o] = 0
         \/ b = Other(a) /\ state = "CopyToOtherBank" /\ copied[o] = 0
  PROVE  AgreeInv'
<1> DEFINE at == IF b = a THEN target ELSE copied
           then == IF b = a THEN target' ELSE copied'
<1>1. TypesInv /\ EndsInv /\ a \in Bank /\ b \in Bank /\ Other(a) # a
  BY AgreeTypes
<1>2. at[o] = 0 /\ Holds(flash[b], at, value)
  BY <1>1 DEF AgreeInv, HeldInv, CopyStates
<1>3. (pending' # NoPending => pending'.obj = o) /\ OnlyStores(b, o)
  BY <1>1, WriteHeaderTyped
<1>4. /\ Holds(flash'[b], then, value)
      /\ flash'[Other(b)] = flash[Other(b)]
      /\ pending' # NoPending => Writing(flash'[b], pending', value[o]) /\ then[o] = 0
      /\ EndsInv'
  BY ONLY <1>1, <1>2, o \in Object, value[o] # NoValue,
          RoomsFor(b, Length(value[o])) # {}, WriteHeader(b, o), BeginHolds
<1> HIDE DEF at, then
<1>5. (b = a => UNCHANGED copied) /\ (b # a => UNCHANGED target)
  BY <1>3 DEF OnlyStores
<1>6. then = IF b = a THEN target' ELSE copied'
  BY DEF then
<1>7. (b = a /\ state = "FlushNextObject") \/ (b = Other(a) /\ state = "CopyToOtherBank")
  OBVIOUS
<1>8. QED
  BY ONLY AgreeInv, TypesInv', UNCHANGED <<a, value, state>>,
          <1>3, <1>4, <1>5, <1>6, <1>7, WrittenAgrees

(* What neither bank nor object is touched by. *)
LEMMA QuietAgrees ==
  ASSUME AgreeInv, TypesInv', EndsInv', UNCHANGED <<flash, a, value, target, copied>>,
         state' \in CopyStates => state \in CopyStates,
         pending' # NoPending => pending' = pending /\ state' = state
  PROVE  AgreeInv'
<1>1. HeldInv' /\ Single(flash[Other(a)])'
  BY DEF AgreeInv, HeldInv
<1>2. PendingInv'
  BY DEF AgreeInv, PendingInv
<1>3. QED
  BY <1>1, <1>2 DEF AgreeInv

(* AdvanceState where an object is saved to bank A.                        *)
LEMMA FlushAgrees == AgreeInv /\ FlushNextObject /\ TypesInv' => AgreeInv'
<1> SUFFICES ASSUME AgreeInv, FlushNextObject, TypesInv' PROVE AgreeInv'
  OBVIOUS
<1> DEFINE o == First(Unsaved)
<1>1. TypesInv /\ EndsInv /\ a \in Bank
  BY AgreeTypes
<1>2. state = "FlushNextObject"
  BY DEF FlushNextObject
<1>3. o # NoObject => o \in Object /\ value[o] # NoValue /\ target[o] = 0
  BY <1>1, NextObject DEF Unsaved
<1>4. \A s \in {"Idle", "Erase"} : StateAfter(s) \notin CopyStates
  BY DEF StateAfter, CopyStates
<1> HIDE DEF o
<1>5. CASE Continue(a)
  BY <1>2, <1>5, ContinueAgrees
<1>6. CASE /\ pending = NoPending /\ state' = StateAfter("Idle")
           /\ UNCHANGED <<flash, a, current, weak, pending>>
  <2>1. EndsInv' /\ UNCHANGED <<flash, a, value, target, copied>>
    BY <1>1, <1>6 DEF EndsInv, weak
  <2>2. QED
    BY <1>4, <1>6, <2>1, QuietAgrees
<1>7. CASE /\ o # NoObject /\ RoomsFor(a, Length(value[o])) # {} /\ WriteHeader(a, o)
           /\ UNCHANGED <<a, value, priority, list, state>>
  BY <1>2, <1>3, <1>7, BeginAgrees
<1>8. CASE /\ pending = NoPending /\ o # NoObject /\ NoPlace(a, o)
           /\ state' = StateAfter("Erase") \/ state' = StateAfter("Idle")
           /\ UNCHANGED <<flash, a, weak, pending>>
  <2>1. EndsInv' /\ UNCHANGED <<flash, a, value, target, copied>>
    BY <1>1, <1>3, <1>8, NoPlaceEnds DEF weak
  <2>2. QED
    BY <1>4, <1>8, <2>1, QuietAgrees
<1>9. QED
  BY <1>5, <1>6, <1>7, <1>8 DEF FlushNextObject, o

(* AdvanceState where nothing is pending.                                  *)
LEMMA IdleAgrees == AgreeInv /\ Idle /\ TypesInv' => AgreeInv'
<1> SUFFICES ASSUME AgreeInv, Idle, TypesInv' PROVE AgreeInv'
  OBVIOUS
<1>1. state' \notin CopyStates
  BY DEF Idle, StateAfter, CopyStates
<1>2. EndsInv' /\ UNCHANGED <<flash, a, value, target, copied, pending>>
  BY DEF AgreeInv, Idle, EndsInv, weak
<1>3. pending = NoPending
  BY DEF AgreeInv, PendingInv, Idle
<1>4. QED
  BY <1>1, <1>2, <1>3, QuietAgrees

(* AdvanceState where the change of banks begins.                          *)
LEMMA EraseAgrees == AgreeInv /\ Erase /\ TypesInv' => AgreeInv'
<1> SUFFICES ASSUME AgreeInv, Erase, TypesInv' PROVE AgreeInv'
  OBVIOUS
<1>1. /\ state' = "EraseSector" /\ pending' = NoPending
      /\ UNCHANGED <<flash, a, current, value, target>>
  BY DEF Erase
<1>2. HeldInv'
  BY <1>1 DEF AgreeInv, HeldInv, CopyStates
<1>3. EndsInv' /\ Single(flash[Other(a)])' /\ PendingInv'
  BY <1>1 DEF AgreeInv, EndsInv, PendingInv
<1>4. QED
  BY <1>2, <1>3 DEF AgreeInv

(* With one block to a bank nothing is left in bank B. *)
LEMMA EraseSectorAgrees ==
  ASSUME BlockCells = Cells, AgreeInv, EraseSector, TypesInv'
  PROVE  AgreeInv'
<1> DEFINE b == Other(a)
           E == Format(EraseFirst(flash[b]))
<1>1. /\ TypesInv /\ EndsInv /\ flash \in Banks /\ a \in Bank /\ b \in Bank /\ b # a
      /\ Holds(flash[a], target, value) /\ current \in [Bank -> 0 .. Cells + 1]
  BY AgreeTypes DEF TypeOK
<1>2. /\ E \in BankType /\ Below(E, Cells)
      /\ BlockCells = Cells => \A p \in 1 .. Cells : E.cells[p] = Free
      /\ flash' = [flash EXCEPT ![b] = E] /\ current' = [current EXCEPT ![b] = Behind(E)]
  BY <1>1, SectorErased
<1>3. /\ state = "EraseSector" /\ state' = "CopyToOtherBank"
      /\ UNCHANGED <<a, value, target, copied, pending>>
  BY DEF EraseSector, weak
<1> HIDE DEF b, E
<1>4. flash'[b] = E /\ \A x \in Bank : x # b => flash'[x] = flash[x]
  BY <1>1, <1>2 DEF Banks
<1>5. Good(E) = {} /\ \A o \in Object : copied[o] = 0
  BY <1>1, <1>2, <1>3, NothingThere DEF TypesInv, Persisted
<1>6. Holds(E, copied, value) /\ Single(E)
  BY <1>5, NothingHeld
<1>7. HeldInv' /\ Single(flash[Other(a)])'
  BY <1>1, <1>3, <1>4, <1>6 DEF HeldInv, b
<1>8. EndsInv'
  <2>1. Behind(E) # 0 => Below(E, Behind(E))
    BY <1>2, BehindFacts
  <2>2. current'[b] = Behind(E) /\ \A x \in Bank : x # b => current'[x] = current[x]
    BY <1>1, <1>2
  <2>3. QED
    BY <1>1, <1>4, <2>1, <2>2 DEF EndsInv
<1>9. PendingInv'
  BY <1>3 DEF AgreeInv, PendingInv
<1>10. QED
  BY <1>7, <1>8, <1>9 DEF AgreeInv

(* AdvanceState where the objects of bank A are copied to bank B.          *)
LEMMA CopyAgrees == AgreeInv /\ CopyToOtherBank /\ TypesInv' => AgreeInv'
<1> SUFFICES ASSUME AgreeInv, CopyToOtherBank, TypesInv' PROVE AgreeInv'
  OBVIOUS
<1> DEFINE b == Other(a)
           o == First(Uncopied)
           fits == o # NoObject /\ UsedUpTo(o) < SafeCells
<1>1. TypesInv /\ EndsInv /\ a \in Bank /\ b \in Bank
  BY AgreeTypes
<1>2. state = "CopyToOtherBank" /\ state \in CopyStates
  BY DEF CopyToOtherBank, CopyStates
<1>3. o # NoObject => o \in Object /\ value[o] # NoValue /\ copied[o] = 0
  BY <1>1, NextObject DEF Uncopied
<1>4. \/ Continue(b)
      \/ /\ fits /\ RoomsFor(b, Length(value[o])) # {} /\ WriteHeader(b, o)
         /\ UNCHANGED <<a, value, priority, list, state>>
      \/ /\ pending = NoPending /\ IF fits THEN NoPlace(b, o) ELSE UNCHANGED current
         /\ UNCHANGED <<flash, a, weak, pending>>
  BY DEF CopyToOtherBank
<1> HIDE DEF o
<1>5. CASE Continue(b)
  BY <1>2, <1>5, ContinueAgrees
<1>6. CASE /\ fits /\ RoomsFor(b, Length(value[o])) # {} /\ WriteHeader(b, o)
           /\ UNCHANGED <<a, value, priority, list, state>>
  BY <1>2, <1>3, <1>6, BeginAgrees
<1>7. CASE /\ pending = NoPending /\ IF fits THEN NoPlace(b, o) ELSE UNCHANGED current
           /\ UNCHANGED <<flash, a, weak, pending>>
  <2>1. EndsInv'
    <3>1. CASE fits
      BY <1>1, <1>3, <1>7, <3>1, NoPlaceEnds
    <3>2. CASE ~fits
      BY <1>1, <1>7, <3>2 DEF EndsInv
    <3>3. QED
      BY <3>1, <3>2
  <2>2. QED
    BY <1>2, <1>7, <2>1, QuietAgrees DEF weak
<1>8. QED
  BY <1>4, <1>5, <1>6, <1>7

(* The completion, the callback and the flush of the whole.                *)
LEMMA RunAgrees == AgreeInv /\ (Yield \/ Callback \/ FlushAll) /\ TypesInv' => AgreeInv'
<1> SUFFICES ASSUME AgreeInv, Yield \/ Callback \/ FlushAll, TypesInv' PROVE AgreeInv'
  OBVIOUS
<1>1. UNCHANGED <<flash, a, current, weak, state, pending>>
  BY DEF Yield, Callback, FlushAll
<1>2. EndsInv'
  BY <1>1 DEF AgreeInv, EndsInv
<1>3. QED
  BY <1>1, <1>2, QuietAgrees DEF weak

(* A persisted object is deleted in bank A. *)
LEMMA GivenUpHolds ==
  ASSUME NEW f, BanksInv(f), a \in Bank, target \in [Object -> 0 .. Cells],
         Holds(f[a], target, value), NEW o \in Object, target[o] # 0,
         NEW g, g = Delete(f, a, target[o])
  PROVE  /\ Holds(g[a], [target EXCEPT ![o] = 0], value)
         /\ g[Other(a)] = f[Other(a)]
         /\ g[a].header = f[a].header /\ g[a].seq = f[a].seq
         /\ g[a] = PutCell(f[a], target[o], Deleted(f[a].cells[target[o]].val))
<1> DEFINE bank == f[a]
           p == target[o]
<1>1. f \in Banks /\ bank \in BankType /\ Below(bank, Cells) /\ Other(a) \in Bank /\ Other(a) # a
  BY OtherBank DEF BanksInv, Banks
<1>2. p \in Good(bank)
  BY DEF Holds
<1>3. p \in Headers(bank)
  BY <1>1, <1>2, GoodFacts
<1>4. PICK D : D = PutCell(bank, p, Deleted(bank.cells[p].val))
  OBVIOUS
<1>5. /\ D \in BankType /\ D.header = bank.header /\ D.seq = bank.seq
      /\ \A q \in 1 .. Cells : q # p => D.cells[q] = bank.cells[q]
      /\ Good(D) = Good(bank) \ {p}
  BY <1>1, <1>3, <1>4, DeletedObject
<1>6. g[a] = D /\ g[Other(a)] = f[Other(a)]
  BY <1>1, <1>4, CellDeleted
<1>7. SameGood(D, bank)
  BY <1>1, <1>5, GoodFacts DEF SameGood
<1>8. Holds(D, [target EXCEPT ![o] = 0], value)
  BY <1>1, <1>5, <1>7, HoldsLess
<1>9. QED
  BY <1>4, <1>5, <1>6, <1>8

(* AdvanceState where objects that bank B has no room for are given up.    *)
LEMMA BackToRamAgrees == AgreeInv /\ CopyBackToRam /\ TypesInv' => AgreeInv'
<1> SUFFICES ASSUME AgreeInv, CopyBackToRam, TypesInv' PROVE AgreeInv'
  OBVIOUS
<1> DEFINE o == First(Uncopied)
<1>1. /\ TypesInv /\ EndsInv /\ flash \in Banks /\ BanksInv(flash) /\ a \in Bank
      /\ Other(a) \in Bank /\ Other(a) # a /\ \A b \in Bank : flash[b] \in BankType
      /\ target \in [Object -> 0 .. Cells]
      /\ Holds(flash[a], target, value) /\ Single(flash[Other(a)])
  BY AgreeTypes
<1>2. /\ state = "CopyBackToRam" /\ state \in CopyStates
      /\ UNCHANGED <<a, current, value, copied, pending>>
  BY DEF CopyBackToRam, CopyStates
<1>3. pending = NoPending /\ Holds(flash[Other(a)], copied, value)
  BY <1>2, AgreeTypes DEF PendingInv
<1>4. o # NoObject => o \in Object /\ target[o] # 0
  BY <1>1, NextObject DEF Uncopied
<1>5. \/ UNCHANGED <<flash, target>>
      \/ /\ o # NoObject
         /\ flash' = Delete(flash, a, target[o]) /\ target' = [target EXCEPT ![o] = 0]
         /\ UNCHANGED state
  BY DEF CopyBackToRam
<1> HIDE DEF o
<1>6. CASE UNCHANGED <<flash, target>>
  <2>1. EndsInv'
    BY <1>1, <1>2, <1>6 DEF EndsInv
  <2>2. QED
    BY <1>2, <1>3, <1>6, <2>1, QuietAgrees
<1>7. CASE /\ o # NoObject
           /\ flash' = Delete(flash, a, target[o]) /\ target' = [target EXCEPT ![o] = 0]
           /\ UNCHANGED state
  <2>1. o \in Object /\ target[o] # 0 /\ target[o] \in 0 .. Cells
    BY <1>1, <1>4, <1>7
  <2>2. /\ Holds(flash'[a], target', value) /\ flash'[Other(a)] = flash[Other(a)]
        /\ flash'[a] = PutCell(flash[a], target[o], Deleted(flash[a].cells[target[o]].val))
    BY <1>1, <1>7, <2>1, GivenUpHolds
  <2>3. HeldInv' /\ Single(flash[Other(a)])' /\ PendingInv'
    BY <1>1, <1>2, <1>3, <1>7, <2>2 DEF HeldInv, PendingInv
  <2>4. \A e : Below(flash[a], e) => Below(flash'[a], e)
    BY <1>1, <2>1, <2>2, CellGivenUp
  <2>5. EndsInv'
    BY <1>1, <1>2, <2>2, <2>4, OtherBank DEF EndsInv
  <2>6. QED
    BY <2>3, <2>5 DEF AgreeInv
<1>8. QED
  BY <1>5, <1>6, <1>7

(* What a bank holds is in its cells. *)
LEMMA SameCells ==
  ASSUME NEW bank, NEW same, same.cells = bank.cells
  PROVE  /\ Good(same) = Good(bank) /\ Headers(same) = Headers(bank) /\ SameGood(same, bank)
         /\ \A e : Below(same, e) <=> Below(bank, e)
<1>1. Headers(same) = Headers(bank)
  BY DEF Headers
<1>2. Good(same) = Good(bank)
  BY <1>1 DEF Good, IsGood
<1>3. QED
  BY <1>1, <1>2 DEF SameGood, Below

(* AdvanceState where the banks change roles.                              *)
LEMMA SwitchAgrees == AgreeInv /\ SwitchBank /\ TypesInv' => AgreeInv'
<1> SUFFICES ASSUME AgreeInv, SwitchBank, TypesInv' PROVE AgreeInv'
  OBVIOUS
<1> DEFINE b == Other(a)
<1>1. /\ EndsInv /\ flash \in Banks /\ a \in Bank /\ b \in Bank /\ Other(b) = a
      /\ Holds(flash[a], target, value)
  BY AgreeTypes
<1>2. /\ state = "SwitchBank" /\ state \in CopyStates /\ state' = "FlushNextObject"
      /\ target' = copied /\ flash' = SetSequence(flash) /\ a' = b
      /\ UNCHANGED <<current, value, pending>>
  BY DEF SwitchBank, CopyStates
<1>3. pending = NoPending /\ Holds(flash[b], copied, value)
  BY <1>2, AgreeTypes DEF PendingInv
<1> HIDE DEF b
<1>4. \A x \in Bank : flash'[x].cells = flash[x].cells
  BY <1>1, <1>2, Sequenced
<1>5. \A x \in Bank : /\ Good(flash'[x]) = Good(flash[x]) /\ SameGood(flash'[x], flash[x])
                      /\ \A e : Below(flash[x], e) => Below(flash'[x], e)
  BY <1>4, SameCells
<1>6. Holds(flash'[b], copied, value)
  BY <1>1, <1>3, <1>5, HoldsSame
<1>7. Single(flash'[a])
  BY <1>1, <1>5, HoldsSingle, SameSingle
<1>8. HeldInv'
  BY <1>2, <1>6 DEF HeldInv, CopyStates
<1>9. Single(flash[Other(a)])'
  BY <1>1, <1>2, <1>7
<1>10. EndsInv'
  BY <1>1, <1>2, <1>5 DEF EndsInv
<1>11. PendingInv'
  BY <1>2, <1>3 DEF PendingInv
<1>12. QED
  BY <1>8, <1>9, <1>10, <1>11 DEF AgreeInv

(* Deleting one object does not disturb another that is being written.     *)
LEMMA WritingKept ==
  ASSUME NEW bank \in BankType, Below(bank, Cells), NEW pd, NEW v, Writing(bank, pd, v),
         NEW p \in Headers(bank), p # pd.pos,
         NEW D, D = PutCell(bank, p, Deleted(bank.cells[p].val))
  PROVE  Writing(D, pd, v)
<1>1. /\ v \in Value /\ pd.pos \in Headers(bank)
      /\ bank.cells[pd.pos].live
      /\ bank.cells[pd.pos].obj = pd.obj /\ bank.cells[pd.pos].val = v
      /\ pd.left \in 1 .. Bursts[v]
      /\ \A x \in pd.pos + 1 .. pd.pos + Bursts[v] :
           bank.cells[x] = IF x <= pd.pos + Bursts[v] - pd.left THEN Used ELSE Free
      /\ \A q \in Headers(bank) : q # pd.pos => q + Length(bank.cells[q].val) <= pd.pos
  BY DEF Writing
<1>2. /\ D \in BankType /\ Headers(D) = Headers(bank)
      /\ \A q \in Headers(bank) : D.cells[q].val = bank.cells[q].val
      /\ \A q \in 1 .. Cells : q # p => D.cells[q] = bank.cells[q]
  BY DeletedObject
<1>3. /\ pd.pos \in 1 .. Cells /\ pd.pos + Length(v) <= Cells
      /\ Bursts[v] \in Nat /\ Length(v) = 1 + Bursts[v]
  BY <1>1, HeaderFacts, Lengths DEF Below
<1>4. ASSUME NEW x \in pd.pos + 1 .. pd.pos + Bursts[v]
      PROVE  D.cells[x] = IF x <= pd.pos + Bursts[v] - pd.left THEN Used ELSE Free
  <2>1. x \in 1 .. Cells
    BY <1>3
  <2>2. bank.cells[x] = IF x <= pd.pos + Bursts[v] - pd.left THEN Used ELSE Free
    BY <1>1
  <2>3. x # p
    BY <2>2, HeaderFacts
  <2>4. QED
    BY <1>2, <2>1, <2>2, <2>3
<1>5. D.cells[pd.pos] = bank.cells[pd.pos]
  BY <1>2, <1>3
<1>6. \A q \in Headers(D) : q # pd.pos => q + Length(D.cells[q].val) <= pd.pos
  BY <1>1, <1>2
<1>7. QED
  BY <1>1, <1>2, <1>4, <1>5, <1>6 DEF Writing

(* The bank in which a pending object is.                                  *)
WriteBank == IF state = "FlushNextObject" THEN a ELSE Other(a)

(* InvalidateEntry first deletes the object that is pending.               *)
LEMMA PendingDropped ==
  ASSUME AgreeInv, NEW o \in Object,
         NEW f, f = (IF pending.obj = o THEN Delete(flash, WriteBank, pending.pos) ELSE flash)
  PROVE  /\ BanksInv(f)
         /\ Holds(f[a], target, value) /\ Single(f[Other(a)])
         /\ \A x \in Bank : \A e : Below(flash[x], e) => Below(f[x], e)
         /\ \A x \in Bank : f[x].header = flash[x].header /\ f[x].seq = flash[x].seq
         /\ pending.obj # o => f = flash
<1> DEFINE b == WriteBank
           p == pending.pos
           bank == flash[b]
<1>1. /\ BanksInv(flash) /\ flash \in Banks /\ a \in Bank /\ Other(a) \in Bank /\ Other(a) # a
      /\ \A x \in Bank : flash[x] \in BankType /\ Below(flash[x], Cells)
      /\ Holds(flash[a], target, value) /\ Single(flash[Other(a)]) /\ TypeOK /\ PendingInv
  BY AgreeTypes
<1>2. CASE pending.obj # o
  BY <1>1, <1>2
<1>3. CASE pending.obj = o
  <2>1. pending # NoPending
    BY <1>3, NothingPending
  <2>2. pending \in PendingType /\ p \in 1 .. Cells /\ p # 0 /\ p \in 0 .. Cells
    BY <1>1, <2>1 DEF TypeOK, PendingType
  <2>3. b \in Bank /\ bank \in BankType /\ Below(bank, Cells)
    BY <1>1 DEF WriteBank
  <2>4. PICK D : D = PutCell(bank, p, Deleted(bank.cells[p].val))
    OBVIOUS
  <2>5. f = Delete(flash, b, p)
    BY <1>3
  <2> HIDE DEF b
  <2>6. f[b] = D /\ \A x \in Bank : x # b => f[x] = flash[x]
    BY <1>1, <2>3, <2>4, <2>5, CellDeleted
  <2>7. BanksInv(f)
    BY <1>1, <2>2, <2>3, <2>5, DeleteTyped
  <2>8. \A e : Below(bank, e) => Below(D, e)
    BY <2>2, <2>3, <2>4, CellGivenUp
  <2>9. \A x \in Bank : \A e : Below(flash[x], e) => Below(f[x], e)
    BY <2>3, <2>6, <2>8
  <2>10. D.header = bank.header /\ D.seq = bank.seq
    <3>1. Deleted(bank.cells[p].val) \in Cell
      <4>1. bank.cells[p] \in Cell
        BY <2>2, <2>3 DEF BankType
      <4>2. bank.cells[p].val \in Value \cup {NoValue}
        BY <4>1, CellFacts
      <4>3. QED
        BY <4>2, CellFacts
    <3>2. QED
      BY <2>3, <2>4, <3>1, PutCellType
  <2>11. SameGood(D, bank)
    BY <2>2, <2>3, <2>4, DeletedAnywhere
  <2>12. \A x \in Bank : SameGood(f[x], flash[x])
    <3>1. \A x \in Bank : SameGood(flash[x], flash[x])
      BY DEF SameGood
    <3>2. QED
      BY <2>6, <2>11, <3>1
  <2>13. Single(f[Other(a)])
    BY <1>1, <2>12, SameSingle
  <2>14. Holds(f[a], target, value)
    <3>1. CASE state = "FlushNextObject"
      <4>1. b = a /\ Writing(bank, pending, value[o]) /\ target[o] = 0
        BY <1>1, <1>3, <2>1, <3>1 DEF PendingInv, WriteBank, b
      <4>2. p \in Headers(bank) /\ bank.cells[p].obj = o
        BY <1>3, <4>1 DEF Writing
      <4>3. p \notin Good(bank)
        BY <1>1, <2>2, <4>1, <4>2 DEF Holds
      <4>4. Good(D) = Good(bank) \ {p}
        BY ONLY <2>3, <2>4, <4>2, DeletedObject
      <4>5. Good(D) = Good(bank)
        BY <4>3, <4>4
      <4>6. QED
        BY <1>1, <2>6, <2>11, <4>1, <4>5, HoldsSame
    <3>2. CASE state # "FlushNextObject"
      BY <1>1, <2>6, <3>2 DEF WriteBank, b
    <3>3. QED
      BY <3>1, <3>2
  <2>15. QED
    BY <1>3, <2>3, <2>6, <2>7, <2>9, <2>10, <2>13, <2>14
<1>4. QED
  BY <1>2, <1>3

(* And then what bank A holds of the object. *)
LEMMA InvalidateAgrees ==
  ASSUME AgreeInv, TypesInv', NEW o \in Object, NEW v, InvalidateEntry(o, v),
         UNCHANGED <<a, current>>
  PROVE  AgreeInv'
<1>1. PICK f : f = (IF pending.obj = o THEN Delete(flash, WriteBank, pending.pos) ELSE flash)
  OBVIOUS
<1>2. /\ flash' = (IF target[o] # 0 THEN Delete(f, a, target[o]) ELSE f)
      /\ pending' = (IF pending.obj = o THEN NoPending ELSE pending)
      /\ target' = [target EXCEPT ![o] = 0]
      /\ value' = [value EXCEPT ![o] = v]
      /\ state' = CASE state = "Idle" -> "FlushNextObject"
                    [] state \in {"CopyToOtherBank", "CopyBackToRam", "SwitchBank"} -> "Erase"
                    [] OTHER -> state
  BY <1>1 DEF InvalidateEntry, WriteBank
<1>3. /\ EndsInv /\ a \in Bank /\ Other(a) \in Bank /\ Other(a) # a /\ PendingInv
      /\ TypeOK /\ target \in [Object -> 0 .. Cells] /\ value \in [Object -> Value \cup {NoValue}]
      /\ state \in States /\ Holds(flash[a], target, value)
      /\ flash[a] \in BankType /\ Below(flash[a], Cells)
  BY AgreeTypes
<1>4. /\ BanksInv(f) /\ Holds(f[a], target, value) /\ Single(f[Other(a)])
      /\ \A x \in Bank : \A e : Below(flash[x], e) => Below(f[x], e)
      /\ pending.obj # o => f = flash
  BY <1>1, PendingDropped
<1>5. \A x \in Bank : f[x] \in BankType
  BY <1>4 DEF BanksInv, Banks
<1>6. /\ Holds(flash'[a], target', value) /\ flash'[Other(a)] = f[Other(a)]
      /\ \A e : Below(f[a], e) => Below(flash'[a], e)
  <2>1. CASE target[o] = 0
    <3>1. target' = target /\ flash' = f
      BY <1>2, <1>3, <2>1
    <3>2. QED
      BY <1>4, <3>1
  <2>2. CASE target[o] # 0
    <3>1. /\ Holds(flash'[a], target', value) /\ flash'[Other(a)] = f[Other(a)]
          /\ flash'[a] = PutCell(f[a], target[o], Deleted(f[a].cells[target[o]].val))
      BY <1>2, <1>3, <1>4, <2>2, GivenUpHolds
    <3>2. target[o] \in 0 .. Cells
      BY <1>3
    <3>3. QED
      BY <1>3, <1>5, <3>1, <3>2, CellGivenUp
  <2>3. QED
    BY <2>1, <2>2
<1>7. target'[o] = 0 /\ \A x \in Object : x # o => value'[x] = value[x] /\ target'[x] = target[x]
  BY <1>2, <1>3
<1>8. Holds(flash'[a], target', value')
  BY <1>6, <1>7, HoldsValue
<1>9. /\ state' \notin CopyStates /\ (state' = "FlushNextObject" /\ state # "Idle" => state = state')
      /\ state' # "CopyToOtherBank"
      /\ state' \in {"FlushNextObject", "Erase"} \/ state' = state
  BY <1>2 DEF CopyStates
<1>10. HeldInv' /\ Single(flash[Other(a)])'
  BY <1>4, <1>6, <1>8, <1>9 DEF HeldInv
<1>11. EndsInv'
  BY <1>3, <1>4, <1>6, OtherBank DEF EndsInv
<1>12. PendingInv'
  <2> SUFFICES ASSUME pending' # NoPending PROVE PendingInv'
    BY DEF PendingInv
  <2>1. pending' = pending /\ pending.obj # o /\ f = flash
    BY <1>2, <1>4
  <2>2. pending \in PendingType
    BY <1>3, <2>1 DEF TypeOK, PendingType
  <2>3. state \in {"FlushNextObject", "CopyToOtherBank", "Erase"}
    BY <1>3, <2>1 DEF PendingInv
  <2>4. state' = IF state = "FlushNextObject" THEN "FlushNextObject" ELSE "Erase"
    BY <1>2, <2>3
  <2>5. CASE state = "FlushNextObject"
    <3> DEFINE x == pending.obj
    <3>1. Writing(flash[a], pending, value[x]) /\ target[x] = 0 /\ x \in Object
      BY <1>3, <2>1, <2>2, <2>5 DEF PendingInv, PendingType
    <3>2. Writing(flash'[a], pending, value[x])
      <4>1. CASE target[o] = 0
        BY <1>2, <2>1, <3>1, <4>1
      <4>2. CASE target[o] # 0
        <5> DEFINE p == target[o]
        <5>1. p \in Good(flash[a]) /\ flash[a].cells[p].obj = o
          BY <1>3, <4>2 DEF Holds
        <5>2. p \in Headers(flash[a]) /\ p # pending.pos
          BY <1>3, <2>1, <3>1, <5>1, GoodFacts DEF Writing
        <5>3. flash'[a] = PutCell(flash[a], p, Deleted(flash[a].cells[p].val))
          BY <1>2, <1>3, <1>4, <2>1, <4>2, GivenUpHolds
        <5>4. QED
          BY <1>3, <3>1, <5>2, <5>3, WritingKept
      <4>3. QED
        BY <4>1, <4>2
    <3>3. value'[x] = value[x] /\ target'[x] = 0
      BY <1>7, <2>1, <3>1
    <3>4. QED
      BY <2>1, <2>4, <2>5, <3>2, <3>3 DEF PendingInv
  <2>6. CASE state # "FlushNextObject"
    BY <2>4, <2>6 DEF PendingInv
  <2>7. QED
    BY <2>5, <2>6
<1>13. QED
  BY <1>10, <1>11, <1>12 DEF AgreeInv

(* What the program, the collector and Recover do.                         *)
LEMMA ProgramAgrees == AgreeInv /\ Program /\ TypesInv' => AgreeInv'
<1> SUFFICES ASSUME AgreeInv, TypesInv', NEW o \in Object,
                    \/ \E v \in Value \cup {NoValue} : SetTarget(o, v)
                    \/ \E p \in Priority \cup {priority[o]} : SetPriority(o, p)
                    \/ Drop(o)
             PROVE  AgreeInv'
  BY DEF Program
<1>1. EndsInv
  BY AgreeTypes
<1>2. ASSUME NEW v \in Value \cup {NoValue}, SetTarget(o, v) PROVE AgreeInv'
  <2>1. UNCHANGED <<a, current, copied>>
    BY <1>2 DEF SetTarget
  <2>2. CASE v # value[o]
    BY <1>2, <2>1, <2>2, InvalidateAgrees DEF SetTarget
  <2>3. CASE v = value[o]
    <3>1. UNCHANGED <<flash, pending, target, value, state>>
      BY <1>2, <2>3 DEF SetTarget
    <3>2. EndsInv'
      BY <1>1, <2>1, <3>1 DEF EndsInv
    <3>3. QED
      BY <2>1, <3>1, <3>2, QuietAgrees
  <2>4. QED
    BY <2>2, <2>3
<1>3. ASSUME NEW p, SetPriority(o, p) PROVE AgreeInv'
  <2>1. UNCHANGED <<flash, a, current, value, target, copied, pending, state>>
    BY <1>3 DEF SetPriority, manager
  <2>2. EndsInv'
    BY <1>1, <2>1 DEF EndsInv
  <2>3. QED
    BY <2>1, <2>2, QuietAgrees
<1>4. ASSUME Drop(o) PROVE AgreeInv'
  BY <1>4, InvalidateAgrees DEF Drop
<1>5. QED
  BY <1>2, <1>3, <1>4

(* No bank that power can leave holds an object twice. *)
LEMMA LeftSingle ==
  ASSUME AgreeInv, NEW f \in AtPowerLoss
  PROVE  \A x \in Bank : Single(f[x])
<1>1. /\ TypesInv /\ EndsInv /\ flash \in Banks /\ a \in Bank /\ Other(a) \in Bank
      /\ Other(a) # a /\ Holds(flash[a], target, value)
      /\ \A x \in Bank : flash[x] \in BankType /\ Below(flash[x], Cells)
  BY AgreeTypes
<1>2. \A x \in Bank : Single(flash[x])
  BY <1>1, AgreeTypes, HoldsSingle, OtherBank
<1>3. ASSUME NEW b \in Bank, NEW o \in Object, HeaderLeft(f, b, o)
      PROVE  \A x \in Bank : Single(f[x])
  <2>1. f = WithHeader(b, o) \/ f = CutShort(b, o)
    BY <1>3 DEF HeaderLeft, CutShort
  <2>2. value[o] \in Value /\ RoomsFor(b, Length(value[o])) # {}
    BY <1>3 DEF HeaderLeft
  <2>3. f = WithHeader(b, o) => \A x \in Bank : SameGood(f[x], flash[x])
    BY ONLY <1>1, <2>2, b \in Bank, o \in Object, HeaderHolds
  <2>4. f = CutShort(b, o) => \A x \in Bank : SameGood(f[x], flash[x])
    BY ONLY <1>1, <2>2, b \in Bank, o \in Object, CutShortHolds
  <2>5. QED
    BY <1>2, <2>1, <2>3, <2>4, SameSingle
<1>4. ASSUME HalfErased(f) PROVE \A x \in Bank : Single(f[x])
  <2> DEFINE b == Other(a)
             X == [flash[b] EXCEPT !.header = FALSE]
             Y == [flash[b] EXCEPT !.cells = EraseFirst(flash[b]).cells]
  <2>1. f = [flash EXCEPT ![b] = X] \/ f = [flash EXCEPT ![b] = Y]
    BY <1>4 DEF HalfErased
  <2>2. X.cells = flash[b].cells
    BY <1>1 DEF BankType
  <2>3. Single(X)
    <3> HIDE DEF X
    <3>1. SameGood(X, flash[b])
      BY <2>2, SameCells
    <3>2. QED
      BY <1>1, <1>2, <3>1, SameSingle
  <2>4. Y.cells = [p \in 1 .. Cells |-> IF p <= BlockCells THEN Free ELSE flash[b].cells[p]]
    BY <1>1 DEF BankType, EraseFirst
  <2> HIDE DEF X, Y, b
  <2>5. SameGood(Y, flash[b])
    <3>1. b \in Bank /\ flash[b] \in BankType /\ Below(flash[b], Cells)
      BY <1>1 DEF b
    <3>2. \A q \in Headers(Y) : q \in Headers(flash[b]) /\ Y.cells[q] = flash[b].cells[q]
      BY <2>4 DEF Headers
    <3>3. ASSUME NEW q \in Good(Y) PROVE q \in Good(flash[b])
      <4>1. q \in Headers(flash[b]) /\ Y.cells[q] = flash[b].cells[q] /\ IsGood(Y, q)
        BY <3>2 DEF Good
      <4>2. q \in 1 .. Cells /\ flash[b].cells[q].val \in Value
        BY <3>1, <4>1, HeaderFacts
      <4>3. q + Bursts[flash[b].cells[q].val] < Cells /\ Bursts[flash[b].cells[q].val] \in Nat
        BY <3>1, <4>1, <4>2, Lengths DEF Below
      <4>4. ASSUME NEW x \in q + 1 .. q + Bursts[flash[b].cells[q].val]
            PROVE  flash[b].cells[x] = Used
        <5>1. x \in 1 .. Cells /\ Y.cells[x] = Used
          BY <4>1, <4>2, <4>3 DEF IsGood
        <5>2. QED
          BY <2>4, <5>1, CellFacts
      <4>5. QED
        BY <4>1, <4>4 DEF Good, IsGood
    <3>4. QED
      BY <3>2, <3>3 DEF SameGood, Good
  <2>6. Single(Y)
    BY <1>1, <1>2, <2>5, SameSingle DEF b
  <2>7. QED
    BY <1>1, <1>2, <2>1, <2>3, <2>6 DEF Banks, b
<1>5. QED
  BY <1>1, <1>2, <1>3, <1>4, LeftByPowerLoss

(* Initialize finds what is there. *)
LEMMA BootAgrees ==
  ASSUME NEW f, BanksInv(f), \A x \in Bank : Single(f[x]), Boot(f), TypesInv'
  PROVE  AgreeInv'
<1> DEFINE b == BankAtBoot(f)
           bank == FlashAtBoot(f)[b]
<1>1. /\ b \in Bank /\ BanksInv(FlashAtBoot(f)) /\ Other(b) \in Bank
      /\ FlashAtBoot(f)[Other(b)] = f[Other(b)]
      /\ bank = f[b] \/ Good(bank) = {}
  BY FlashAtBootFacts, OtherBank
<1>2. bank \in BankType /\ \A x \in Bank : /\ FlashAtBoot(f)[x] \in BankType
                                           /\ Below(FlashAtBoot(f)[x], Cells)
  BY <1>1 DEF BanksInv, Banks
<1>3. /\ flash' = FlashAtBoot(f) /\ a' = b
      /\ current' = [x \in Bank |-> Behind(flash'[x])]
      /\ target' = [o \in Object |-> FoundIn(bank, o)]
      /\ value' = [o \in Object |-> IF target'[o] = 0 THEN NoValue ELSE bank.cells[target'[o]].val]
      /\ state' = "FlushNextObject" /\ pending' = NoPending
  BY DEF Boot
<1>4. flash'[a'] = bank
  BY <1>3
<1> HIDE DEF bank, b
<1>5. Single(bank)
  BY <1>1 DEF Single, bank, b
<1>6. \A o \in Object : target'[o] # 0 => value'[o] = bank.cells[target'[o]].val
  BY <1>3
<1>7. Holds(bank, target', value')
  BY <1>2, <1>3, <1>5, <1>6, HoldsFound
<1>8. HeldInv' /\ PendingInv'
  BY <1>3, <1>4, <1>7 DEF HeldInv, PendingInv, CopyStates
<1>9. Single(flash[Other(a)])'
  BY <1>1, <1>3
<1>10. EndsInv'
  <2>1. \A x \in Bank : current'[x] = Behind(flash'[x])
    BY <1>3
  <2>2. \A x \in Bank : flash'[x] \in BankType /\ Below(flash'[x], Cells)
    BY <1>2, <1>3
  <2>3. QED
    BY <2>1, <2>2, BehindFacts DEF EndsInv
<1>11. QED
  BY <1>8, <1>9, <1>10 DEF AgreeInv

(* What the first Initialize leaves agrees.                                *)
LEMMA AgreeInit == Init => AgreeInv
<1> SUFFICES ASSUME Init PROVE AgreeInv
  OBVIOUS
<1> DEFINE F == [Blank EXCEPT !.header = TRUE, !.seq = 1]
<1>1. /\ flash = [b \in Bank |-> IF b = 0 THEN F ELSE Blank]
      /\ \A o \in Object : target[o] = 0
      /\ state = "FlushNextObject" /\ pending = NoPending
  BY DEF Init
<1>2. TypesInv /\ a \in Bank /\ Other(a) \in Bank
  BY InitTyped, OtherBank DEF TypesInv, TypeOK
<1>3. Good(F) = {} /\ Good(Blank) = {} /\ \A e : Below(F, e) /\ Below(Blank, e)
  BY BlankType, NothingThere
<1> HIDE DEF F
<1>4. \A b \in Bank : Good(flash[b]) = {} /\ \A e : Below(flash[b], e)
  BY <1>1, <1>3
<1>5. Holds(flash[a], target, value) /\ Single(flash[Other(a)])
  BY <1>1, <1>2, <1>4, NothingHeld DEF Single
<1>6. EndsInv /\ HeldInv /\ PendingInv
  BY <1>1, <1>4, <1>5 DEF EndsInv, HeldInv, PendingInv, CopyStates
<1>7. QED
  BY <1>2, <1>5, <1>6 DEF AgreeInv

(* Every step keeps objects and banks in agreement.                        *)
LEMMA AgreeStep ==
  ASSUME BlockCells = Cells
  PROVE  AgreeInv /\ [Next]_vars => AgreeInv'
<1> SUFFICES ASSUME AgreeInv, [Next]_vars PROVE AgreeInv'
  OBVIOUS
<1>1. TypesInv /\ TypesInv'
  BY TypesStep DEF AgreeInv
<1>2. CASE AdvanceState
  <2>1. CASE EraseSector
    BY <1>1, <2>1, EraseSectorAgrees
  <2>2. CASE FlushNextObject \/ Idle \/ Erase \/ CopyToOtherBank \/ CopyBackToRam \/ SwitchBank
    BY <1>1, <2>2, FlushAgrees, IdleAgrees, EraseAgrees, CopyAgrees, BackToRamAgrees,
       SwitchAgrees
  <2>3. QED
    BY <1>2, <2>1, <2>2 DEF AdvanceState
<1>3. CASE Yield \/ Callback \/ FlushAll
  BY <1>1, <1>3, RunAgrees
<1>4. CASE Program
  BY <1>1, <1>4, ProgramAgrees
<1>5. CASE PowerLoss
  BY <1>1, <1>5, LeftTyped, LeftSingle, BootAgrees DEF PowerLoss
<1>6. CASE UNCHANGED vars
  <2>1. EndsInv'
    BY <1>6 DEF AgreeInv, EndsInv, vars
  <2>2. QED
    BY <1>1, <1>6, <2>1, QuietAgrees DEF vars, weak, manager
<1>7. QED
  BY <1>2, <1>3, <1>4, <1>5, <1>6 DEF Next

(* Which is what the runs check.                                           *)
LEMMA HeldAgrees == AgreeInv => TargetsAgree
<1> SUFFICES ASSUME AgreeInv PROVE TargetsAgree
  OBVIOUS
<1>1. /\ a \in Bank /\ Other(a) \in Bank /\ \A b \in Bank : flash[b] \in BankType
      /\ Holds(flash[a], target, value)
      /\ state \in CopyStates => Holds(flash[Other(a)], copied, value)
  BY AgreeTypes
<1>2. Agrees(flash[a], target)
  BY <1>1, AgreesHolds
<1>3. state \in CopyStates => Agrees(flash[Other(a)], copied)
  BY <1>1, AgreesHolds
<1>4. QED
  BY <1>2, <1>3 DEF TargetsAgree, CopyStates

(* When a bank is one block, every object that claims a place in bank A is *)
(* there, whole and with its present value, every good object there is     *)
(* claimed, and during a change of banks so are the copies in bank B:      *)
(* through AdvanceState, InvalidateEntry of a pending object, CopyBackToRam*)
(* and Initialize after a power loss.                                      *)
THEOREM BanksAgree ==
  ASSUME BlockCells = Cells
  PROVE  Spec => []TargetsAgree
<1>1. AgreeInv /\ [Next]_vars => AgreeInv'
  BY AgreeStep
<1>2. QED
  BY <1>1, AgreeInit, HeldAgrees, PTL DEF Spec

----------------------------------------------------------------------------
(* The promise, when power stays during a change of banks. *)

(* What is copied is persisted, and all that is persisted was copied when  *)
(* the banks change roles.                                                 *)
CopiesInv ==
  /\ state \in CopyStates => \A o \in Object : copied[o] # 0 => target[o] # 0
  /\ state = "SwitchBank" => \A o \in Object : target[o] # 0 => copied[o] # 0
  /\ state = "CopyToOtherBank" /\ pending # NoPending => target[pending.obj] # 0

(* Bank A is numbered, and B is not, or older. *)
NumberedInv ==
  /\ flash[a].header /\ flash[a].seq \in {1, 2}
  /\ flash[Other(a)].header =>
       \/ flash[Other(a)].seq = Erased
       \/ flash[Other(a)].seq = 1 /\ flash[a].seq = 2
  /\ state \in CopyStates => Changing

(* Together: what is inductive for the promise.                            *)
SurviveInv == AgreeInv /\ CopiesInv /\ NumberedInv

(* The headers of the banks are the same.                                  *)
SameHeaders(f, g) == \A x \in Bank : f[x].header = g[x].header /\ f[x].seq = g[x].seq

(* A write burst leaves the headers of the banks alone,                    *)
LEMMA BurstHeaders ==
  ASSUME NEW f \in Banks, NEW b \in Bank, NEW pd \in PendingType, Burst(b, f, pd)
  PROVE  SameHeaders(flash', f)
<1> DEFINE next == pd.pos + Length(value[pd.obj]) - pd.left
<1>1. f[b] \in BankType
  BY DEF Banks
<1>2. CASE flash' = [f EXCEPT ![b].cells[next] = Used]
  <2>1. PICK N : N = PutCell(f[b], next, Used)
    OBVIOUS
  <2>2. flash' = [f EXCEPT ![b] = N]
    BY ONLY <1>2, <2>1 DEF PutCell
  <2>3. N.header = f[b].header /\ N.seq = f[b].seq
    BY <1>1, <2>1, CellFacts, PutCellType
  <2>4. QED
    BY <2>2, <2>3 DEF SameHeaders, Banks
<1>3. CASE flash' = Delete(f, b, pd.pos)
  <2>1. PICK D : D = PutCell(f[b], pd.pos, Deleted(f[b].cells[pd.pos].val))
    OBVIOUS
  <2>2. flash'[b] = D /\ \A x \in Bank : x # b => flash'[x] = f[x]
    BY <1>3, <2>1, CellDeleted
  <2>3. f[b].cells[pd.pos] \in Cell
    BY <1>1 DEF BankType, PendingType
  <2>4. Deleted(f[b].cells[pd.pos].val) \in Cell
    <3>1. f[b].cells[pd.pos].val \in Value \cup {NoValue}
      BY <2>3, CellFacts
    <3>2. QED
      BY <3>1, CellFacts
  <2>5. D.header = f[b].header /\ D.seq = f[b].seq
    BY <1>1, <2>1, <2>4, PutCellType
  <2>6. QED
    BY <2>2, <2>5 DEF SameHeaders
<1>4. QED
  BY <1>2, <1>3 DEF Burst

(* also the one that continues a pending object,                           *)
LEMMA ContinueHeaders ==
  ASSUME AgreeInv, NEW b \in Bank, Continue(b)
  PROVE  /\ SameHeaders(flash', flash) /\ OnlyStores(b, pending.obj) /\ pending.obj \in Object
         /\ value[pending.obj] # NoValue
         /\ pending' # NoPending => pending'.obj = pending.obj
<1>1. TypesInv /\ TypeOK /\ BanksInv(flash) /\ flash \in Banks
  BY AgreeTypes
<1>2. Burst(b, flash, pending) /\ pending # NoPending
  BY DEF Continue
<1>3. pending \in PendingType /\ pending.obj \in Object /\ value[pending.obj] # NoValue
  BY <1>1, <1>2 DEF TypeOK, PendingType
<1>4. SameHeaders(flash', flash)
  BY <1>1, <1>2, <1>3, BurstHeaders
<1>5. OnlyStores(b, pending.obj) /\ (pending' # NoPending => pending'.obj = pending.obj)
  BY <1>1, <1>2, <1>3, BurstTyped
<1>6. QED
  BY <1>3, <1>4, <1>5

(* and so does the header of an object.                                    *)
LEMMA BeginHeaders ==
  ASSUME AgreeInv, NEW b \in Bank, NEW o \in Object, value[o] # NoValue,
         RoomsFor(b, Length(value[o])) # {}, WriteHeader(b, o)
  PROVE  /\ SameHeaders(flash', flash) /\ OnlyStores(b, o)
         /\ pending' # NoPending => pending'.obj = o
<1>1. TypesInv /\ EndsInv /\ value[o] \in Value
  BY AgreeTypes
<1>2. PICK f : f = WithHeader(b, o)
  OBVIOUS
<1>3. BanksInv(f) /\ SameHeaders(f, flash) /\ Begun(b, o) \in PendingType
  <2>1. /\ BanksInv(f) /\ Begun(b, o) \in PendingType
        /\ \A x \in Bank : f[x].header = flash[x].header /\ f[x].seq = flash[x].seq
    BY ONLY <1>1, <1>2, b \in Bank, o \in Object, RoomsFor(b, Length(value[o])) # {}, HeaderHolds
  <2>2. QED
    BY <2>1 DEF SameHeaders
<1>4. Burst(b, f, Begun(b, o))
  BY <1>2 DEF WriteHeader, Begun
<1>5. SameHeaders(flash', f)
  BY <1>3, <1>4, BurstHeaders DEF BanksInv
<1>6. SameHeaders(flash', flash)
  BY <1>3, <1>5 DEF SameHeaders
<1>7. OnlyStores(b, o) /\ (pending' # NoPending => pending'.obj = o)
  BY <1>1, WriteHeaderTyped
<1>8. QED
  BY <1>6, <1>7

(* The parts of the invariant, as the steps below cite them.               *)
LEMMA SurviveTypes ==
  ASSUME SurviveInv
  PROVE  /\ AgreeInv /\ CopiesInv /\ NumberedInv /\ TypesInv
         /\ a \in Bank /\ Other(a) \in Bank /\ Other(a) # a /\ Other(Other(a)) = a
  BY AgreeTypes DEF SurviveInv

(* The headers of the banks stay, and no change of banks begins. *)
LEMMA SameNumbered ==
  ASSUME SurviveInv, SameHeaders(flash', flash), a' = a,
         state' \in CopyStates => state \in CopyStates
  PROVE  NumberedInv'
<1>1. /\ flash'[a].header = flash[a].header /\ flash'[a].seq = flash[a].seq
      /\ flash'[Other(a)].header = flash[Other(a)].header
      /\ flash'[Other(a)].seq = flash[Other(a)].seq
  BY SurviveTypes DEF SameHeaders
<1>2. QED
  BY <1>1 DEF SurviveInv, NumberedInv, Changing

(* What would survive, read from the objects. *)
Kept == [o \in Object |-> IF target[o] # 0 THEN value[o] ELSE NoValue]

(* What a step may do to the values and to what would survive.             *)
KeptStep ==
  \/ UNCHANGED <<value, Kept>>
  \/ value' = Kept /\ Kept' = Kept
  \/ \E o \in Object :
       \/ value[o] # NoValue /\ Kept' = [Kept EXCEPT ![o] = value[o]] /\ UNCHANGED value
       \/ Kept' = [Kept EXCEPT ![o] = NoValue] /\ UNCHANGED value
       \/ \E v \in Value \cup {NoValue} :
            value' = [value EXCEPT ![o] = v] /\ Kept' = [Kept EXCEPT ![o] = NoValue]

(* It is what Stored reads from bank A. *)
LEMMA StoredKept == AgreeInv => Stored = Kept
<1> SUFFICES ASSUME AgreeInv PROVE Stored = Kept
  OBVIOUS
<1> DEFINE bank == flash[a]
           Of(o) == {p \in Good(bank) : bank.cells[p].obj = o}
<1>1. Holds(bank, target, value) /\ bank \in BankType
  BY AgreeTypes
<1>2. ASSUME NEW o \in Object
      PROVE  Stored[o] = Kept[o]
  <2>1. Stored[o] = IF \E p \in Good(bank) : bank.cells[p].obj = o
                    THEN bank.cells[CHOOSE p \in Good(bank) : bank.cells[p].obj = o].val
                    ELSE NoValue
    BY DEF Stored
  <2>2. Kept[o] = IF target[o] # 0 THEN value[o] ELSE NoValue
    BY DEF Kept
  <2>3. \A p \in Good(bank) : bank.cells[p].obj = o => target[o] = p /\ p # 0
    BY <1>1, GoodFacts DEF Holds
  <2>4. target[o] # 0 => /\ target[o] \in Good(bank) /\ bank.cells[target[o]].obj = o
                         /\ bank.cells[target[o]].val = value[o]
    BY <1>1 DEF Holds
  <2> HIDE DEF bank
  <2>5. CASE target[o] # 0
    <3>1. \E p \in Good(bank) : bank.cells[p].obj = o
      BY <2>4, <2>5
    <3>2. (CHOOSE p \in Good(bank) : bank.cells[p].obj = o) = target[o]
      BY <2>3, <3>1
    <3>3. QED
      BY <2>1, <2>2, <2>4, <2>5, <3>1, <3>2
  <2>6. CASE target[o] = 0
    BY <2>1, <2>2, <2>3, <2>6
  <2>7. QED
    BY <2>5, <2>6
<1>3. QED
  BY <1>2 DEF Stored, Kept

(* Such a step is one that SurvivingObjects allows.                        *)
LEMMA Promised ==
  ASSUME AgreeInv, AgreeInv', KeptStep
  PROVE  [Surviving!Next]_(Surviving!vars)
<1>1. Stored = Kept /\ Stored' = Kept'
  <2>1. Stored = Kept
    BY StoredKept
  <2>2. (AgreeInv => Stored = Kept)'
    BY StoredKept, PTL
  <2>3. QED
    BY <2>1, <2>2
<1>2. CASE UNCHANGED <<value, Kept>>
  BY <1>1, <1>2 DEF Surviving!vars
<1>3. CASE value' = Kept /\ Kept' = Kept
  BY <1>1, <1>3 DEF Surviving!Next, Surviving!PowerLoss
<1>4. ASSUME NEW o \in Object,
             value[o] # NoValue /\ Kept' = [Kept EXCEPT ![o] = value[o]] /\ UNCHANGED value
      PROVE  Surviving!Next
  BY <1>1, <1>4 DEF Surviving!Next, Surviving!Store
<1>5. ASSUME NEW o \in Object, Kept' = [Kept EXCEPT ![o] = NoValue] /\ UNCHANGED value
      PROVE  Surviving!Next
  BY <1>1, <1>5 DEF Surviving!Next, Surviving!Discard
<1>6. ASSUME NEW o \in Object, NEW v \in Value \cup {NoValue},
             value' = [value EXCEPT ![o] = v] /\ Kept' = [Kept EXCEPT ![o] = NoValue]
      PROVE  Surviving!Next
  BY <1>1, <1>6 DEF Surviving!Next, Surviving!Set
<1>7. QED
  BY <1>2, <1>3, <1>4, <1>5, <1>6 DEF KeptStep

(* At most one object was stored, or gave up its place. *)
LEMMA OneStored ==
  ASSUME TypeOK, TypeOK', UNCHANGED value, NEW o \in Object, value[o] # NoValue,
         \A x \in Object : x # o => target'[x] = target[x]
  PROVE  KeptStep
<1>1. target \in [Object -> 0 .. Cells] /\ target' \in [Object -> 0 .. Cells]
  BY DEF TypeOK
<1>2. \A x \in Object : /\ Kept[x] = IF target[x] # 0 THEN value[x] ELSE NoValue
                        /\ Kept'[x] = IF target'[x] # 0 THEN value[x] ELSE NoValue
  BY DEF Kept
<1>3. \A x \in Object : x # o => Kept'[x] = Kept[x]
  BY <1>2
<1>4. Kept = [x \in Object |-> Kept[x]] /\ Kept' = [x \in Object |-> Kept'[x]]
  BY DEF Kept
<1> HIDE DEF Kept
<1>5. CASE target'[o] # 0
  <2>1. Kept' = [Kept EXCEPT ![o] = value[o]]
    BY <1>2, <1>3, <1>4, <1>5
  <2>2. QED
    BY <2>1 DEF KeptStep
<1>6. CASE target'[o] = 0
  <2>1. Kept' = [Kept EXCEPT ![o] = NoValue]
    BY <1>2, <1>3, <1>4, <1>6
  <2>2. QED
    BY <2>1 DEF KeptStep
<1>7. QED
  BY <1>5, <1>6

(* Nothing was stored and nothing given up.                                *)
LEMMA NoneStored ==
  ASSUME UNCHANGED value, \A x \in Object : target'[x] # 0 <=> target[x] # 0
  PROVE  KeptStep
<1>1. Kept' = Kept
  BY DEF Kept
<1>2. QED
  BY <1>1 DEF KeptStep

(* The steps of AdvanceState. *)
LEMMA WrittenSurvives ==
  ASSUME SurviveInv, AgreeInv', NEW b \in Bank, NEW o \in Object, value[o] # NoValue,
         SameHeaders(flash', flash), OnlyStores(b, o), UNCHANGED <<a, value, state>>,
         pending' # NoPending => pending'.obj = o,
         \/ b = a /\ state = "FlushNextObject"
         \/ b = Other(a) /\ state = "CopyToOtherBank" /\ target[o] # 0
  PROVE  SurviveInv' /\ KeptStep
<1>1. TypeOK /\ TypeOK' /\ CopiesInv /\ Other(a) # a
  BY SurviveTypes DEF AgreeInv, TypesInv
<1>2. \A x \in Object : x # o => target'[x] = target[x] /\ copied'[x] = copied[x]
  BY DEF OnlyStores
<1>3. KeptStep
  BY <1>1, <1>2, OneStored
<1>4. NumberedInv'
  BY SameNumbered
<1>5. CopiesInv'
  <2>1. CASE state = "FlushNextObject"
    BY <2>1 DEF CopiesInv, CopyStates
  <2>2. CASE b = Other(a) /\ state = "CopyToOtherBank" /\ target[o] # 0
    <3>1. target' = target /\ target'[o] # 0
      BY <1>1, <2>2 DEF OnlyStores
    <3>2. \A x \in Object : copied'[x] # 0 => target'[x] # 0
      BY <1>1, <1>2, <2>2, <3>1 DEF CopiesInv, CopyStates
    <3>3. QED
      BY <2>2, <3>1, <3>2 DEF CopiesInv
  <2>3. QED
    BY <2>1, <2>2
<1>6. QED
  BY <1>3, <1>4, <1>5 DEF SurviveInv

(* What touches no bank and no object. *)
LEMMA QuietSurvives ==
  ASSUME SurviveInv, AgreeInv', UNCHANGED <<flash, a, value, target>>,
         state' \in CopyStates => state' = state /\ UNCHANGED <<copied, pending>>
  PROVE  SurviveInv' /\ KeptStep
<1>1. CopiesInv
  BY SurviveTypes
<1>2. NumberedInv'
  BY SameNumbered DEF SameHeaders
<1>3. CopiesInv'
  BY <1>1 DEF CopiesInv, CopyStates
<1>4. KeptStep
  BY NoneStored
<1>5. QED
  BY <1>2, <1>3, <1>4 DEF SurviveInv

(* AdvanceState where an object is saved to bank A.                        *)
LEMMA FlushSurvives == SurviveInv /\ FlushNextObject /\ AgreeInv' => SurviveInv' /\ KeptStep
<1> SUFFICES ASSUME SurviveInv, FlushNextObject, AgreeInv' PROVE SurviveInv' /\ KeptStep
  OBVIOUS
<1> DEFINE o == First(Unsaved)
<1>1. AgreeInv /\ TypesInv /\ a \in Bank /\ state = "FlushNextObject"
  BY SurviveTypes DEF FlushNextObject
<1>2. o # NoObject => o \in Object /\ value[o] # NoValue
  BY <1>1, NextObject
<1>3. \A s \in {"Idle", "Erase"} : StateAfter(s) \notin CopyStates
  BY DEF StateAfter, CopyStates
<1> HIDE DEF o
<1>4. CASE Continue(a)
  <2>1. UNCHANGED <<a, value, state>>
    BY <1>4 DEF Continue
  <2>2. QED
    BY <1>1, <1>4, <2>1, ContinueHeaders, WrittenSurvives
<1>5. CASE /\ o # NoObject /\ RoomsFor(a, Length(value[o])) # {} /\ WriteHeader(a, o)
           /\ UNCHANGED <<a, value, state>>
  BY <1>1, <1>2, <1>5, BeginHeaders, WrittenSurvives
<1>6. CASE state' \in {StateAfter("Idle"), StateAfter("Erase")} /\ UNCHANGED <<flash, a, weak>>
  BY <1>3, <1>6, QuietSurvives DEF weak
<1>7. QED
  BY <1>4, <1>5, <1>6 DEF FlushNextObject, o

(* AdvanceState where nothing is pending.                                  *)
LEMMA IdleSurvives == SurviveInv /\ Idle /\ AgreeInv' => SurviveInv' /\ KeptStep
<1> SUFFICES ASSUME SurviveInv, Idle, AgreeInv' PROVE SurviveInv' /\ KeptStep
  OBVIOUS
<1>1. state' \notin CopyStates /\ UNCHANGED <<flash, a, value, target>>
  BY DEF Idle, StateAfter, CopyStates, weak
<1>2. QED
  BY <1>1, QuietSurvives

(* AdvanceState where the change of banks begins.                          *)
LEMMA EraseSurvives == SurviveInv /\ Erase /\ AgreeInv' => SurviveInv' /\ KeptStep
<1> SUFFICES ASSUME SurviveInv, Erase, AgreeInv' PROVE SurviveInv' /\ KeptStep
  OBVIOUS
<1>1. state' \notin CopyStates /\ UNCHANGED <<flash, a, value, target>>
  BY DEF Erase, CopyStates
<1>2. QED
  BY <1>1, QuietSurvives

(* AdvanceState where bank B is erased.                                    *)
LEMMA EraseSectorSurvives == SurviveInv /\ EraseSector /\ AgreeInv' => SurviveInv' /\ KeptStep
<1> SUFFICES ASSUME SurviveInv, EraseSector, AgreeInv' PROVE SurviveInv' /\ KeptStep
  OBVIOUS
<1> DEFINE b == Other(a)
           E == Format(EraseFirst(flash[b]))
<1>1. /\ AgreeInv /\ TypesInv /\ NumberedInv /\ a \in Bank /\ b \in Bank /\ b # a
      /\ flash \in Banks
  BY SurviveTypes, AgreeTypes
<1>2. E.header = TRUE /\ E.seq = Erased /\ flash' = [flash EXCEPT ![b] = E]
  BY <1>1, SectorErased
<1>3. /\ state = "EraseSector" /\ state' = "CopyToOtherBank"
      /\ UNCHANGED <<a, value, target, copied, pending>>
  BY DEF EraseSector, weak
<1> HIDE DEF E
<1>4. flash'[b] = E /\ flash'[a] = flash[a]
  BY <1>1, <1>2 DEF Banks
<1>5. NumberedInv'
  BY <1>1, <1>2, <1>3, <1>4 DEF NumberedInv, Changing
<1>6. pending = NoPending /\ \A o \in Object : copied[o] = 0
  BY <1>1, <1>3 DEF AgreeInv, PendingInv, TypesInv, Persisted
<1>7. CopiesInv'
  BY <1>3, <1>6 DEF CopiesInv
<1>8. KeptStep
  BY <1>3, NoneStored
<1>9. QED
  BY <1>5, <1>7, <1>8 DEF SurviveInv

(* AdvanceState where the objects of bank A are copied to bank B.          *)
LEMMA CopySurvives == SurviveInv /\ CopyToOtherBank /\ AgreeInv' => SurviveInv' /\ KeptStep
<1> SUFFICES ASSUME SurviveInv, CopyToOtherBank, AgreeInv' PROVE SurviveInv' /\ KeptStep
  OBVIOUS
<1> DEFINE b == Other(a)
           o == First(Uncopied)
           fits == o # NoObject /\ UsedUpTo(o) < SafeCells
<1>1. /\ AgreeInv /\ TypesInv /\ CopiesInv /\ b \in Bank
      /\ state = "CopyToOtherBank" /\ state \in CopyStates
  BY SurviveTypes DEF CopyToOtherBank, CopyStates
<1>2. o # NoObject => o \in Object /\ value[o] # NoValue /\ target[o] # 0
  BY <1>1, NextObject DEF Uncopied
<1>3. \/ Continue(b)
      \/ /\ fits /\ RoomsFor(b, Length(value[o])) # {} /\ WriteHeader(b, o)
         /\ UNCHANGED <<a, value, priority, list, state>>
      \/ /\ pending = NoPending /\ state' = "CopyBackToRam"
         /\ UNCHANGED <<flash, a, weak, pending>>
  BY DEF CopyToOtherBank
<1> HIDE DEF o
<1>4. CASE Continue(b)
  <2>1. UNCHANGED <<a, value, state>> /\ target[pending.obj] # 0
    BY <1>1, <1>4 DEF Continue, CopiesInv
  <2>2. QED
    BY <1>1, <1>4, <2>1, ContinueHeaders, WrittenSurvives
<1>5. CASE /\ fits /\ RoomsFor(b, Length(value[o])) # {} /\ WriteHeader(b, o)
           /\ UNCHANGED <<a, value, priority, list, state>>
  BY <1>1, <1>2, <1>5, BeginHeaders, WrittenSurvives
<1>6. CASE /\ pending = NoPending /\ state' = "CopyBackToRam"
           /\ UNCHANGED <<flash, a, weak, pending>>
  <2>1. NumberedInv'
    BY <1>1, <1>6, SameNumbered DEF SameHeaders
  <2>2. CopiesInv'
    BY <1>1, <1>6 DEF CopiesInv, weak
  <2>3. KeptStep
    BY <1>6, NoneStored DEF weak
  <2>4. QED
    BY <2>1, <2>2, <2>3 DEF SurviveInv
<1>7. QED
  BY <1>3, <1>4, <1>5, <1>6

(* AdvanceState where objects that bank B has no room for are given up.    *)
LEMMA BackToRamSurvives == SurviveInv /\ CopyBackToRam /\ AgreeInv' => SurviveInv' /\ KeptStep
<1> SUFFICES ASSUME SurviveInv, CopyBackToRam, AgreeInv' PROVE SurviveInv' /\ KeptStep
  OBVIOUS
<1> DEFINE o == First(Uncopied)
<1>1. /\ AgreeInv /\ TypesInv /\ CopiesInv /\ BanksInv(flash) /\ a \in Bank
      /\ target \in [Object -> 0 .. Cells] /\ Holds(flash[a], target, value)
      /\ TypeOK /\ TypeOK'
  BY SurviveTypes, AgreeTypes DEF AgreeInv, TypesInv
<1>2. /\ state = "CopyBackToRam" /\ state \in CopyStates
      /\ UNCHANGED <<a, value, copied, pending>>
  BY DEF CopyBackToRam, CopyStates
<1>3. o # NoObject => o \in Uncopied /\ o \in Object /\ value[o] # NoValue
  BY <1>1, NextObject
<1>4. o = NoObject => Uncopied = {}
  BY <1>1, NextObject
<1>5. \/ o = NoObject /\ state' = "SwitchBank" /\ UNCHANGED <<flash, target>>
      \/ /\ o # NoObject
         /\ flash' = Delete(flash, a, target[o]) /\ target' = [target EXCEPT ![o] = 0]
         /\ UNCHANGED state
      \/ state' = StateAfter("Erase") /\ UNCHANGED <<flash, target>>
  BY DEF CopyBackToRam
<1> HIDE DEF o
<1>6. CASE o = NoObject /\ state' = "SwitchBank" /\ UNCHANGED <<flash, target>>
  <2>1. NumberedInv'
    BY <1>2, <1>6, SameNumbered DEF SameHeaders
  <2>2. CopiesInv'
    BY <1>1, <1>2, <1>4, <1>6 DEF CopiesInv, Uncopied
  <2>3. KeptStep
    BY <1>2, <1>6, NoneStored
  <2>4. QED
    BY <2>1, <2>2, <2>3 DEF SurviveInv
<1>7. CASE /\ o # NoObject
           /\ flash' = Delete(flash, a, target[o]) /\ target' = [target EXCEPT ![o] = 0]
           /\ UNCHANGED state
  <2>1. o \in Object /\ value[o] # NoValue /\ target[o] # 0 /\ copied[o] = 0
    BY <1>3, <1>7 DEF Uncopied
  <2>2. /\ flash'[Other(a)] = flash[Other(a)]
        /\ flash'[a].header = flash[a].header /\ flash'[a].seq = flash[a].seq
    BY <1>1, <1>7, <2>1, GivenUpHolds
  <2>3. SameHeaders(flash', flash)
    BY <1>1, <2>2, OtherBank DEF SameHeaders
  <2>4. NumberedInv'
    BY <1>2, <1>7, <2>3, SameNumbered
  <2>5. \A x \in Object : x # o => target'[x] = target[x]
    BY <1>1, <1>7
  <2>6. CopiesInv'
    BY <1>1, <1>2, <1>7, <2>1, <2>5 DEF CopiesInv
  <2>7. KeptStep
    BY <1>1, <1>2, <2>1, <2>5, OneStored
  <2>8. QED
    BY <2>4, <2>6, <2>7 DEF SurviveInv
<1>8. CASE state' = StateAfter("Erase") /\ UNCHANGED <<flash, target>>
  <2>1. state' \notin CopyStates
    BY <1>8 DEF StateAfter, CopyStates
  <2>2. QED
    BY <1>2, <1>8, <2>1, QuietSurvives
<1>9. QED
  BY <1>5, <1>6, <1>7, <1>8

(* The banks change roles: what was copied is what was persisted.          *)
LEMMA SwitchSurvives == SurviveInv /\ SwitchBank /\ AgreeInv' => SurviveInv' /\ KeptStep
<1> SUFFICES ASSUME SurviveInv, SwitchBank, AgreeInv' PROVE SurviveInv' /\ KeptStep
  OBVIOUS
<1> DEFINE b == Other(a)
<1>1. /\ AgreeInv /\ CopiesInv /\ NumberedInv /\ flash \in Banks
      /\ a \in Bank /\ b \in Bank /\ Other(b) = a
  BY SurviveTypes, AgreeTypes
<1>2. /\ state = "SwitchBank" /\ state \in CopyStates /\ state' = "FlushNextObject"
      /\ target' = copied /\ flash' = SetSequence(flash) /\ a' = b /\ UNCHANGED value
  BY DEF SwitchBank, CopyStates
<1>3. /\ \A x \in Bank : flash'[x].header = flash[x].header
      /\ flash'[a].seq = IF flash[a].seq = Erased THEN Erased ELSE 1
      /\ flash'[b].seq = IF flash[a].seq = Erased THEN 0 ELSE 2
  BY <1>1, <1>2, Sequenced
<1>4. flash[a].header /\ flash[a].seq # Erased /\ flash[b].header
  BY <1>1, <1>2 DEF NumberedInv, Changing, Erased
<1>5. NumberedInv'
  BY <1>1, <1>2, <1>3, <1>4 DEF NumberedInv, CopyStates
<1>6. CopiesInv'
  BY <1>2 DEF CopiesInv, CopyStates
<1>7. KeptStep
  BY <1>1, <1>2, NoneStored DEF CopiesInv
<1>8. QED
  BY <1>5, <1>6, <1>7 DEF SurviveInv

(* The completion, the callback and the flush of the whole.                *)
LEMMA RunSurvives == SurviveInv /\ (Yield \/ Callback \/ FlushAll) /\ AgreeInv' => SurviveInv' /\ KeptStep
<1> SUFFICES ASSUME SurviveInv, Yield \/ Callback \/ FlushAll, AgreeInv'
             PROVE  SurviveInv' /\ KeptStep
  OBVIOUS
<1>1. UNCHANGED <<flash, a, weak, state, pending>>
  BY DEF Yield, Callback, FlushAll
<1>2. QED
  BY <1>1, QuietSurvives DEF weak

(* The program replaces the value of an object. *)
LEMMA InvalidateSurvives ==
  ASSUME SurviveInv, AgreeInv', NEW o \in Object, NEW v \in Value \cup {NoValue},
         InvalidateEntry(o, v), UNCHANGED a
  PROVE  SurviveInv' /\ KeptStep
<1>1. PICK f : f = (IF pending.obj = o THEN Delete(flash, WriteBank, pending.pos) ELSE flash)
  OBVIOUS
<1>2. /\ flash' = (IF target[o] # 0 THEN Delete(f, a, target[o]) ELSE f)
      /\ target' = [target EXCEPT ![o] = 0]
      /\ value' = [value EXCEPT ![o] = v]
      /\ state' = CASE state = "Idle" -> "FlushNextObject"
                    [] state \in {"CopyToOtherBank", "CopyBackToRam", "SwitchBank"} -> "Erase"
                    [] OTHER -> state
  BY <1>1 DEF InvalidateEntry, WriteBank
<1>3. /\ AgreeInv /\ a \in Bank /\ target \in [Object -> 0 .. Cells]
      /\ value \in [Object -> Value \cup {NoValue}]
  BY SurviveTypes, AgreeTypes
<1>4. BanksInv(f) /\ Holds(f[a], target, value) /\ SameHeaders(f, flash)
  BY <1>1, <1>3, PendingDropped DEF SameHeaders
<1>5. SameHeaders(flash', flash)
  <2>1. CASE target[o] = 0
    BY <1>2, <1>4, <2>1
  <2>2. CASE target[o] # 0
    <3>1. /\ flash'[Other(a)] = f[Other(a)]
          /\ flash'[a].header = f[a].header /\ flash'[a].seq = f[a].seq
      BY <1>2, <1>3, <1>4, <2>2, GivenUpHolds
    <3>2. QED
      BY <1>3, <1>4, <3>1, OtherBank DEF SameHeaders
  <2>3. QED
    BY <2>1, <2>2
<1>6. state' \notin CopyStates
  BY <1>2 DEF CopyStates
<1>7. NumberedInv'
  BY <1>5, <1>6, SameNumbered
<1>8. CopiesInv'
  BY <1>6 DEF CopiesInv, CopyStates
<1>9. KeptStep
  <2>1. \A x \in Object : /\ Kept[x] = IF target[x] # 0 THEN value[x] ELSE NoValue
                          /\ Kept'[x] = IF target'[x] # 0 THEN value'[x] ELSE NoValue
    BY DEF Kept
  <2>2. target'[o] = 0 /\ \A x \in Object : x # o => target'[x] = target[x] /\ value'[x] = value[x]
    BY <1>2, <1>3
  <2>3. Kept = [x \in Object |-> Kept[x]] /\ Kept' = [x \in Object |-> Kept'[x]]
    BY DEF Kept
  <2> HIDE DEF Kept
  <2>4. Kept' = [Kept EXCEPT ![o] = NoValue]
    BY <2>1, <2>2, <2>3
  <2>5. QED
    BY <1>2, <2>4 DEF KeptStep
<1>10. QED
  BY <1>7, <1>8, <1>9 DEF SurviveInv

(* What the program, the collector and Recover do.                         *)
LEMMA ProgramSurvives == SurviveInv /\ Program /\ AgreeInv' => SurviveInv' /\ KeptStep
<1> SUFFICES ASSUME SurviveInv, AgreeInv', NEW o \in Object,
                    \/ \E v \in Value \cup {NoValue} : SetTarget(o, v)
                    \/ \E p \in Priority \cup {priority[o]} : SetPriority(o, p)
                    \/ Drop(o)
             PROVE  SurviveInv' /\ KeptStep
  BY DEF Program
<1>1. ASSUME NEW v \in Value \cup {NoValue}, SetTarget(o, v) PROVE SurviveInv' /\ KeptStep
  <2>1. UNCHANGED <<a, copied>>
    BY <1>1 DEF SetTarget
  <2>2. CASE v # value[o]
    BY <1>1, <2>1, <2>2, InvalidateSurvives DEF SetTarget
  <2>3. CASE v = value[o]
    <3>1. UNCHANGED <<flash, pending, target, value, state>>
      BY <1>1, <2>3 DEF SetTarget
    <3>2. QED
      BY <2>1, <3>1, QuietSurvives
  <2>4. QED
    BY <2>2, <2>3
<1>2. ASSUME NEW p, SetPriority(o, p) PROVE SurviveInv' /\ KeptStep
  BY <1>2, QuietSurvives DEF SetPriority, manager
<1>3. ASSUME Drop(o) PROVE SurviveInv' /\ KeptStep
  BY <1>3, InvalidateSurvives DEF Drop
<1>4. QED
  BY <1>1, <1>2, <1>3

(* What a power loss leaves of bank A, and of the header of bank B.        *)
LEMMA LeftNumbered ==
  ASSUME SurviveInv, ~Changing, NEW f \in AtPowerLoss
  PROVE  /\ SameGood(f[a], flash[a]) /\ Good(f[a]) = Good(flash[a])
         /\ f[a].header = flash[a].header /\ f[a].seq = flash[a].seq
         /\ f[Other(a)].header => flash[Other(a)].header
         /\ f[Other(a)].seq = flash[Other(a)].seq
<1>1. /\ TypesInv /\ EndsInv /\ NumberedInv /\ a \in Bank /\ Other(a) \in Bank /\ Other(a) # a
      /\ flash \in Banks /\ \A x \in Bank : flash[x] \in BankType
  BY SurviveTypes, AgreeTypes
<1>2. state \notin CopyStates
  BY <1>1 DEF NumberedInv
<1>3. CASE f = flash
  BY <1>3 DEF SameGood
<1>4. ASSUME NEW o \in Object, HeaderLeft(f, a, o)
      PROVE  /\ SameGood(f[a], flash[a]) /\ Good(f[a]) = Good(flash[a])
             /\ SameHeaders(f, flash)
  <2>1. f = WithHeader(a, o) \/ f = CutShort(a, o)
    BY <1>4 DEF HeaderLeft, CutShort
  <2>2. value[o] \in Value /\ RoomsFor(a, Length(value[o])) # {}
    BY <1>4 DEF HeaderLeft
  <2>3. ASSUME f = WithHeader(a, o)
        PROVE  /\ \A x \in Bank : SameGood(f[x], flash[x]) /\ Good(f[x]) = Good(flash[x])
               /\ \A x \in Bank : f[x].header = flash[x].header /\ f[x].seq = flash[x].seq
    BY ONLY <1>1, <2>2, <2>3, o \in Object, HeaderHolds
  <2>4. ASSUME f = CutShort(a, o)
        PROVE  /\ \A x \in Bank : SameGood(f[x], flash[x]) /\ Good(f[x]) = Good(flash[x])
               /\ \A x \in Bank : f[x].header = flash[x].header /\ f[x].seq = flash[x].seq
    BY ONLY <1>1, <2>2, <2>4, o \in Object, CutShortHolds
  <2>5. QED
    BY <1>1, <2>1, <2>3, <2>4 DEF SameHeaders
<1>5. ASSUME HalfErased(f)
      PROVE  f[a] = flash[a] /\ (f[Other(a)].header => flash[Other(a)].header)
             /\ f[Other(a)].seq = flash[Other(a)].seq
  <2> DEFINE b == Other(a)
             X == [flash[b] EXCEPT !.header = FALSE]
             Y == [flash[b] EXCEPT !.cells = EraseFirst(flash[b]).cells]
  <2>1. f = [flash EXCEPT ![b] = X] \/ f = [flash EXCEPT ![b] = Y]
    BY <1>5 DEF HalfErased
  <2>2. X.header = FALSE /\ X.seq = flash[b].seq
    BY <1>1 DEF BankType
  <2>3. Y.header = flash[b].header /\ Y.seq = flash[b].seq
    BY <1>1 DEF BankType
  <2> HIDE DEF X, Y
  <2>4. QED
    BY <1>1, <2>1, <2>2, <2>3 DEF Banks
<1>6. CASE state = "EraseSector" /\ HalfErased(f)
  BY <1>5, <1>6 DEF SameGood
<1>7. \/ f = flash
      \/ \E o \in Object : HeaderLeft(f, a, o)
      \/ state = "EraseSector" /\ HalfErased(f)
  BY <1>1, <1>2, LeftByPowerLoss DEF CopyStates
<1>8. CASE \E o \in Object : HeaderLeft(f, a, o)
  <2>1. PICK o \in Object : HeaderLeft(f, a, o)
    BY <1>8
  <2>2. SameGood(f[a], flash[a]) /\ Good(f[a]) = Good(flash[a]) /\ SameHeaders(f, flash)
    BY <1>4, <2>1
  <2>3. QED
    BY <1>1, <2>2 DEF SameHeaders
<1>9. QED
  BY <1>3, <1>6, <1>7, <1>8

(* Initialize takes the same bank for bank A, and finds what was stored.   *)
LEMMA PowerLossSurvives ==
  ASSUME ~LossWhileCopying, SurviveInv, PowerLoss, AgreeInv'
  PROVE  /\ SurviveInv' /\ KeptStep
         /\ \A o \in Object : target[o] # 0 => value'[o] = value[o]
<1>1. ~Changing
  BY DEF PowerLoss
<1>2. PICK f \in AtPowerLoss : Boot(f)
  BY DEF PowerLoss
<1>3. /\ AgreeInv /\ NumberedInv /\ a \in Bank /\ Other(a) \in Bank /\ Other(a) # a
      /\ Holds(flash[a], target, value) /\ flash[a] \in BankType
  BY SurviveTypes, AgreeTypes
<1>4. /\ SameGood(f[a], flash[a]) /\ Good(f[a]) = Good(flash[a])
      /\ f[a].header = flash[a].header /\ f[a].seq = flash[a].seq
      /\ f[Other(a)].header => flash[Other(a)].header
      /\ f[Other(a)].seq = flash[Other(a)].seq
  BY <1>1, LeftNumbered
<1>5. /\ f[a].header /\ f[a].seq \in {1, 2}
      /\ f[Other(a)].header => f[Other(a)].seq = 1 /\ f[a].seq = 2
  BY <1>1, <1>3, <1>4 DEF NumberedInv, Changing
<1>6. BankAtBoot(f) = a
  <2>1. IsGoodBank(f[a]) /\ (IsGoodBank(f[Other(a)]) => f[Other(a)].seq = 1 /\ f[a].seq = 2)
    BY <1>5 DEF IsGoodBank
  <2>2. CASE a = 0
    BY <2>1, <2>2 DEF BankAtBoot, Other
  <2>3. CASE a = 1
    BY <2>1, <2>3 DEF BankAtBoot, Other
  <2>4. QED
    BY <1>3, <2>2, <2>3 DEF Bank
<1>7. FlashAtBoot(f) = f
  BY <1>5, <1>6 DEF FlashAtBoot, IsGoodBank
<1>8. /\ flash' = f /\ a' = a /\ state' = "FlushNextObject"
      /\ value' = [o \in Object |-> IF target'[o] = 0 THEN NoValue ELSE f[a].cells[target'[o]].val]
  BY <1>2, <1>6, <1>7 DEF Boot
<1>9. Holds(f[a], target', value')
  BY <1>8 DEF AgreeInv, HeldInv
<1>10. NumberedInv' /\ CopiesInv'
  BY <1>5, <1>8 DEF NumberedInv, CopiesInv, CopyStates
<1>11. \A q \in Good(f[a]) : /\ f[a].cells[q].obj = flash[a].cells[q].obj
                             /\ f[a].cells[q].val = flash[a].cells[q].val
  BY <1>4 DEF SameGood
<1>12. ASSUME NEW o \in Object
       PROVE  target'[o] = target[o] /\ (target'[o] # 0 => value'[o] = value[o])
  <2>1. target[o] # 0 => /\ target[o] \in Good(f[a]) /\ f[a].cells[target[o]].obj = o
                         /\ f[a].cells[target[o]].val = value[o]
    BY <1>3, <1>4, <1>11 DEF Holds
  <2>2. target[o] # 0 => target'[o] = target[o]
    BY <1>9, <2>1 DEF Holds
  <2>3. target'[o] # 0 => /\ target'[o] \in Good(flash[a]) /\ flash[a].cells[target'[o]].obj = o
                          /\ f[a].cells[target'[o]].val = value'[o]
    BY <1>4, <1>9, <1>11 DEF Holds
  <2>4. target'[o] # 0 => target[o] = target'[o]
    BY <1>3, <2>3 DEF Holds
  <2>5. QED
    BY <2>1, <2>2, <2>3, <2>4
<1>13. Kept' = Kept
  BY <1>12 DEF Kept
<1>14. value' = Kept
  <2>1. ASSUME NEW o \in Object PROVE value'[o] = Kept[o]
    BY <1>8, <1>12 DEF Kept
  <2>2. value' = [o \in Object |-> value'[o]] /\ Kept = [o \in Object |-> Kept[o]]
    BY <1>8 DEF Kept
  <2> HIDE DEF Kept
  <2>3. QED
    BY <2>1, <2>2
<1>15. QED
  BY <1>10, <1>12, <1>13, <1>14 DEF SurviveInv, KeptStep

(* What the first Initialize leaves keeps the promise.                     *)
LEMMA SurviveInit == Init => SurviveInv
<1> SUFFICES ASSUME Init PROVE SurviveInv
  OBVIOUS
<1> DEFINE F == [Blank EXCEPT !.header = TRUE, !.seq = 1]
<1>1. /\ flash = [b \in Bank |-> IF b = 0 THEN F ELSE Blank]
      /\ a = 0 /\ state = "FlushNextObject"
  BY DEF Init
<1>2. F.header = TRUE /\ F.seq = 1 /\ Blank.header = FALSE
  BY BlankType
<1> HIDE DEF F
<1>3. flash[a] = F /\ flash[Other(a)] = Blank
  BY <1>1 DEF Bank, Other
<1>4. NumberedInv /\ CopiesInv
  BY <1>1, <1>2, <1>3 DEF NumberedInv, CopiesInv, CopyStates
<1>5. QED
  BY <1>4, AgreeInit DEF SurviveInv

(* Every step does, a power loss while no change of banks is on included.  *)
LEMMA SurviveStep ==
  ASSUME BlockCells = Cells, ~LossWhileCopying
  PROVE  SurviveInv /\ [Next]_vars => SurviveInv' /\ AgreeInv' /\ KeptStep
<1> SUFFICES ASSUME SurviveInv, [Next]_vars PROVE SurviveInv' /\ AgreeInv' /\ KeptStep
  OBVIOUS
<1>1. AgreeInv'
  BY AgreeStep DEF SurviveInv
<1>2. CASE AdvanceState
  BY <1>1, <1>2, FlushSurvives, IdleSurvives, EraseSurvives, EraseSectorSurvives, CopySurvives,
     BackToRamSurvives, SwitchSurvives
  DEF AdvanceState
<1>3. CASE Yield \/ Callback \/ FlushAll
  BY <1>1, <1>3, RunSurvives
<1>4. CASE Program
  BY <1>1, <1>4, ProgramSurvives
<1>5. CASE PowerLoss
  BY <1>1, <1>5, PowerLossSurvives
<1>6. CASE UNCHANGED vars
  BY <1>1, <1>6, QuietSurvives DEF vars, weak, manager
<1>7. QED
  BY <1>1, <1>2, <1>3, <1>4, <1>5, <1>6 DEF Next

(* When a bank is one block and power stays during a change of banks, the  *)
(* weak references keep what SurvivingObjects promises: what was stored is *)
(* found again after every restart, and nothing older or other than it     *)
(* (AdvanceState, SwitchBank and Initialize against the promise of the     *)
(* abstract specification).                                                *)
THEOREM Survives ==
  ASSUME BlockCells = Cells, ~LossWhileCopying
  PROVE  Spec => ImplementsSurviving
<1>1. Init => Surviving!Init
  <2> SUFFICES ASSUME Init PROVE Surviving!Init
    OBVIOUS
  <2>1. value = [o \in Object |-> NoValue] /\ \A o \in Object : target[o] = 0
    BY DEF Init
  <2>2. Stored = Kept
    BY AgreeInit, StoredKept
  <2>3. Kept = value
    BY <2>1 DEF Kept
  <2>4. QED
    BY <2>1, <2>2, <2>3 DEF Surviving!Init
<1>2. SurviveInv /\ [Next]_vars => SurviveInv'
  BY SurviveStep
<1>3. SurviveInv /\ [Next]_vars => [Surviving!Next]_(Surviving!vars)
  BY SurviveStep, Promised DEF SurviveInv
<1>4. QED
  BY <1>1, <1>2, <1>3, SurviveInit, PTL DEF Spec, ImplementsSurviving, Surviving!Spec

(* Under the same conditions no power loss takes the value of an object    *)
(* that was persisted: Initialize reads from the bank it takes for bank A  *)
(* what the objects had stored there.                                      *)
THEOREM Recovered ==
  ASSUME BlockCells = Cells, ~LossWhileCopying
  PROVE  Spec => StoredIsRecovered
<1>1. SurviveInv /\ [Next]_vars => SurviveInv'
  BY SurviveStep
<1>2. SurviveInv /\ [Next]_vars =>
        [PowerLoss => \A o \in Object : target[o] # 0 => value'[o] = value[o]]_vars
  <2> SUFFICES ASSUME SurviveInv, [Next]_vars, PowerLoss
               PROVE  \A o \in Object : target[o] # 0 => value'[o] = value[o]
    OBVIOUS
  <2>1. AgreeInv'
    BY SurviveStep
  <2>2. QED
    BY <2>1, PowerLossSurvives
<1>3. QED
  BY <1>1, <1>2, SurviveInit, PTL DEF Spec, StoredIsRecovered
=============================================================================
