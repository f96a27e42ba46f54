-------------------------- MODULE RoundRobinProofs --------------------------
(***************************************************************************)
(* For any threads, priorities and debits, and any settings that satisfy   *)
(* CounterAssumption as those of the CLR do: no execution counter          *)
(* overflows, and no thread is left behind by a rebase.                    *)
(***************************************************************************)
EXTENDS RoundRobin, DblLinkedListProofs

Most == MaxDebit + 1

(* The runs that are left can lower the global counter by so much. *)
LEMMA Products ==
  /\ Most \in Nat /\ MaxSwitches * Most \in Nat
  /\ 0 * Most = 0
  /\ \A n \in Nat : n * Most \in Nat /\ (n - 1) * Most = n * Most - Most
<1>1. Most \in Nat
  BY CounterAssumption DEF Most
<1> HIDE DEF Most
<1>2. ASSUME NEW n \in Nat PROVE n * Most \in Nat
  BY <1>1
<1>3. ASSUME NEW n \in Nat PROVE (n - 1) * Most = n * Most - Most
  BY <1>1
<1>4. MaxSwitches \in Nat
  BY CounterAssumption
<1>5. 0 * Most = 0
  BY <1>1
<1>6. QED
  BY <1>1, <1>2, <1>3, <1>4, <1>5

(* The search of InsertThreadRoundRobin finds a place. *)
LEMMA PlaceForProperties ==
  ASSUME NEW s \in Seq(Thread), NEW key \in [Thread -> Int], NEW k \in Int
  PROVE  PlaceFor(s, key, k) \in 1 .. Len(s) + 1
<1> DEFINE L == {i \in 1 .. Len(s) : key[s[i]] < k}
<1>1. Len(s) \in Nat /\ \A i \in 1 .. Len(s) : key[s[i]] \in Int
  BY ElementOfSeq
<1>2. \E p \in 1 .. Len(s) + 1 :
        /\ \A i \in 1 .. p - 1 : key[s[i]] >= k
        /\ p <= Len(s) => key[s[p]] < k
  <2>1. CASE L = {}
    <3>1. \A i \in 1 .. Len(s) : key[s[i]] >= k
      BY <1>1, <2>1
    <3> DEFINE q == Len(s) + 1
    <3>2. q \in 1 .. Len(s) + 1 /\ ~(q <= Len(s)) /\ 1 .. q - 1 = 1 .. Len(s)
      BY <1>1
    <3> HIDE DEF q
    <3>3. QED
      BY <3>1, <3>2
  <2>2. CASE L # {}
    <3> HIDE DEF L
    <3>1. PICK m \in L : \A i \in L : m <= i
      <4>1. L \in SUBSET Nat
        BY DEF L
      <4>2. QED
        BY <2>2, <4>1, LeastPosition
    <3> USE DEF L
    <3>2. m \in 1 .. Len(s) + 1 /\ key[s[m]] < k
      BY <1>1
    <3>3. \A i \in 1 .. m - 1 : key[s[i]] >= k
      BY <1>1, <3>1
    <3>4. QED
      BY <3>2, <3>3
  <2>3. QED
    BY <2>1, <2>2
<1>3. QED
  BY <1>2 DEF PlaceFor

(* InsertThreadRoundRobin adds the thread to the list and changes nothing   *)
(* else about who is in it.                                                *)
LEMMA InsertedNodes ==
  ASSUME ready \in Seq(Thread), Distinct(ready), NEW t \in Thread,
         NEW c \in [Thread -> Int], NEW p \in [Thread -> Priority]
  PROVE  /\ Inserted(t, c, p) \in Seq(Thread)
         /\ Distinct(Inserted(t, c, p))
         /\ Nodes(Inserted(t, c, p)) = Nodes(ready) \cup {t}
<1> DEFINE rest == Unlink(ready, t)
           key == [u \in Thread |-> c[u] + p[u]]
           place == PlaceFor(rest, key, key[t])
<1>0. Inserted(t, c, p) = InsertBefore(rest, place, t)
  BY DEF Inserted
<1>1. /\ rest \in Seq(Thread) /\ Distinct(rest)
      /\ Nodes(rest) = Nodes(ready) \ {t}
  BY UnlinkNodes
<1>2. key \in [Thread -> Int]
  <2>1. \A u \in Thread : c[u] \in Int /\ p[u] \in Nat
    BY CounterAssumption
  <2>2. QED
    BY <2>1
<1>3. key[t] \in Int
  BY <1>2
<1> HIDE DEF rest, key
<1>4. place \in 1 .. Len(rest) + 1
  BY <1>1, <1>2, <1>3, PlaceForProperties
<1> HIDE DEF place
<1>5. t \notin Nodes(rest)
  BY <1>1
<1>6. InsertBefore(rest, place, t) \in Seq(Thread)
  BY <1>1, <1>4, InsertProperties
<1>7. /\ Nodes(InsertBefore(rest, place, t)) = Nodes(rest) \cup {t}
      /\ Distinct(InsertBefore(rest, place, t))
  BY <1>1, <1>4, <1>5, InsertNodes
<1>8. QED
  BY <1>0, <1>1, <1>6, <1>7

(* What BringExecCounterToDate and a rebase keep, number by number. *)
LEMMA BroughtToDate ==
  ASSUME NEW c \in Int, NEW g \in Int, c <= 0, c >= g - 1
  PROVE  /\ BringExecCounterToDate(c, g) \in Int
         /\ BringExecCounterToDate(c, g) <= 0
         /\ BringExecCounterToDate(c, g) >= g - 1
BY CounterAssumption DEF BringExecCounterToDate

LEMMA Rebased ==
  ASSUME NEW c \in Int, NEW g \in Int, c <= 0, c >= g - 1, g < -Maximum
  PROVE  /\ BringExecCounterToDate(c + Adjustment, g + Adjustment) \in Int
         /\ BringExecCounterToDate(c + Adjustment, g + Adjustment) <= 0
         /\ BringExecCounterToDate(c + Adjustment, g + Adjustment) >= g + Adjustment - 1
BY CounterAssumption DEF BringExecCounterToDate

LEMMA InitIInv == ASSUME Init PROVE IInv
<1>1. PICK t \in Thread \ System, p \in Managed :
        /\ created = {t} /\ ready = <<t>> /\ parked = {}
        /\ counter = [u \in Thread |-> 0] /\ global = 0
        /\ priority = [u \in Thread |-> p]
        /\ current = Nobody /\ left = 0
  BY DEF Init
<1>2. p \in Priority /\ Maximum \in Nat /\ MaxSwitches \in Nat
  BY CounterAssumption
<1>3. TypeOK
  <2>1. ready \in Seq(Thread)
    BY <1>1
  <2>2. QED
    BY <1>1, <1>2, <2>1 DEF TypeOK
<1>4. Distinct(ready)
  BY <1>1 DEF Distinct
<1>5. global + Maximum + MaxSwitches * Most >= left * Most
  BY <1>1, <1>2, Products
<1>6. NotLeftBehind
  <2>1. Alive \subseteq Thread
    BY <1>3 DEF Alive, TypeOK, Nodes
  <2>2. QED
    BY <1>1, <2>1 DEF NotLeftBehind
<1>7. \A u \in Thread : counter[u] <= 0
  BY <1>1
<1>8. QED
  BY <1>1, <1>3, <1>4, <1>5, <1>6, <1>7 DEF IInv, Most

(* When a call of ScheduleThreads begins, the global counter is above       *)
(* -Maximum, and all its runs are left.                                    *)
LEMMA FullRound ==
  ASSUME TypeOK, Distinct(ready), left' = MaxSwitches, current = Nobody,
         UNCHANGED <<created, priority, ready, parked, current>>,
         counter' \in [Thread -> Int], \A t \in Thread : counter'[t] <= 0,
         global' \in Int, global' <= 0, global' >= -Maximum,
         \A t \in Alive : counter'[t] >= global' - 1
  PROVE  IInv'
<1>1. TypeOK'
  BY CounterAssumption DEF TypeOK
<1>2. Distinct(ready)' /\ NotLeftBehind'
  BY DEF Distinct, NotLeftBehind, Alive, Nodes
<1>3. global' + Maximum + MaxSwitches * Most >= left' * Most
  <2> DEFINE d == MaxSwitches * Most
             g == global'
  <2>1. left' * Most = d
    OBVIOUS
  <2>2. d \in Nat /\ Maximum \in Nat /\ g \in Int /\ g >= -Maximum
    BY Products, CounterAssumption
  <2> HIDE DEF d, g
  <2>3. g + Maximum + d >= d
    BY <2>2
  <2>4. QED
    BY <2>1, <2>3 DEF d, g
<1>4. QED
  BY <1>1, <1>2, <1>3 DEF IInv, Most

LEMMA ScheduleThreadsKeeps == ASSUME IInv, ScheduleThreads PROVE IInv'
<1>1. /\ TypeOK /\ Distinct(ready) /\ NotLeftBehind /\ current = Nobody
      /\ \A t \in Thread : counter[t] \in Int /\ counter[t] <= 0
      /\ global \in Int /\ global <= 0 /\ left = 0
      /\ global + Maximum + MaxSwitches * Most >= left * Most
  BY DEF IInv, TypeOK, Most, ScheduleThreads
<1>2. /\ left' = MaxSwitches /\ MaxSwitches \in Nat
      /\ UNCHANGED <<created, priority, ready, parked, current>>
  BY CounterAssumption DEF ScheduleThreads
<1>3. Alive \subseteq Thread /\ Alive' = Alive
  BY <1>1, <1>2 DEF Alive, TypeOK, Nodes
<1>4. \A t \in Alive : counter[t] >= global - 1
  BY <1>1 DEF NotLeftBehind
<1>5. CASE global < -Maximum
  <2>1. /\ global' = global + Adjustment
        /\ counter' = AdjustExecutionCounter(Alive)
    BY <1>5 DEF ScheduleThreads, Alive
  <2>2. \A t \in Alive :
          /\ counter'[t] \in Int /\ counter'[t] <= 0
          /\ counter'[t] >= global' - 1
    <3>1. TAKE t \in Alive
    <3>2. counter'[t] = BringExecCounterToDate(counter[t] + Adjustment,
                                               global + Adjustment)
      BY <1>3, <2>1 DEF AdjustExecutionCounter
    <3>3. /\ counter[t] \in Int /\ counter[t] <= 0
          /\ counter[t] >= global - 1 /\ global \in Int
      BY <1>1, <1>3, <1>4
    <3> DEFINE k == BringExecCounterToDate(counter[t] + Adjustment,
                                           global + Adjustment)
    <3>4. k \in Int /\ k <= 0 /\ k >= global + Adjustment - 1
      BY <1>5, <3>3, Rebased
    <3>5. counter'[t] = k
      BY <3>2 DEF k
    <3>6. global' = global + Adjustment
      BY <2>1
    <3> HIDE DEF k
    <3>7. k >= global' - 1
      BY <3>3, <3>4, <3>6, CounterAssumption
    <3>8. QED
      BY <3>4, <3>5, <3>7
  <2>3. \A t \in Thread \ Alive : counter'[t] = counter[t]
    BY <2>1 DEF AdjustExecutionCounter
  <2>4. \A t \in Thread : counter'[t] \in Int /\ counter'[t] <= 0
    BY <1>1, <2>2, <2>3
  <2>5. counter' \in [Thread -> Int]
    BY <2>1, <2>4 DEF AdjustExecutionCounter
  <2>6. global' \in Int /\ global' <= 0 /\ global' >= -Maximum
    <3>1. Adjustment \in Nat /\ Maximum \in Nat /\ Adjustment <= Maximum
      BY CounterAssumption
    <3>2. MaxSwitches * Most \in Nat /\ MaxSwitches * Most <= Adjustment
      BY CounterAssumption, Products DEF Most
    <3>3. global + Maximum + MaxSwitches * Most >= 0
      BY <1>1, <3>1, <3>2, Products
    <3>4. QED
      BY <1>1, <1>5, <2>1, <3>1, <3>2, <3>3
  <2>7. QED
    BY <1>1, <1>2, <1>3, <2>2, <2>4, <2>5, <2>6, FullRound
<1>6. CASE ~(global < -Maximum)
  <2>1. UNCHANGED counters
    BY <1>6 DEF ScheduleThreads
  <2>2. counter' = counter /\ global' = global
    BY <2>1 DEF counters
  <2>3. counter \in [Thread -> Int] /\ global >= -Maximum
    BY <1>1, <1>6, CounterAssumption DEF TypeOK
  <2>4. QED
    BY <1>1, <1>2, <1>3, <1>4, <2>2, <2>3, FullRound
<1>7. QED
  BY <1>5, <1>6

LEMMA DispatchKeeps == ASSUME IInv, Dispatch PROVE IInv'
<1> DEFINE t == Head(ready)
           b == BringExecCounterToDate(counter[t], global)
           c == b - Debit[priority[t]]
<1>1. /\ TypeOK /\ Distinct(ready) /\ NotLeftBehind
      /\ \A u \in Thread : counter[u] \in Int /\ counter[u] <= 0
      /\ global \in Int /\ global <= 0 /\ left \in Nat /\ left > 0
      /\ left \in 0 .. MaxSwitches
      /\ global + Maximum + MaxSwitches * Most >= left * Most
  BY CounterAssumption DEF IInv, TypeOK, Most, Dispatch
<1>2. /\ counter' = [counter EXCEPT ![t] = c]
      /\ global' = IF c < global THEN c ELSE global
      /\ current' = t /\ left' = left - 1
      /\ UNCHANGED <<created, priority, ready, parked>>
      /\ ready # <<>>
  BY DEF Dispatch
<1>3. t \in Thread /\ t \in Nodes(ready)
  BY <1>1, <1>2, TailNodes DEF TypeOK
<1> HIDE DEF t
<1>4. Alive \subseteq Thread /\ Alive' = Alive /\ t \in Alive
  BY <1>1, <1>2, <1>3 DEF Alive, TypeOK, Nodes
<1>5. \A u \in Alive : counter[u] >= global - 1
  BY <1>1 DEF NotLeftBehind
<1>6. b \in Int /\ b <= 0 /\ b >= global - 1
  BY <1>1, <1>3, <1>4, <1>5, BroughtToDate
<1>7. Debit[priority[t]] \in 1 .. MaxDebit /\ MaxDebit \in Nat
  BY <1>1, <1>3, CounterAssumption DEF TypeOK
<1> HIDE DEF b
<1>8. c \in Int /\ c <= 0 /\ c >= global - Most
  BY <1>1, <1>6, <1>7 DEF Most
<1> HIDE DEF c
<1>9. /\ global' \in Int /\ global' <= 0 /\ global' <= c /\ global' <= global
      /\ global' >= global - Most
  BY <1>1, <1>2, <1>8, Products
<1>10. \A u \in Thread : counter'[u] = IF u = t THEN c ELSE counter[u]
  BY <1>1, <1>2 DEF TypeOK
<1>11. counter' \in [Thread -> Int] /\ \A u \in Thread : counter'[u] <= 0
  BY <1>1, <1>2, <1>8, <1>10 DEF TypeOK
<1>12. NotLeftBehind'
  BY <1>1, <1>4, <1>5, <1>8, <1>9, <1>10 DEF NotLeftBehind
<1>13. global' + Maximum + MaxSwitches * Most >= left' * Most
  <2>1. left * Most \in Nat /\ (left - 1) * Most = left * Most - Most
    BY <1>1, Products
  <2> DEFINE a == left * Most
             d == MaxSwitches * Most
  <2>2. left' * Most = a - Most
    BY <1>2, <2>1
  <2>3. /\ Maximum \in Nat /\ d \in Nat /\ Most \in Nat /\ a \in Nat
        /\ global \in Int
    BY <1>1, <2>1, Products, CounterAssumption
  <2> DEFINE g == global'
  <2>4. global + Maximum + d >= a /\ g \in Int /\ g >= global - Most
    BY <1>1, <1>9
  <2> HIDE DEF a, d, g
  <2>5. g + Maximum + d >= a - Most
    BY <2>3, <2>4
  <2>6. QED
    BY <2>2, <2>5 DEF d, g
<1>14. left' \in 0 .. MaxSwitches
  BY <1>1, <1>2, CounterAssumption
<1>15. TypeOK'
  BY <1>1, <1>2, <1>3, <1>9, <1>11, <1>14 DEF TypeOK
<1>16. Distinct(ready)' /\ current' \in Nodes(ready)'
  BY <1>1, <1>2, <1>3 DEF Distinct, Nodes
<1>17. QED
  BY <1>9, <1>11, <1>12, <1>13, <1>15, <1>16 DEF IInv, Most

LEMMA NoReadyThreadsKeeps == ASSUME IInv, NoReadyThreads PROVE IInv'
<1>1. /\ TypeOK /\ Distinct(ready) /\ NotLeftBehind
      /\ current \in Nodes(ready) \cup {Nobody}
      /\ \A t \in Thread : counter[t] <= 0
      /\ global \in Int /\ global <= 0 /\ left \in Nat
      /\ global + Maximum + MaxSwitches * Most >= left * Most
  BY CounterAssumption DEF IInv, TypeOK, Most
<1>2. /\ left' = 0
      /\ UNCHANGED <<created, counter, priority, global, ready, parked, current>>
  BY DEF NoReadyThreads
<1>3. global' + Maximum + MaxSwitches * Most >= left' * Most
  <2>1. left * Most \in Nat /\ left' * Most = 0
    BY <1>1, <1>2, Products
  <2>2. Maximum \in Nat /\ MaxSwitches * Most \in Nat
    BY Products, CounterAssumption
  <2>3. QED
    BY <1>1, <1>2, <2>1, <2>2
<1>4. TypeOK'
  BY <1>1, <1>2, CounterAssumption DEF TypeOK
<1>5. QED
  BY <1>1, <1>2, <1>3, <1>4 DEF IInv, NotLeftBehind, Alive, Most, Distinct, Nodes

(* The other actions move threads between the lists, and change the counter *)
(* of one thread at most, to at most 0.                                     *)
LEMMA MovesKeep ==
  ASSUME IInv,
         created' \subseteq Thread, priority' \in [Thread -> Priority],
         ready' \in Seq(Thread), Distinct(ready'), parked' \subseteq Thread,
         current' \in Nodes(ready') \cup {Nobody}, UNCHANGED <<global, left>>,
         counter' \in [Thread -> Int],
         \A t \in Thread : counter'[t] <= 0,
         \A t \in Alive' : counter'[t] >= global - 1
  PROVE  IInv'
<1>1. current' \in Thread \cup {Nobody}
  BY DEF Nodes
<1>2. QED
  BY <1>1 DEF IInv, TypeOK, NotLeftBehind

(* What IInv says of one thread, and who InsertThreadRoundRobin moves.      *)
LEMMA Facts ==
  ASSUME IInv
  PROVE  /\ created \subseteq Thread /\ ready \in Seq(Thread) /\ Distinct(ready)
         /\ parked \subseteq Thread /\ Nodes(ready) \subseteq Thread
         /\ counter \in [Thread -> Int] /\ priority \in [Thread -> Priority]
         /\ current \in Nodes(ready) \cup {Nobody}
         /\ global \in Int /\ global <= 0
         /\ \A t \in Thread : counter[t] <= 0
         /\ \A t \in Alive : counter[t] >= global - 1
BY DEF IInv, TypeOK, NotLeftBehind, Nodes
LEMMA InsertKeeps ==
  ASSUME IInv, NEW t \in Thread, ready' = Inserted(t, counter', priority'),
         created' \subseteq Thread, priority' \in [Thread -> Priority],
         parked' \subseteq parked, current' \in {current, Nobody},
         UNCHANGED <<global, left>>, counter' \in [Thread -> Int],
         \A u \in Thread : counter'[u] <= 0,
         \A u \in Alive \cup {t} : counter'[u] >= global - 1
  PROVE  IInv'
<1>1. /\ ready' \in Seq(Thread) /\ Distinct(ready')
      /\ Nodes(ready') = Nodes(ready) \cup {t}
  BY Facts, InsertedNodes
<1>2. Alive' \subseteq Alive \cup {t}
  BY <1>1 DEF Alive
<1>3. parked' \subseteq Thread /\ current' \in Nodes(ready') \cup {Nobody}
  BY <1>1, Facts
<1>4. \A u \in Alive' : counter'[u] >= global - 1
  BY <1>2
<1>5. QED
  BY <1>1, <1>3, <1>4, MovesKeep

LEMMA UnlinkKeeps ==
  ASSUME IInv, NEW t \in Nodes(ready), ready' = Unlink(ready, t),
         UNCHANGED <<created, priority, global, left>>,
         parked' \subseteq parked \cup {t}, current' \in {current, Nobody} \ {t},
         counter' \in [Thread -> Int],
         \A u \in Thread : counter'[u] <= 0,
         \A u \in Alive : counter'[u] >= global - 1
  PROVE  IInv'
<1>1. t \in Thread
  BY Facts
<1>2. /\ ready' \in Seq(Thread) /\ Distinct(ready')
      /\ Nodes(ready') = Nodes(ready) \ {t}
  BY <1>1, Facts, UnlinkNodes
<1>3. Alive' \subseteq Alive
  BY <1>2 DEF Alive
<1>4. parked' \subseteq Thread /\ current' \in Nodes(ready') \cup {Nobody}
  BY <1>1, <1>2, Facts
<1>5. \A u \in Alive' : counter'[u] >= global - 1
  BY <1>3
<1>6. created' \subseteq Thread /\ priority' \in [Thread -> Priority]
  BY Facts
<1>7. QED
  BY <1>2, <1>4, <1>5, <1>6, MovesKeep

(* The counters are as they were, where a thread is only moved. *)
LEMMA CountersStay ==
  ASSUME IInv, counter' = counter
  PROVE  /\ counter' \in [Thread -> Int]
         /\ \A u \in Thread : counter'[u] <= 0
         /\ \A u \in Alive : counter'[u] >= global - 1
BY Facts

LEMMA OneChanged ==
  ASSUME NEW f \in [Thread -> Int], NEW t, NEW n \in Int
  PROVE  [f EXCEPT ![t] = n] \in [Thread -> Int]
OBVIOUS

LEMMA PreemptKeeps == ASSUME IInv, Preempt PROVE IInv'
<1>1. current \in Nodes(ready) /\ current \in Thread /\ current \in Alive
  BY Facts DEF Preempt, Alive
<1>2. /\ ready' = Inserted(current, counter', priority')
      /\ created' \subseteq Thread /\ priority' \in [Thread -> Priority]
      /\ parked' \subseteq parked /\ current' \in {current, Nobody}
      /\ UNCHANGED <<global, left>> /\ counter' = counter
  BY Facts DEF Preempt
<1>3. \A u \in Alive \cup {current} : counter'[u] >= global - 1
  BY <1>1, <1>2, CountersStay
<1>4. QED
  BY <1>1, <1>2, <1>3, CountersStay, InsertKeeps

LEMMA YieldKeeps == ASSUME IInv, Yield PROVE IInv'
<1>1. current \in Nodes(ready) /\ current \in Thread /\ current \in Alive
  BY Facts DEF Yield, Alive
<1>2. /\ ready' = Inserted(current, counter', priority')
      /\ created' \subseteq Thread /\ priority' \in [Thread -> Priority]
      /\ parked' \subseteq parked /\ current' \in {current, Nobody}
      /\ UNCHANGED <<global, left>>
      /\ counter' = [counter EXCEPT ![current] = global - 1]
  BY Facts DEF Yield, UpdateToLowestExecutionCounter
<1>3. /\ counter \in [Thread -> Int] /\ global \in Int /\ global <= 0
      /\ \A u \in Thread : counter[u] <= 0
      /\ \A u \in Alive : counter[u] >= global - 1
      /\ Alive \subseteq Thread
  BY Facts DEF Alive
<1>4. \A u \in Thread :
        counter'[u] = IF u = current THEN global - 1 ELSE counter[u]
  BY <1>2, <1>3
<1>5. counter' \in [Thread -> Int]
  BY <1>2, <1>3, OneChanged
<1>6. \A u \in Thread : counter'[u] <= 0
  BY <1>3, <1>4
<1>7. \A u \in Alive \cup {current} : counter'[u] >= global - 1
  BY <1>1, <1>3, <1>4
<1>8. QED
  BY <1>1, <1>2, <1>5, <1>6, <1>7, InsertKeeps

LEMMA BlockKeeps == ASSUME IInv, Block PROVE IInv'
<1>1. current \in Nodes(ready)
  BY Facts DEF Block
<1>2. /\ ready' = Unlink(ready, current) /\ counter' = counter
      /\ UNCHANGED <<created, priority, global, left>>
      /\ parked' \subseteq parked \cup {current}
      /\ current' \in {current, Nobody} \ {current}
  BY DEF Block
<1>3. QED
  BY <1>1, <1>2, CountersStay, UnlinkKeeps

LEMMA ExitKeeps == ASSUME IInv, Exit PROVE IInv'
<1>1. current \in Nodes(ready) /\ current # Nobody
  BY Facts DEF Exit
<1>2. /\ ready' = Unlink(ready, current)
      /\ counter' = [counter EXCEPT ![current] = 0]
      /\ UNCHANGED <<created, priority, global, left>>
      /\ parked' \subseteq parked \cup {current}
      /\ current' \in {current, Nobody} \ {current}
  BY <1>1 DEF Exit
<1>3. /\ counter \in [Thread -> Int] /\ global \in Int /\ global <= 0
      /\ \A u \in Thread : counter[u] <= 0
      /\ \A u \in Alive : counter[u] >= global - 1
      /\ Alive \subseteq Thread
  BY Facts DEF Alive
<1>4. \A u \in Thread : counter'[u] = IF u = current THEN 0 ELSE counter[u]
  BY <1>2, <1>3
<1>5. counter' \in [Thread -> Int]
  BY <1>2, <1>3, OneChanged
<1>6. \A u \in Thread : counter'[u] <= 0
  BY <1>3, <1>4
<1>7. \A u \in Alive : counter'[u] >= global - 1
  BY <1>3, <1>4
<1>8. QED
  BY <1>1, <1>2, <1>5, <1>6, <1>7, UnlinkKeeps

LEMMA NewThreadKeeps ==
  ASSUME IInv, NEW t \in Thread, NEW p \in Priority, NewThread(t, p)
  PROVE  IInv'
<1>1. /\ ready' = Inserted(t, counter', priority')
      /\ created' = created \cup {t}
      /\ counter' = [counter EXCEPT ![t] = 0]
      /\ priority' = [priority EXCEPT ![t] = p]
      /\ UNCHANGED <<global, parked, current, left>>
  BY DEF NewThread
<1>2. /\ counter \in [Thread -> Int] /\ priority \in [Thread -> Priority]
      /\ created \subseteq Thread
      /\ global \in Int /\ global <= 0
      /\ \A u \in Thread : counter[u] <= 0
      /\ \A u \in Alive : counter[u] >= global - 1
      /\ Alive \subseteq Thread
  BY Facts DEF Alive
<1>3. \A u \in Thread : counter'[u] = IF u = t THEN 0 ELSE counter[u]
  BY <1>1, <1>2
<1>4. counter' \in [Thread -> Int]
  BY <1>1, <1>2, OneChanged
<1>5. \A u \in Thread : counter'[u] <= 0
  BY <1>2, <1>3
<1>6. \A u \in Alive \cup {t} : counter'[u] >= global - 1
  BY <1>2, <1>3
<1>7. /\ created' \subseteq Thread /\ priority' \in [Thread -> Priority]
      /\ parked' \subseteq parked /\ current' \in {current, Nobody}
      /\ UNCHANGED <<global, left>>
  BY <1>1, <1>2
<1>8. QED
  BY <1>1, <1>4, <1>5, <1>6, <1>7, InsertKeeps

LEMMA WakeKeeps == ASSUME IInv, NEW t \in Thread, Wake(t) PROVE IInv'
<1>1. t \in Alive
  BY DEF Wake, Alive
<1>2. /\ ready' = Inserted(t, counter', priority')
      /\ created' \subseteq Thread /\ priority' \in [Thread -> Priority]
      /\ parked' \subseteq parked /\ current' \in {current, Nobody}
      /\ UNCHANGED <<global, left>> /\ counter' = counter
  BY Facts DEF Wake
<1>3. \A u \in Alive \cup {t} : counter'[u] >= global - 1
  BY <1>1, <1>2, CountersStay
<1>4. QED
  BY <1>2, <1>3, CountersStay, InsertKeeps

LEMMA SuspendKeeps == ASSUME IInv, NEW t \in Thread, Suspend(t) PROVE IInv'
<1>1. /\ t \in Nodes(ready) /\ ready' = Unlink(ready, t) /\ counter' = counter
      /\ UNCHANGED <<created, priority, global, left>>
      /\ parked' \subseteq parked \cup {t}
      /\ current' \in {current, Nobody} \ {t}
  BY DEF Suspend
<1>2. QED
  BY <1>1, CountersStay, UnlinkKeeps

LEMMA SetPriorityKeeps ==
  ASSUME IInv, NEW t \in Thread, NEW p \in Priority, SetPriority(t, p)
  PROVE  IInv'
<1>1. /\ current \in Nodes(ready) /\ current \in Thread /\ current \in Alive
      /\ priority \in [Thread -> Priority] /\ created \subseteq Thread
  BY Facts DEF SetPriority, Alive
<1>2. /\ priority' = [priority EXCEPT ![t] = p] /\ counter' = counter
      /\ UNCHANGED <<created, global, parked, left>>
  BY DEF SetPriority
<1>3. priority' \in [Thread -> Priority]
  BY <1>1, <1>2
<1>4. CASE p > priority'[current]
  <2>1. /\ ready' = Inserted(current, counter', priority')
        /\ current' = Nobody
    BY <1>2, <1>4 DEF SetPriority
  <2>2. \A u \in Alive \cup {current} : counter'[u] >= global - 1
    BY <1>1, <1>2, CountersStay
  <2>3. QED
    BY <1>1, <1>2, <1>3, <2>1, <2>2, CountersStay, InsertKeeps
<1>5. CASE ~(p > priority'[current])
  <2>1. ready' = ready /\ current' = current /\ parked' = parked
    BY <1>2, <1>5 DEF SetPriority
  <2>2. Alive' = Alive
    BY <2>1 DEF Alive
  <2>3. \A u \in Alive' : counter'[u] >= global - 1
    BY <1>2, <2>2, CountersStay
  <2>4. /\ ready' \in Seq(Thread) /\ Distinct(ready') /\ parked' \subseteq Thread
        /\ current' \in Nodes(ready') \cup {Nobody}
    BY <2>1, Facts
  <2>5. QED
    BY <1>1, <1>2, <1>3, <2>3, <2>4, CountersStay, MovesKeep
<1>6. QED
  BY <1>4, <1>5

LEMMA StutterKeeps == ASSUME IInv, UNCHANGED vars PROVE IInv'
<1>1. UNCHANGED <<created, counter, priority, global, ready, parked, current, left>>
  BY DEF vars
<1>2. Alive' = Alive /\ ready' = ready /\ current' = current /\ parked' = parked
  BY <1>1 DEF Alive
<1>3. \A u \in Alive' : counter'[u] >= global - 1
  BY <1>1, <1>2, CountersStay
<1>4. /\ ready' \in Seq(Thread) /\ Distinct(ready') /\ parked' \subseteq Thread
      /\ current' \in Nodes(ready') \cup {Nobody}
  BY <1>2, Facts
<1>5. created' \subseteq Thread /\ priority' \in [Thread -> Priority]
  BY <1>1, Facts
<1>6. QED
  BY <1>1, <1>3, <1>4, <1>5, CountersStay, MovesKeep
-----------------------------------------------------------------------------
(* The counters of all threads, that of the engine and the runs left of    *)
(* this call of ScheduleThreads stay in the relation IInv states, whatever *)
(* the engine, the threads and the interrupts do.                          *)
THEOREM Invariance == Spec => []IInv
<1>1. Init => IInv
  BY InitIInv
<1>2. IInv /\ [Next]_vars => IInv'
  <2> SUFFICES ASSUME IInv, [Next]_vars PROVE IInv'
    OBVIOUS
  <2>1. CASE Engine
    BY <2>1, ScheduleThreadsKeeps, DispatchKeeps, NoReadyThreadsKeeps DEF Engine
  <2>2. CASE EndOfTurn
    BY <2>2, PreemptKeeps, YieldKeeps, BlockKeeps, ExitKeeps DEF EndOfTurn
  <2>3. CASE \E t \in Thread : Wake(t) \/ Suspend(t)
    BY <2>3, WakeKeeps, SuspendKeeps
  <2>4. CASE \E t \in Thread, p \in Priority : NewThread(t, p) \/ SetPriority(t, p)
    BY <2>4, NewThreadKeeps, SetPriorityKeeps
  <2>5. CASE UNCHANGED vars
    BY <2>5, StutterKeeps
  <2>6. QED
    BY <2>1, <2>2, <2>3, <2>4, <2>5 DEF Next
<1>3. QED
  BY <1>1, <1>2, PTL DEF Spec

(* The lists, the counters and the number of switches left keep their types. *)
THEOREM TypeCorrect == Spec => []TypeOK
<1>1. IInv => TypeOK
  BY DEF IInv
<1>2. QED
  BY <1>1, Invariance, PTL

(* No thread that exists is below the global counter by more than the one   *)
(* that Sleep(0) subtracts, so no rebase has forgotten it.                  *)
THEOREM NobodyBehind == Spec => []NotLeftBehind
<1>1. IInv => NotLeftBehind
  BY DEF IInv
<1>2. QED
  BY <1>1, Invariance, PTL

(* No addition or subtraction of execution counters leaves the range of an  *)
(* int in BringExecCounterToDate, AdjustExecutionCounter, GetExecutionCounter *)
(* or UpdateToLowestExecutionCounter, for ever.                             *)
THEOREM CountersInRange == Spec => []NoOverflow
<1>1. IInv => NoOverflow
  <2> SUFFICES ASSUME IInv PROVE NoOverflow
    OBVIOUS
  <2> DEFINE d == MaxSwitches * Most
  <2>1. /\ Maximum \in Nat /\ Adjustment \in Nat /\ Credit \in Nat
        /\ Limit \in Nat /\ d \in Nat
        /\ Adjustment + Credit <= Maximum /\ Maximum + d + 1 < Limit
    BY CounterAssumption, Products DEF Most
  <2>2. global \in Int /\ global <= 0 /\ global + Maximum + d >= 0
    <3>1. left * Most \in Nat /\ global + Maximum + d >= left * Most
      BY Products, CounterAssumption DEF IInv, TypeOK, Most
    <3> HIDE DEF d
    <3>2. QED
      BY <2>1, <3>1, Facts
  <2> HIDE DEF d
  <2>3. ASSUME NEW t \in Alive
        PROVE  {counter[t], GetExecutionCounter(t), counter[t] - global,
                counter[t] + Adjustment, global - 1} \subseteq Int32
    <3>1. t \in Thread
      BY Facts DEF Alive
    <3>2. /\ counter[t] \in Int /\ counter[t] <= 0 /\ counter[t] >= global - 1
      BY <3>1, Facts
    <3>3. priority[t] \in Nat /\ priority[t] < Limit
      BY <3>1, Facts, CounterAssumption
    <3>4. counter[t] \in Int32 /\ global - 1 \in Int32
      BY <2>1, <2>2, <3>2 DEF Int32
    <3>5. counter[t] - global \in Int32 /\ counter[t] + Adjustment \in Int32
      BY <2>1, <2>2, <3>2 DEF Int32
    <3>6. GetExecutionCounter(t) \in Int32
      BY <2>1, <2>2, <3>2, <3>3 DEF Int32, GetExecutionCounter
    <3>7. QED
      BY <3>4, <3>5, <3>6
  <2>4. QED
    BY <2>3 DEF NoOverflow
<1>2. QED
  BY <1>1, Invariance, PTL
=============================================================================
