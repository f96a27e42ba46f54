----------------------- MODULE HalCompletionsProofs -----------------------
(***************************************************************************)
(* For any set of completions, any clock bound and any SysTick range: the  *)
(* list of completions stays ordered, the timer is always armed for its    *)
(* first node, and a completion is executed early in one case only.        *)
(***************************************************************************)
EXTENDS HalCompletions, DblLinkedListProofs

USE CompletionAssumption

(* The stack of activations after a call, and after a return. *)
LEMMA CallStack ==
  ASSUME NEW s \in Seq(Activation), NEW a \in Activation, ExecutesOnce(s),
         a.fn = "Execute" => \A b \in Nodes(s) : b.fn = "Execute" => b.c # a.c
  PROVE  /\ Call(a, s) \in Seq(Activation)
         /\ Nodes(Call(a, s)) = Nodes(s) \cup {a}
         /\ Call(a, s) # <<>> /\ Head(Call(a, s)) = a
         /\ ExecutesOnce(Call(a, s))
<1> DEFINE r == Call(a, s)
<1>1. /\ r \in Seq(Activation) /\ Len(r) = Len(s) + 1 /\ r[1] = a
      /\ r # <<>> /\ Head(r) = a
      /\ \A i \in 2 .. Len(s) + 1 : r[i] = s[i - 1]
  BY FrontProperties DEF Call
<1>2. Nodes(r) = Nodes(s) \cup {a}
  BY FrontNodes DEF Call
<1> HIDE DEF r
<1>3. Len(s) \in Nat
  OBVIOUS
<1>4. ASSUME NEW i \in 1 .. Len(s) + 1, NEW j \in 1 .. Len(s) + 1,
             r[i].fn = "Execute", r[j].fn = "Execute", r[i].c = r[j].c
      PROVE  i = j
  <2>1. \A k \in 1 .. Len(s) + 1 :
          k # 1 => k - 1 \in 1 .. Len(s) /\ r[k] = s[k - 1] /\ r[k] \in Nodes(s)
    <3> SUFFICES ASSUME NEW k \in 1 .. Len(s) + 1, k # 1
                 PROVE  k - 1 \in 1 .. Len(s) /\ r[k] = s[k - 1] /\ r[k] \in Nodes(s)
      OBVIOUS
    <3>1. k \in 2 .. Len(s) + 1 /\ k - 1 \in 1 .. Len(s)
      BY <1>3
    <3>2. QED
      BY <1>1, <3>1 DEF Nodes
  <2>2. CASE i = 1 \/ j = 1
    BY <1>1, <1>4, <2>1, <2>2
  <2>3. CASE i # 1 /\ j # 1
    <3>1. /\ i - 1 \in 1 .. Len(s) /\ r[i] = s[i - 1]
          /\ j - 1 \in 1 .. Len(s) /\ r[j] = s[j - 1]
      BY <2>1, <2>3
    <3>2. i - 1 = j - 1
      BY <1>4, <3>1 DEF ExecutesOnce
    <3>3. QED
      BY <3>2
  <2>4. QED
    BY <2>2, <2>3
<1>5. ExecutesOnce(r)
  BY <1>1, <1>4 DEF ExecutesOnce
<1>6. QED
  BY <1>1, <1>2, <1>5 DEF r

LEMMA ReturnStack ==
  ASSUME NEW s \in Seq(Activation), s # <<>>, ExecutesOnce(s)
  PROVE  /\ Tail(s) \in Seq(Activation) /\ Head(s) \in Activation
         /\ Head(s) \in Nodes(s)
         /\ Nodes(Tail(s)) \subseteq Nodes(s)
         /\ ExecutesOnce(Tail(s))
         /\ Head(s).fn = "Execute" =>
              \A b \in Nodes(Tail(s)) : b.fn = "Execute" => b.c # Head(s).c
<1>1. /\ Head(s) \in Activation /\ Tail(s) \in Seq(Activation)
      /\ Len(Tail(s)) = Len(s) - 1
      /\ \A i \in 1 .. Len(s) - 1 : Tail(s)[i] = s[i + 1]
  BY HeadTailProperties
<1>2. Len(s) \in Nat \ {0} /\ Head(s) = s[1]
  OBVIOUS
<1>3. \A i \in 1 .. Len(s) - 1 : i + 1 \in 1 .. Len(s) /\ i + 1 # 1
  BY <1>2
<1>4. ExecutesOnce(Tail(s))
  <2> SUFFICES ASSUME NEW i \in 1 .. Len(s) - 1, NEW j \in 1 .. Len(s) - 1,
                      Tail(s)[i].fn = "Execute", Tail(s)[j].fn = "Execute",
                      Tail(s)[i].c = Tail(s)[j].c
               PROVE  i = j
    BY <1>1 DEF ExecutesOnce
  <2>1. i + 1 = j + 1
    BY <1>1, <1>3 DEF ExecutesOnce
  <2>2. QED
    BY <2>1
<1>5. \A b \in Nodes(Tail(s)) : \E i \in 1 .. Len(s) : i # 1 /\ b = s[i]
  BY <1>1, <1>3 DEF Nodes
<1>6. Nodes(Tail(s)) \subseteq Nodes(s)
  BY <1>5 DEF Nodes
<1>7. Head(s) \in Nodes(s)
  BY <1>2 DEF Nodes
<1>8. Head(s).fn = "Execute" =>
        \A b \in Nodes(Tail(s)) : b.fn = "Execute" => b.c # Head(s).c
  <2>1. 1 \in 1 .. Len(s)
    BY <1>2
  <2>2. QED
    BY <1>2, <1>5, <2>1 DEF ExecutesOnce
<1>9. QED
  BY <1>1, <1>4, <1>6, <1>7, <1>8

(* SetCompareValue leaves SysTick counting to the value it was given, or    *)
(* the handler running.                                                     *)
LEMMA SetCompareArms ==
  ASSUME now \in Nat, fire \in Nat, fire <= now + MaxCount,
         NEW v \in Nat, NEW below \in Seq(Activation), ExecutesOnce(below),
         SetCompare(v, below)
  PROVE  /\ compare' = v
         /\ fire' \in Nat /\ fire' <= now + MaxCount
         /\ calls' \in Seq(Activation) /\ ExecutesOnce(calls')
         /\ Nodes(calls') \subseteq Nodes(below) \cup {Handler}
         /\ \/ now < fire' /\ fire' <= v
            \/ calls' # <<>> /\ Head(calls').fn = "SysTickInterruptHandler"
<1>1. compare' = v
  BY DEF SetCompare
<1>2. CASE v <= now
  <2>1. fire' = fire /\ calls' = Call(Handler, below)
    BY <1>2 DEF SetCompare
  <2>2. Handler \in Activation /\ Handler.fn = "SysTickInterruptHandler"
    BY DEF Handler, Activation
  <2>3. /\ calls' \in Seq(Activation) /\ ExecutesOnce(calls')
        /\ Nodes(calls') = Nodes(below) \cup {Handler}
        /\ calls' # <<>> /\ Head(calls') = Handler
    BY <2>1, <2>2, CallStack
  <2>4. QED
    BY <1>1, <2>1, <2>2, <2>3
<1>3. CASE ~(v <= now)
  <2>1. /\ fire' = now + (IF v - now > MaxCount THEN MaxCount ELSE v - now)
        /\ calls' = below
    BY <1>3 DEF SetCompare
  <2>2. fire' \in Nat /\ fire' <= now + MaxCount /\ now < fire' /\ fire' <= v
    BY <1>3, <2>1
  <2>3. QED
    BY <1>1, <2>1, <2>2
<1>4. QED
  BY <1>2, <1>3

(* The search of EnqueueTicks finds a place. *)
LEMMA PlaceForProperties ==
  ASSUME due \in [Completion -> Nat], NEW s \in Seq(Completion), NEW d \in Nat
  PROVE  /\ PlaceFor(s, d) \in 1 .. Len(s) + 1
         /\ \A i \in 1 .. PlaceFor(s, d) - 1 : due[s[i]] <= d
         /\ PlaceFor(s, d) <= Len(s) => d < due[s[PlaceFor(s, d)]]
<1> DEFINE L == {i \in 1 .. Len(s) : d < due[s[i]]}
<1>1. Len(s) \in Nat /\ \A i \in 1 .. Len(s) : due[s[i]] \in Nat
  BY ElementOfSeq
<1>2. \E p \in 1 .. Len(s) + 1 :
        /\ \A i \in 1 .. p - 1 : due[s[i]] <= d
        /\ p <= Len(s) => d < due[s[p]]
  <2>1. CASE L = {}
    <3>1. \A i \in 1 .. Len(s) : due[s[i]] <= d
      BY <1>1, <2>1
    <3> DEFINE q == Len(s) + 1
    <3>2. q \in 1 .. Len(s) + 1 /\ ~(q <= Len(s)) /\ 1 .. q - 1 = 1 .. Len(s)
      BY <1>1
    <3> HIDE DEF q
    <3>3. QED
      BY <3>1, <3>2
  <2>2. CASE L # {}
    <3> HIDE DEF L
    <3>1. PICK m \in L : \A i \in L : m <= i
      <4>1. L \in SUBSET Nat
        BY DEF L
      <4>2. QED
        BY <2>2, <4>1, LeastPosition
    <3> USE DEF L
    <3>2. m \in 1 .. Len(s) + 1 /\ d < due[s[m]]
      BY <1>1
    <3>3. \A i \in 1 .. m - 1 : due[s[i]] <= d
      BY <1>1, <3>1
    <3>4. QED
      BY <3>2, <3>3
  <2>3. QED
    BY <2>1, <2>2
<1>3. QED
  BY <1>2 DEF PlaceFor
(* EnqueueTicks puts the completion in its place and arms the timer.        *)
LEMMA EnqueueTicksKeeps ==
  ASSUME TypeOK, QueueOrdered, queue # <<>> => compare <= due[Head(queue)],
         NEW c \in Completion, ~Linked(c), NEW d \in Nat,
         NEW below \in Seq(Activation), ExecutesOnce(below),
         EnqueueTicks(c, d, below)
  PROVE  /\ queue' \in Seq(Completion) /\ due' \in [Completion -> Nat]
         /\ compare' \in Nat /\ fire' \in Nat /\ fire' <= now + MaxCount
         /\ calls' \in Seq(Activation) /\ ExecutesOnce(calls')
         /\ Nodes(calls') \subseteq Nodes(below) \cup {Handler}
         /\ OrderedBy(queue', due') /\ Distinct(queue')
         /\ Nodes(queue') = Nodes(queue) \cup {c} /\ cont' = cont
         /\ compare' <= due'[Head(queue')]
         /\ \/ now < fire' /\ fire' <= compare'
            \/ calls' # <<>> /\ Head(calls').fn = "SysTickInterruptHandler"
            \/ calls' = below /\ queue # <<>> /\ UNCHANGED timer
<1> DEFINE p == PlaceFor(queue, d)
<1>1. /\ queue \in Seq(Completion) /\ due \in [Completion -> Nat]
      /\ now \in Nat /\ fire \in Nat /\ fire <= now + MaxCount /\ compare \in Nat
      /\ OrderedBy(queue, due) /\ Distinct(queue) /\ c \notin Nodes(queue)
  BY DEF TypeOK, QueueOrdered, Linked
<1>2. /\ p \in 1 .. Len(queue) + 1
      /\ \A i \in 1 .. p - 1 : due[queue[i]] <= d
      /\ p <= Len(queue) => d < due[queue[p]]
  BY <1>1, PlaceForProperties
<1>3. /\ due' = [due EXCEPT ![c] = d] /\ queue' = InsertBefore(queue, p, c)
      /\ cont' = cont
      /\ IF p = 1 THEN SetCompare(d, below) ELSE calls' = below /\ UNCHANGED timer
  BY DEF EnqueueTicks
<1> HIDE DEF p
<1>4. due' \in [Completion -> Nat] /\ due'[c] = d
  BY <1>1, <1>3
<1>5. \A i \in 1 .. Len(queue) : queue[i] \in Completion /\ due'[queue[i]] = due[queue[i]]
  <2>1. \A i \in 1 .. Len(queue) : queue[i] \in Completion /\ queue[i] # c
    BY <1>1, ElementOfSeq DEF Nodes
  <2>2. QED
    BY <1>1, <1>3, <2>1
<1>6. /\ queue' \in Seq(Completion) /\ Len(queue') = Len(queue) + 1
      /\ \A i \in 1 .. Len(queue) + 1 :
           queue'[i] = IF i < p THEN queue[i] ELSE IF i = p THEN c ELSE queue[i - 1]
  <2> DEFINE r == InsertBefore(queue, p, c)
  <2>1. /\ r \in Seq(Completion) /\ Len(r) = Len(queue) + 1
        /\ \A i \in 1 .. Len(queue) + 1 :
             r[i] = IF i < p THEN queue[i] ELSE IF i = p THEN c ELSE queue[i - 1]
    BY <1>1, <1>2, InsertProperties
  <2>2. QED
    BY <1>3, <2>1
<1>7. Nodes(queue') = Nodes(queue) \cup {c} /\ Distinct(queue')
  <2>1. /\ Nodes(InsertBefore(queue, p, c)) = Nodes(queue) \cup {c}
        /\ Distinct(InsertBefore(queue, p, c))
    BY <1>1, <1>2, InsertNodes
  <2>2. QED
    BY <1>3, <2>1
<1>8. Len(queue) \in Nat /\ p \in Int
  BY <1>1, <1>2
<1>9. OrderedBy(queue', due')
  <2>1. OrderedBy(queue, due')
    BY <1>1, <1>5 DEF OrderedBy
  <2>2. \A i \in 1 .. p - 1 : due'[queue[i]] <= due'[c]
    BY <1>2, <1>4, <1>5, <1>8
  <2>3. p <= Len(queue) => due'[c] < due'[queue[p]]
    BY <1>2, <1>4, <1>5, <1>8
  <2>4. QED
    BY <1>1, <1>2, <1>3, <1>4, <2>1, <2>2, <2>3, InsertOrdered
<1>10. queue' # <<>> /\ Head(queue') = queue'[1]
  BY <1>6, <1>8
<1>11. CASE p = 1
  <2>1. queue'[1] = c
    BY <1>6, <1>8, <1>11
  <2>2. SetCompare(d, below)
    BY <1>3, <1>11
  <2>3. /\ compare' = d
        /\ fire' \in Nat /\ fire' <= now + MaxCount
        /\ calls' \in Seq(Activation) /\ ExecutesOnce(calls')
        /\ Nodes(calls') \subseteq Nodes(below) \cup {Handler}
        /\ \/ now < fire' /\ fire' <= d
           \/ calls' # <<>> /\ Head(calls').fn = "SysTickInterruptHandler"
    BY <1>1, <2>2, SetCompareArms
  <2>4. QED
    BY <1>3, <1>4, <1>6, <1>7, <1>9, <1>10, <2>1, <2>3
<1>12. CASE p # 1
  <2>1. queue # <<>> /\ 1 \in 1 .. Len(queue) /\ Head(queue) = queue[1]
    BY <1>1, <1>2, <1>8, <1>12
  <2>2. queue'[1] = queue[1]
    BY <1>6, <1>8, <1>12, <1>2
  <2>3. calls' = below /\ fire' = fire /\ compare' = compare
    BY <1>3, <1>12 DEF timer
  <2>4. compare' <= due'[Head(queue')]
    BY <1>5, <1>10, <2>1, <2>2, <2>3
  <2>5. QED
    BY <1>1, <1>3, <1>4, <1>6, <1>7, <1>9, <2>1, <2>3, <2>4 DEF timer
<1>13. QED
  BY <1>11, <1>12
-----------------------------------------------------------------------------
(* Every action keeps the inductive invariant.                              *)

LEMMA TickKeeps == ASSUME IInv, Tick PROVE IInv'
<1> USE DEF IInv, timer, lists
<1>1. /\ now \in 0 .. MaxNow /\ now < MaxNow /\ now' = now + 1
      /\ pending' = (pending \/ now + 1 >= fire)
      /\ UNCHANGED <<timer, lists, calls, events, pc, wait>>
      /\ fire \in Nat /\ compare \in Nat
  BY DEF Tick, TypeOK
<1>2. TypeOK'
  BY <1>1 DEF TypeOK
<1>3. QueueOrdered'
  BY <1>1 DEF QueueOrdered, OrderedBy, Linked
<1>4. NilMeansEmpty'
  BY <1>1 DEF NilMeansEmpty
<1>5. ASSUME queue # <<>>
      PROVE  pending' \/ (now' < fire /\ fire <= compare) \/ Running("SysTickInterruptHandler")
  <2>1. \/ pending
        \/ now < fire /\ fire <= compare
        \/ Running("SysTickInterruptHandler")
    BY <1>5 DEF Armed
  <2>2. now + 1 >= fire => pending'
    BY <1>1
  <2>3. pending => pending'
    BY <1>1
  <2>4. now < fire => now' < fire \/ now + 1 >= fire
    BY <1>1
  <2>5. QED
    BY <2>1, <2>2, <2>3, <2>4
<1>6. Armed'
  BY <1>1, <1>5 DEF Armed, Running, Top
<1>7. QED
  BY <1>1, <1>2, <1>3, <1>4, <1>6

LEMMA SysTickKeeps == ASSUME IInv, SysTick PROVE IInv'
<1> USE DEF IInv, timer, lists
<1>1. /\ pending' = FALSE /\ calls = <<>> /\ calls' = <<Handler>> /\ pc # "awake"
      /\ UNCHANGED <<now, timer, lists, events, pc, wait>>
  BY DEF SysTick, Unmasked
<1>2. /\ <<Handler>> \in Seq(Activation) /\ Nodes(<<Handler>>) = {Handler}
      /\ <<Handler>> # <<>> /\ Head(<<Handler>>) = Handler
      /\ Handler.fn = "SysTickInterruptHandler"
  BY DEF Handler, Activation, Nodes
<1>3. TypeOK'
  BY <1>1, <1>2 DEF TypeOK
<1>4. QueueOrdered'
  BY <1>1, <1>2 DEF QueueOrdered, OrderedBy, Linked
<1>5. ExecutesOnce(calls)'
  BY <1>1, <1>2 DEF ExecutesOnce
<1>6. NilMeansEmpty'
  BY <1>1 DEF NilMeansEmpty
<1>7. Armed'
  BY <1>1, <1>2 DEF Armed, Running, Top
<1>8. QED
  BY <1>3, <1>4, <1>5, <1>6, <1>7

LEMMA HandlerRearmKeeps == ASSUME IInv, HandlerRearm PROVE IInv'
<1> USE DEF IInv, timer, lists
<1>1. /\ calls # <<>> /\ calls \in Seq(Activation) /\ ExecutesOnce(calls)
      /\ SetCompare(compare, Tail(calls))
      /\ UNCHANGED <<clock, lists, events, pc, wait>>
      /\ now \in Nat /\ fire \in Nat /\ fire <= now + MaxCount /\ compare \in Nat
  BY DEF HandlerRearm, Running, TypeOK
<1>2. /\ Tail(calls) \in Seq(Activation) /\ ExecutesOnce(Tail(calls))
      /\ Nodes(Tail(calls)) \subseteq Nodes(calls)
  BY <1>1, ReturnStack
<1>3. /\ compare' = compare
      /\ fire' \in Nat /\ fire' <= now + MaxCount
      /\ calls' \in Seq(Activation) /\ ExecutesOnce(calls')
      /\ Nodes(calls') \subseteq Nodes(calls) \cup {Handler}
      /\ \/ now < fire' /\ fire' <= compare
         \/ calls' # <<>> /\ Head(calls').fn = "SysTickInterruptHandler"
  BY <1>1, <1>2, SetCompareArms
<1>4. Handler.fn = "SysTickInterruptHandler"
  BY DEF Handler
<1>5. TypeOK'
  BY <1>1, <1>3 DEF TypeOK, clock
<1>6. QueueOrdered'
  BY <1>1, <1>3, <1>4 DEF QueueOrdered, OrderedBy, Linked
<1>7. NilMeansEmpty'
  BY <1>1, <1>3, <1>4 DEF NilMeansEmpty
<1>8. Armed'
  BY <1>1, <1>3 DEF Armed, Running, Top, clock
<1>9. QED
  BY <1>3, <1>5, <1>6, <1>7, <1>8

LEMMA DequeueAndExecKeeps == ASSUME IInv, DequeueAndExec PROVE IInv'
<1> USE DEF IInv, timer, lists
<1> DEFINE below == Tail(calls)
           tail == Call(HandlerTail, below)
<1>1. /\ calls # <<>> /\ calls \in Seq(Activation) /\ ExecutesOnce(calls)
      /\ UNCHANGED <<clock, pc, wait, due, cont>>
      /\ now \in Nat /\ fire \in Nat /\ fire <= now + MaxCount /\ compare \in Nat
      /\ queue \in Seq(Completion) /\ due \in [Completion -> Nat]
      /\ Distinct(queue) /\ OrderedBy(queue, due)
  BY DEF DequeueAndExec, Running, TypeOK, QueueOrdered
<1>2. /\ below \in Seq(Activation) /\ ExecutesOnce(below)
      /\ Nodes(below) \subseteq Nodes(calls)
  BY <1>1, ReturnStack
<1>3. HandlerTail \in Activation /\ HandlerTail.fn = "HandlerTail"
  BY DEF HandlerTail, Activation
<1>4. /\ tail \in Seq(Activation) /\ ExecutesOnce(tail)
      /\ Nodes(tail) = Nodes(below) \cup {HandlerTail}
  BY <1>2, <1>3, CallStack
<1> HIDE DEF tail
<1>5. CASE queue = <<>>
  <2>1. calls' = tail /\ UNCHANGED <<timer, lists, events>>
    BY <1>5 DEF DequeueAndExec, tail
  <2>2. TypeOK'
    BY <1>1, <1>4, <2>1 DEF TypeOK, clock
  <2>3. QueueOrdered'
    BY <1>2, <1>3, <1>4, <2>1 DEF QueueOrdered, OrderedBy, Linked
  <2>4. NilMeansEmpty'
    BY <1>1, <1>2, <1>3, <1>4, <2>1 DEF NilMeansEmpty
  <2>5. Armed'
    BY <1>5, <2>1 DEF Armed
  <2>6. QED
    BY <1>4, <2>1, <2>2, <2>3, <2>4, <2>5
<1>6. CASE queue # <<>>
  <2> DEFINE first == Head(queue)
             rest == Tail(queue)
             stack == Call(Execute(first), tail)
  <2>1. /\ events' = events \cup {"SYSTEM_TIMER"} /\ queue' = rest
        /\ SetCompare(NextTicks(rest), stack)
    BY <1>6 DEF DequeueAndExec, tail
  <2>2. /\ first \in Nodes(queue) /\ first \in Completion
        /\ rest \in Seq(Completion) /\ Nodes(rest) = Nodes(queue) \ {first}
        /\ Distinct(rest)
    BY <1>1, <1>6, TailNodes
  <2>3. OrderedBy(rest, due)
    BY <1>1, <1>6, TailOrdered
  <2>4. first \notin Nodes(cont)
    BY <2>2 DEF QueueOrdered
  <2>5. \A b \in Nodes(tail) : b.fn = "Execute" => b.c # first
    BY <1>2, <1>3, <1>4, <2>2 DEF QueueOrdered, Linked
  <2>6. /\ Execute(first) \in Activation /\ Execute(first).fn = "Execute"
        /\ Execute(first).c = first
    BY <2>2 DEF Execute, Activation
  <2>7. /\ stack \in Seq(Activation) /\ ExecutesOnce(stack)
        /\ Nodes(stack) = Nodes(tail) \cup {Execute(first)}
    BY <1>4, <2>5, <2>6, CallStack
  <2>8. NextTicks(rest) \in Nat
    <3>1. CASE rest = <<>>
      BY <3>1 DEF NextTicks
    <3>2. CASE rest # <<>>
      BY <1>1, <2>2, <3>2, HeadTailProperties DEF NextTicks
    <3>3. QED
      BY <3>1, <3>2
  <2> HIDE DEF first, rest, stack
  <2>9. /\ compare' = NextTicks(rest)
        /\ fire' \in Nat /\ fire' <= now + MaxCount
        /\ calls' \in Seq(Activation) /\ ExecutesOnce(calls')
        /\ Nodes(calls') \subseteq Nodes(stack) \cup {Handler}
        /\ \/ now < fire' /\ fire' <= NextTicks(rest)
           \/ calls' # <<>> /\ Head(calls').fn = "SysTickInterruptHandler"
    BY <1>1, <2>1, <2>7, <2>8, SetCompareArms
  <2>10. TypeOK'
    BY <1>1, <2>1, <2>2, <2>8, <2>9 DEF TypeOK, clock, Event
  <2>11. QueueOrdered'
    <3>1. \A a \in Nodes(calls') : a.fn = "Execute" => ~Linked(a.c)'
      <4> SUFFICES ASSUME NEW a \in Nodes(calls'), a.fn = "Execute"
                   PROVE  a.c \notin Nodes(rest) /\ a.c \notin Nodes(cont)
        BY <1>1, <2>1 DEF Linked
      <4>1. a \in Nodes(tail) \/ a = Execute(first)
        BY <2>7, <2>9 DEF Handler
      <4>2. CASE a = Execute(first)
        BY <2>2, <2>4, <2>6, <4>2
      <4>3. CASE a \in Nodes(tail)
        BY <1>2, <1>3, <1>4, <2>2, <4>3 DEF QueueOrdered, Linked
      <4>4. QED
        BY <4>1, <4>2, <4>3
    <3>2. /\ OrderedBy(queue, due)' /\ Distinct(queue)' /\ Distinct(cont)'
          /\ (Nodes(queue) \cap Nodes(cont) = {})'
      BY <1>1, <2>1, <2>2, <2>3 DEF QueueOrdered
    <3>3. QED
      BY <3>1, <3>2 DEF QueueOrdered
  <2>12. NilMeansEmpty'
    BY <1>1, <1>6 DEF NilMeansEmpty
  <2>13. Armed'
    <3>1. rest # <<>> => NextTicks(rest) = due[Head(rest)]
      BY DEF NextTicks
    <3>2. rest # <<>> => due[Head(rest)] \in Nat
      BY <2>8, <3>1
    <3>3. QED
      BY <1>1, <2>1, <2>8, <2>9, <3>1, <3>2 DEF Armed, Running, Top, clock
  <2>14. QED
    BY <2>9, <2>10, <2>11, <2>12, <2>13
<1>7. QED
  BY <1>5, <1>6

LEMMA ExecuteCompletionKeeps == ASSUME IInv, ExecuteCompletion PROVE IInv'
<1> USE DEF IInv, timer, lists
<1> DEFINE c == Top.c
           below == Tail(calls)
<1>1. /\ calls # <<>> /\ calls \in Seq(Activation) /\ ExecutesOnce(calls)
      /\ Head(calls).fn = "Execute" /\ c = Head(calls).c
      /\ UNCHANGED <<clock, events, pc, wait>>
      /\ now \in Nat /\ fire \in Nat /\ fire <= now + MaxCount /\ compare \in Nat
      /\ queue \in Seq(Completion) /\ due \in [Completion -> Nat]
      /\ cont \in Seq(Completion) /\ Distinct(cont)
  BY DEF ExecuteCompletion, Running, Top, TypeOK, QueueOrdered
<1>2. /\ below \in Seq(Activation) /\ ExecutesOnce(below)
      /\ Nodes(below) \subseteq Nodes(calls)
      /\ Head(calls) \in Activation /\ Head(calls) \in Nodes(calls)
      /\ \A b \in Nodes(below) : b.fn = "Execute" => b.c # c
  BY <1>1, ReturnStack
<1>3. c \in Completion
  BY <1>1, <1>2 DEF Activation
<1>4. ~Linked(c)
  BY <1>1, <1>2 DEF QueueOrdered
<1>5. ~(pc = "awake" /\ wait.restore = "nil")
  BY <1>1, <1>2 DEF NilMeansEmpty
<1>6. NilMeansEmpty'
  BY <1>1, <1>5 DEF NilMeansEmpty
<1>7. queue # <<>> => pending \/ (now < fire /\ fire <= compare)
  BY <1>1 DEF Armed, Running, Top
<1> HIDE DEF c, below
<1>8. CASE calls' = below /\ UNCHANGED <<timer, lists>>
  <2>1. TypeOK'
    BY <1>1, <1>2, <1>8 DEF TypeOK, clock
  <2>2. QueueOrdered'
    BY <1>2, <1>8 DEF QueueOrdered, OrderedBy, Linked
  <2>3. Armed'
    BY <1>1, <1>7, <1>8 DEF Armed, clock
  <2>4. QED
    BY <1>2, <1>6, <1>8, <2>1, <2>2, <2>3
<1>9. CASE \E p \in Period : now + p <= MaxNow /\ EnqueueTicks(c, now + p, below)
  <2>1. PICK p \in Period : EnqueueTicks(c, now + p, below)
    BY <1>9
  <2>2. now + p \in Nat
    BY <1>1
  <2>3. queue # <<>> => compare <= due[Head(queue)]
    BY DEF Armed
  <2>4. /\ queue' \in Seq(Completion) /\ due' \in [Completion -> Nat]
        /\ compare' \in Nat /\ fire' \in Nat /\ fire' <= now + MaxCount
        /\ calls' \in Seq(Activation) /\ ExecutesOnce(calls')
        /\ Nodes(calls') \subseteq Nodes(below) \cup {Handler}
        /\ OrderedBy(queue', due') /\ Distinct(queue')
        /\ Nodes(queue') = Nodes(queue) \cup {c} /\ cont' = cont
        /\ compare' <= due'[Head(queue')]
        /\ \/ now < fire' /\ fire' <= compare'
           \/ calls' # <<>> /\ Head(calls').fn = "SysTickInterruptHandler"
           \/ calls' = below /\ queue # <<>> /\ UNCHANGED timer
    BY <1>2, <1>3, <1>4, <2>1, <2>2, <2>3, EnqueueTicksKeeps
  <2>5. TypeOK'
    BY <1>1, <2>4 DEF TypeOK, clock
  <2>6. QueueOrdered'
    <3>1. \A a \in Nodes(calls') : a.fn = "Execute" => ~Linked(a.c)'
      BY <1>2, <2>4 DEF QueueOrdered, Linked, Handler
    <3>2. Nodes(queue') \cap Nodes(cont') = {}
      BY <1>4, <2>4 DEF QueueOrdered, Linked
    <3>3. QED
      BY <1>1, <2>4, <3>1, <3>2 DEF QueueOrdered
  <2>7. Armed'
    BY <1>1, <1>7, <2>4 DEF Armed, Running, Top, clock
  <2>8. QED
    BY <1>6, <2>4, <2>5, <2>6, <2>7
<1>10. CASE cont' = LinkAtBack(cont, c) /\ calls' = below /\ UNCHANGED <<timer, queue, due>>
  <2>1. c \notin Nodes(cont) /\ c \notin Nodes(queue)
    BY <1>4 DEF Linked
  <2>3. cont' \in Seq(Completion) /\ Nodes(cont') = Nodes(cont) \cup {c}
        /\ Distinct(cont')
    BY <1>1, <1>3, <1>10, <2>1, BackNodes
  <2>7. TypeOK'
    BY <1>1, <1>2, <1>10, <2>3 DEF TypeOK, clock
  <2>8. QueueOrdered'
    <3>1. \A a \in Nodes(calls') : a.fn = "Execute" => ~Linked(a.c)'
      BY <1>2, <1>10, <2>3 DEF QueueOrdered, Linked
    <3>2. QED
      BY <1>10, <2>1, <2>3, <3>1 DEF QueueOrdered, OrderedBy
  <2>9. Armed'
    BY <1>1, <1>7, <1>10 DEF Armed, clock
  <2>10. QED
    BY <1>2, <1>6, <1>10, <2>7, <2>8, <2>9
<1>11. QED
  BY <1>8, <1>9, <1>10 DEF ExecuteCompletion, c, below

LEMMA EndHandlerKeeps == ASSUME IInv, EndHandler PROVE IInv'
<1> USE DEF IInv, timer, lists
<1> DEFINE below == Tail(calls)
<1>1. /\ calls # <<>> /\ calls \in Seq(Activation) /\ ExecutesOnce(calls)
      /\ Head(calls).fn = "HandlerTail"
      /\ UNCHANGED <<clock, lists, events, pc, wait>>
      /\ now \in Nat /\ fire \in Nat /\ fire <= now + MaxCount /\ compare \in Nat
  BY DEF EndHandler, Running, Top, TypeOK
<1>2. /\ below \in Seq(Activation) /\ ExecutesOnce(below)
      /\ Nodes(below) \subseteq Nodes(calls)
  BY <1>1, ReturnStack
<1>3. CASE queue = <<>>
  <2>1. SetCompare(Idle, below)
    BY <1>3 DEF EndHandler
  <2>2. Idle \in Nat
    OBVIOUS
  <2>3. /\ compare' = Idle
        /\ fire' \in Nat /\ fire' <= now + MaxCount
        /\ calls' \in Seq(Activation) /\ ExecutesOnce(calls')
        /\ Nodes(calls') \subseteq Nodes(below) \cup {Handler}
    BY <1>1, <1>2, <2>1, <2>2, SetCompareArms
  <2>4. TypeOK'
    BY <1>1, <2>2, <2>3 DEF TypeOK, clock
  <2>5. QueueOrdered'
    BY <1>1, <1>2, <2>3 DEF QueueOrdered, OrderedBy, Linked, Handler
  <2>6. NilMeansEmpty'
    BY <1>1, <1>2, <2>3 DEF NilMeansEmpty, Handler
  <2>7. Armed'
    BY <1>1, <1>3 DEF Armed
  <2>8. QED
    BY <2>3, <2>4, <2>5, <2>6, <2>7
<1>4. CASE queue # <<>>
  <2>1. calls' = below /\ UNCHANGED timer
    BY <1>4 DEF EndHandler
  <2>2. TypeOK'
    BY <1>1, <1>2, <2>1 DEF TypeOK, clock
  <2>3. QueueOrdered'
    BY <1>1, <1>2, <2>1 DEF QueueOrdered, OrderedBy, Linked
  <2>4. NilMeansEmpty'
    BY <1>1, <1>4 DEF NilMeansEmpty
  <2>5. Armed'
    BY <1>1, <2>1 DEF Armed, Running, Top, clock
  <2>6. QED
    BY <1>2, <2>1, <2>2, <2>3, <2>4, <2>5
<1>5. QED
  BY <1>3, <1>4

LEMMA EnqueueKeeps ==
  ASSUME IInv, NEW c \in Completion, Enqueue(c) PROVE IInv'
<1> USE DEF IInv, timer, lists
<1>1. /\ calls = <<>> /\ ~Linked(c) /\ pc # "awake"
      /\ UNCHANGED <<clock, events, pc, wait>>
  BY DEF Enqueue, Unmasked
<1>2. PICK d \in 1 .. MaxNow : EnqueueTicks(c, d, <<>>)
  BY DEF Enqueue
<1>3. /\ <<>> \in Seq(Activation) /\ ExecutesOnce(<<>>) /\ Nodes(<<>>) = {} /\ d \in Nat
  BY DEF ExecutesOnce, Nodes
<1>4. queue # <<>> => compare <= due[Head(queue)]
  BY DEF Armed
<1>5. /\ queue' \in Seq(Completion) /\ due' \in [Completion -> Nat]
      /\ compare' \in Nat /\ fire' \in Nat /\ fire' <= now + MaxCount
      /\ calls' \in Seq(Activation) /\ ExecutesOnce(calls')
      /\ Nodes(calls') \subseteq {Handler}
      /\ OrderedBy(queue', due') /\ Distinct(queue')
      /\ Nodes(queue') = Nodes(queue) \cup {c} /\ cont' = cont
      /\ compare' <= due'[Head(queue')]
      /\ \/ now < fire' /\ fire' <= compare'
         \/ calls' # <<>> /\ Head(calls').fn = "SysTickInterruptHandler"
         \/ calls' = <<>> /\ queue # <<>> /\ UNCHANGED timer
  BY <1>1, <1>2, <1>3, <1>4, EnqueueTicksKeeps
<1>6. TypeOK'
  BY <1>1, <1>5 DEF TypeOK, clock
<1>7. QueueOrdered'
  BY <1>1, <1>5 DEF QueueOrdered, Linked, Handler
<1>8. NilMeansEmpty'
  BY <1>1 DEF NilMeansEmpty
<1>9. Armed'
  BY <1>1, <1>5 DEF Armed, Running, Top, clock
<1>10. QED
  BY <1>5, <1>6, <1>7, <1>8, <1>9

LEMMA AbortKeeps ==
  ASSUME IInv, NEW c \in Completion, Abort(c) PROVE IInv'
<1> USE DEF IInv, timer, lists
<1>1. /\ calls = <<>> /\ Linked(c) /\ pc # "awake"
      /\ queue' = Unlink(queue, c) /\ cont' = Unlink(cont, c)
      /\ UNCHANGED <<clock, due, events, pc, wait>>
      /\ now \in Nat /\ fire \in Nat /\ fire <= now + MaxCount /\ compare \in Nat
      /\ queue \in Seq(Completion) /\ due \in [Completion -> Nat]
      /\ cont \in Seq(Completion) /\ Distinct(cont)
      /\ Distinct(queue) /\ OrderedBy(queue, due)
  BY DEF Abort, Unmasked, TypeOK, QueueOrdered
<1>2. /\ queue' \in Seq(Completion) /\ Nodes(queue') = Nodes(queue) \ {c}
      /\ Distinct(queue')
  BY <1>1, UnlinkNodes
<1>3. /\ cont' \in Seq(Completion) /\ Nodes(cont') = Nodes(cont) \ {c}
      /\ Distinct(cont')
  BY <1>1, UnlinkNodes
<1>4. OrderedBy(queue', due')
  BY <1>1, UnlinkOrdered
<1>5. /\ <<>> \in Seq(Activation) /\ ExecutesOnce(<<>>) /\ Nodes(<<>>) = {}
  BY DEF ExecutesOnce, Nodes
<1>6. NilMeansEmpty'
  BY <1>1 DEF NilMeansEmpty
<1>7. CASE queue # <<>> /\ Head(queue) = c
  <2> DEFINE rest == Tail(queue)
  <2>1. SetCompare(NextTicks(rest), <<>>)
    BY <1>7 DEF Abort
  <2>2. Unlink(queue, c) = rest
    BY <1>1, <1>7, UnlinkFirst
  <2>3. rest \in Seq(Completion)
    BY <1>1, <1>7, HeadTailProperties
  <2>4. NextTicks(rest) \in Nat
    <3>1. CASE rest = <<>>
      BY <3>1 DEF NextTicks
    <3>2. CASE rest # <<>>
      BY <1>1, <2>3, <3>2, HeadTailProperties DEF NextTicks
    <3>3. QED
      BY <3>1, <3>2
  <2> HIDE DEF rest
  <2>5. /\ compare' = NextTicks(rest)
        /\ fire' \in Nat /\ fire' <= now + MaxCount
        /\ calls' \in Seq(Activation) /\ ExecutesOnce(calls')
        /\ Nodes(calls') \subseteq {Handler}
        /\ \/ now < fire' /\ fire' <= NextTicks(rest)
           \/ calls' # <<>> /\ Head(calls').fn = "SysTickInterruptHandler"
    BY <1>1, <1>5, <2>1, <2>4, SetCompareArms
  <2>6. TypeOK'
    BY <1>1, <1>2, <1>3, <2>4, <2>5 DEF TypeOK, clock
  <2>7. QueueOrdered'
    BY <1>2, <1>3, <1>4, <2>5 DEF QueueOrdered, Handler
  <2>8. Armed'
    <3>1. rest # <<>> => NextTicks(rest) = due[Head(rest)]
      BY DEF NextTicks
    <3>2. QED
      BY <1>1, <2>2, <2>4, <2>5, <3>1 DEF Armed, Running, Top, clock
  <2>9. QED
    BY <1>6, <2>5, <2>6, <2>7, <2>8
<1>8. CASE ~(queue # <<>> /\ Head(queue) = c)
  <2>1. UNCHANGED <<timer, calls>>
    BY <1>8 DEF Abort
  <2>2. queue' # <<>> => queue # <<>> /\ Head(queue') = Head(queue)
    <3>1. CASE queue = <<>>
      BY <1>1, <3>1 DEF Unlink, Nodes
    <3>2. CASE queue # <<>>
      BY <1>1, <1>8, <3>2, UnlinkHead
    <3>3. QED
      BY <3>1, <3>2
  <2>3. TypeOK'
    BY <1>1, <1>2, <1>3, <2>1 DEF TypeOK, clock
  <2>4. QueueOrdered'
    BY <1>1, <1>2, <1>3, <1>4, <1>5, <2>1 DEF QueueOrdered
  <2>5. Armed'
    BY <1>1, <2>1, <2>2 DEF Armed, Running, Top, clock
  <2>6. QED
    BY <1>6, <2>1, <2>3, <2>4, <2>5
<1>9. QED
  BY <1>7, <1>8

LEMMA UninitializeKeeps == ASSUME IInv, Uninitialize PROVE IInv'
<1> USE DEF IInv, timer, lists
<1>1. /\ calls = <<>> /\ pc # "awake" /\ queue' = <<>> /\ cont' = <<>>
      /\ UNCHANGED <<clock, timer, due, calls, events, pc, wait>>
  BY DEF Uninitialize, CanCall, ThreadRuns
<1>2. TypeOK'
  BY <1>1 DEF TypeOK, clock
<1>3. QueueOrdered'
  BY <1>1 DEF QueueOrdered, OrderedBy, Distinct, Nodes
<1>4. QED
  BY <1>1, <1>2, <1>3 DEF NilMeansEmpty, Armed

LEMMA RunContinuationKeeps == ASSUME IInv, RunContinuation PROVE IInv'
<1> USE DEF IInv, timer, lists
<1>1. /\ pc' = "open" /\ wait' = [wait EXCEPT !.run = (cont # <<>>)]
      /\ UNCHANGED <<clock, timer, queue, due, calls, events>>
      /\ cont \in Seq(Completion) /\ Distinct(cont)
      /\ cont' = IF cont = <<>> THEN cont ELSE Tail(cont)
  BY DEF RunContinuation, TypeOK, QueueOrdered
<1>2. /\ cont' \in Seq(Completion) /\ Distinct(cont')
      /\ Nodes(cont') \subseteq Nodes(cont)
  <2>1. CASE cont = <<>>
    BY <1>1, <2>1
  <2>2. CASE cont # <<>>
    BY <1>1, <2>2, TailNodes
  <2>3. QED
    BY <2>1, <2>2
<1>3. TypeOK'
  BY <1>1, <1>2 DEF TypeOK, clock, Place
<1>4. QueueOrdered'
  BY <1>1, <1>2 DEF QueueOrdered, OrderedBy, Linked
<1>5. NilMeansEmpty'
  BY <1>1 DEF NilMeansEmpty
<1>6. Armed'
  BY <1>1 DEF Armed, Running, Top, clock
<1>7. QED
  BY <1>1, <1>3, <1>4, <1>5, <1>6

LEMMA WaitForInterruptsKeeps == ASSUME IInv, WaitForInterrupts PROVE IInv'
<1> USE DEF IInv, timer, lists
<1> DEFINE restore == IF queue = <<>> THEN "nil"
                      ELSE IF due[Head(queue)] > wait.expire THEN "reset" ELSE "none"
<1>1. /\ calls = <<>> /\ pc' = "awake"
      /\ wait' = [wait EXCEPT !.run = TRUE, !.restore = restore]
      /\ UNCHANGED <<clock, lists, events>>
      /\ IF restore = "none" THEN UNCHANGED <<timer, calls>>
         ELSE SetCompare(wait.expire, <<>>)
      /\ now \in Nat /\ fire \in Nat /\ fire <= now + MaxCount /\ compare \in Nat
      /\ queue \in Seq(Completion) /\ due \in [Completion -> Nat]
      /\ wait.expire \in Nat
  BY DEF WaitForInterrupts, ThreadRuns, TypeOK
<1>2. /\ <<>> \in Seq(Activation) /\ ExecutesOnce(<<>>) /\ Nodes(<<>>) = {}
  BY DEF ExecutesOnce, Nodes
<1>3. wait'.restore = restore /\ (restore = "nil" => queue = <<>>)
  BY <1>1 DEF TypeOK
<1>4. ASSUME compare' \in Nat, fire' \in Nat, fire' <= now + MaxCount,
             calls' \in Seq(Activation), ExecutesOnce(calls'),
             Nodes(calls') \subseteq {Handler},
             queue # <<>> => compare' <= due[Head(queue)],
             \/ queue = <<>>
             \/ pending
             \/ now < fire' /\ fire' <= compare'
             \/ calls' # <<>> /\ Head(calls').fn = "SysTickInterruptHandler"
      PROVE  IInv'
  <2>1. restore \in Restore
    BY DEF Restore
  <2>2. wait' \in [expire : Nat, mask : SUBSET Event, internal : BOOLEAN,
                   run : BOOLEAN, restore : Restore]
    BY <1>1, <2>1 DEF TypeOK
  <2>3. TypeOK'
    BY <1>1, <1>4, <2>2 DEF TypeOK, clock, Place
  <2>4. QueueOrdered'
    BY <1>1, <1>4 DEF QueueOrdered, OrderedBy, Linked, Handler
  <2>5. NilMeansEmpty'
    BY <1>1, <1>3, <1>4 DEF NilMeansEmpty, Handler
  <2>6. Armed'
    BY <1>1, <1>4 DEF Armed, Running, Top, clock
  <2>7. QED
    BY <1>4, <2>3, <2>4, <2>5, <2>6
<1>5. CASE restore = "none"
  BY <1>1, <1>2, <1>4, <1>5 DEF Armed, Running, Top, TypeOK
<1>6. CASE restore # "none"
  <2>1. SetCompare(wait.expire, <<>>)
    BY <1>1, <1>6
  <2>2. /\ compare' = wait.expire
        /\ fire' \in Nat /\ fire' <= now + MaxCount
        /\ calls' \in Seq(Activation) /\ ExecutesOnce(calls')
        /\ Nodes(calls') \subseteq {Handler}
        /\ \/ now < fire' /\ fire' <= wait.expire
           \/ calls' # <<>> /\ Head(calls').fn = "SysTickInterruptHandler"
    BY <1>1, <1>2, <2>1, SetCompareArms
  <2>3. queue # <<>> => wait.expire <= due[Head(queue)]
    <3> SUFFICES ASSUME queue # <<>> PROVE wait.expire <= due[Head(queue)]
      OBVIOUS
    <3>1. due[Head(queue)] \in Nat
      BY <1>1, HeadTailProperties
    <3>2. due[Head(queue)] > wait.expire
      BY <1>6
    <3>3. QED
      BY <1>1, <3>1, <3>2
  <2>4. QED
    BY <1>1, <1>4, <2>2, <2>3
<1>7. QED
  BY <1>5, <1>6

LEMMA RestoreCompareKeeps == ASSUME IInv, RestoreCompare PROVE IInv'
<1> USE DEF IInv, timer, lists
<1>1. /\ calls = <<>> /\ pc = "awake" /\ pc' = "open"
      /\ wait' = [wait EXCEPT !.restore = "none"]
      /\ UNCHANGED <<clock, lists, events>>
      /\ now \in Nat /\ fire \in Nat /\ fire <= now + MaxCount /\ compare \in Nat
      /\ queue \in Seq(Completion) /\ due \in [Completion -> Nat]
  BY DEF RestoreCompare, ThreadRuns, TypeOK
<1>2. /\ <<>> \in Seq(Activation) /\ ExecutesOnce(<<>>) /\ Nodes(<<>>) = {}
  BY DEF ExecutesOnce, Nodes
<1>3. ASSUME compare' \in Nat, fire' \in Nat, fire' <= now + MaxCount,
             calls' \in Seq(Activation), ExecutesOnce(calls'),
             Nodes(calls') \subseteq {Handler},
             queue # <<>> => compare' <= due[Head(queue)],
             \/ queue = <<>>
             \/ pending
             \/ now < fire' /\ fire' <= compare'
             \/ calls' # <<>> /\ Head(calls').fn = "SysTickInterruptHandler"
      PROVE  IInv'
  <2>1. wait' \in [expire : Nat, mask : SUBSET Event, internal : BOOLEAN,
                   run : BOOLEAN, restore : Restore]
    BY <1>1 DEF TypeOK, Restore
  <2>2. TypeOK'
    BY <1>1, <1>3, <2>1 DEF TypeOK, clock, Place
  <2>3. QueueOrdered'
    BY <1>1, <1>3 DEF QueueOrdered, OrderedBy, Linked, Handler
  <2>4. NilMeansEmpty'
    BY <1>1 DEF NilMeansEmpty
  <2>5. Armed'
    BY <1>1, <1>3 DEF Armed, Running, Top, clock
  <2>6. QED
    BY <1>3, <2>2, <2>3, <2>4, <2>5
<1>4. CASE UNCHANGED <<timer, calls>>
  BY <1>1, <1>2, <1>3, <1>4 DEF Armed, Running, Top
<1>5. ASSUME NEW v \in Nat, SetCompare(v, <<>>),
             queue # <<>> => v <= due[Head(queue)]
      PROVE  IInv'
  <2>1. /\ compare' = v
        /\ fire' \in Nat /\ fire' <= now + MaxCount
        /\ calls' \in Seq(Activation) /\ ExecutesOnce(calls')
        /\ Nodes(calls') \subseteq {Handler}
        /\ \/ now < fire' /\ fire' <= v
           \/ calls' # <<>> /\ Head(calls').fn = "SysTickInterruptHandler"
    BY <1>1, <1>2, <1>5, SetCompareArms
  <2>2. QED
    BY <1>3, <1>5, <2>1
<1>6. CASE wait.restore = "nil" /\ SetCompare(Idle, <<>>)
  <2>1. queue = <<>> /\ Idle \in Nat
    BY <1>1, <1>6 DEF NilMeansEmpty
  <2>2. QED
    BY <1>5, <1>6, <2>1
<1>7. CASE \E v \in IF queue = <<>> THEN 0 .. Idle ELSE {due[Head(queue)]} :
             SetCompare(v, <<>>)
  <2>1. PICK v \in IF queue = <<>> THEN 0 .. Idle ELSE {due[Head(queue)]} :
               SetCompare(v, <<>>)
    BY <1>7
  <2>2. CASE queue = <<>>
    BY <1>5, <2>1, <2>2
  <2>3. CASE queue # <<>>
    <3>1. v = due[Head(queue)] /\ v \in Nat
      BY <1>1, <2>1, <2>3, HeadTailProperties
    <3>2. QED
      BY <1>5, <2>1, <3>1
  <2>4. QED
    BY <2>2, <2>3
<1>8. QED
  BY <1>4, <1>6, <1>7 DEF RestoreCompare

(* The steps of the thread and of a device interrupt that leave lists,      *)
(* timer and stack alone.                                                   *)
LEMMA OtherStepsKeep ==
  ASSUME IInv, DeviceInterrupt \/ GetEvents \/ WaitForEvents \/ CheckEvents \/ LoopAgain
  PROVE  IInv'
<1> USE DEF IInv, timer, lists, clock
<1>1. CASE DeviceInterrupt
  BY <1>1 DEF DeviceInterrupt, TypeOK, Event, Unmasked, QueueOrdered, OrderedBy, Linked,
               NilMeansEmpty, Armed, Running, Top
<1>2. CASE GetEvents
  BY <1>2 DEF GetEvents, TypeOK, QueueOrdered, OrderedBy, Linked,
               NilMeansEmpty, Armed, Running, Top
<1>3. ASSUME pc' # "awake", UNCHANGED <<clock, timer, lists, calls, events>>,
             pc' \in Place,
             wait' \in [expire : Nat, mask : SUBSET Event, internal : BOOLEAN,
                        run : BOOLEAN, restore : Restore]
      PROVE  IInv'
  BY <1>3 DEF TypeOK, QueueOrdered, OrderedBy, Linked, NilMeansEmpty, Armed, Running, Top
<1>4. CASE WaitForEvents
  <2>1. PICK e \in now .. MaxNow + 1, m \in SUBSET Event, i \in BOOLEAN :
          wait' = [expire |-> e, mask |-> m, internal |-> i,
                   run |-> TRUE, restore |-> "none"]
    BY <1>4 DEF WaitForEvents
  <2>2. e \in Nat
    BY DEF TypeOK
  <2>3. QED
    BY <1>3, <1>4, <2>1, <2>2 DEF WaitForEvents, Place, Restore
<1>5. CASE CheckEvents
  <2>1. NoWait \in [expire : Nat, mask : SUBSET Event, internal : BOOLEAN,
                    run : BOOLEAN, restore : Restore]
    BY DEF NoWait, Restore
  <2>2. QED
    BY <1>3, <1>5, <2>1 DEF CheckEvents, TypeOK, Place
<1>6. CASE LoopAgain
  BY <1>3, <1>6 DEF LoopAgain, TypeOK, Place
<1>7. QED
  BY <1>1, <1>2, <1>4, <1>5, <1>6
-----------------------------------------------------------------------------
LEMMA IInvInitially == Init => IInv
<1> SUFFICES ASSUME Init PROVE IInv
  OBVIOUS
<1>1. NoWait \in [expire : Nat, mask : SUBSET Event, internal : BOOLEAN,
                  run : BOOLEAN, restore : Restore]
  BY DEF NoWait, Restore
<1>2. due \in [Completion -> Nat]
  BY DEF Init
<1>3. TypeOK
  <2>1. queue \in Seq(Completion) /\ cont \in Seq(Completion) /\ calls \in Seq(Activation)
    BY DEF Init
  <2>2. now \in 0 .. MaxNow /\ fire \in Nat /\ fire <= now + MaxCount /\ compare \in Nat
    BY DEF Init
  <2>3. pending \in BOOLEAN /\ events \subseteq Event /\ pc \in Place
    BY DEF Init, Place
  <2>4. wait \in [expire : Nat, mask : SUBSET Event, internal : BOOLEAN,
                  run : BOOLEAN, restore : Restore]
    BY <1>1 DEF Init
  <2>5. QED
    BY <1>2, <2>1, <2>2, <2>3, <2>4 DEF TypeOK
<1>4. QueueOrdered
  BY DEF Init, QueueOrdered, OrderedBy, Distinct, Nodes
<1>5. ExecutesOnce(calls)
  BY DEF Init, ExecutesOnce
<1>6. NilMeansEmpty /\ Armed
  BY DEF Init, NilMeansEmpty, Armed
<1>7. QED
  BY <1>3, <1>4, <1>5, <1>6 DEF IInv

LEMMA IInvPreserved == IInv /\ [Next]_vars => IInv'
<1> SUFFICES ASSUME IInv, [Next]_vars PROVE IInv'
  OBVIOUS
<1>1. CASE Tick
  BY <1>1, TickKeeps
<1>2. CASE SysTick
  BY <1>2, SysTickKeeps
<1>3. CASE ISR
  BY <1>3, HandlerRearmKeeps, DequeueAndExecKeeps, ExecuteCompletionKeeps,
     EndHandlerKeeps DEF ISR
<1>4. CASE \E c \in Completion : Enqueue(c) \/ Abort(c)
  BY <1>4, EnqueueKeeps, AbortKeeps
<1>5. CASE Uninitialize
  BY <1>5, UninitializeKeeps
<1>6. CASE DeviceInterrupt \/ GetEvents \/ WaitForEvents
  BY <1>6, OtherStepsKeep
<1>7. CASE WaitLoop
  BY <1>7, OtherStepsKeep, RunContinuationKeeps, WaitForInterruptsKeeps,
     RestoreCompareKeeps DEF WaitLoop
<1>8. CASE UNCHANGED vars
  BY <1>8 DEF vars, IInv, TypeOK, QueueOrdered, OrderedBy, Linked, ExecutesOnce,
              NilMeansEmpty, Armed, Running, Top
<1>9. QED
  BY <1>1, <1>2, <1>3, <1>4, <1>5, <1>6, <1>7, <1>8 DEF Next

(* The inductive invariant holds in every state the timer code reaches.     *)
THEOREM Invariance == Spec => []IInv
<1>1. Init => IInv
  BY IInvInitially
<1>2. IInv /\ [Next]_vars => IInv'
  BY IInvPreserved
<1>3. QED
  BY <1>1, <1>2, PTL DEF Spec

(* The variables keep their types; SysTick is never loaded with more than   *)
(* it can count (SetCompareValue, SYSTICK_MAXCOUNT).                         *)
THEOREM TypeCorrect == Spec => []TypeOK
<1>1. IInv => TypeOK
  BY DEF IInv
<1>2. QED
  BY <1>1, Invariance, PTL

(* The completion list is always ordered by due time and no completion is   *)
(* in two places (EnqueueTicks, DequeueAndExec, HAL_CONTINUATION::Enqueue).  *)
THEOREM OrderedQueue == Spec => []QueueOrdered
<1>1. IInv => QueueOrdered
  BY DEF IInv
<1>2. QED
  BY <1>1, Invariance, PTL

(* No timer is lost: with no handler active, SysTick is pending or set to   *)
(* fire by the time the first completion is due.                            *)
THEOREM NoLostTimer == Spec => []TimerArmed
<1>1. IInv => TimerArmed
  BY DEF IInv, Armed, TimerArmed, Running
<1>2. QED
  BY <1>1, Invariance, PTL
-----------------------------------------------------------------------------
(* The compare value is that of the first completion, but for a timeout    *)
(* that WaitForInterrupts has set and RestoreCompare will take back.       *)
Exact ==
  queue # <<>> /\ compare # due[Head(queue)] =>
    pc = "awake" /\ wait.restore = "reset" /\ compare = wait.expire

(* Enough for a step that touches neither the wait nor the due times.      *)
LEMMA SameHead ==
  ASSUME Exact, UNCHANGED <<compare, due, pc, wait>>,
         queue' # <<>> => queue # <<>> /\ Head(queue') = Head(queue)
  PROVE  Exact'
BY DEF Exact

(* So is this for one that sets the compare value.                         *)
LEMMA NewHead ==
  ASSUME queue' # <<>> => compare' = due'[Head(queue')]
  PROVE  Exact'
BY DEF Exact

(* EnqueueTicks sets the compare value if it changes the first node.       *)
LEMMA EnqueueTicksExact ==
  ASSUME IInv, Exact, NEW c \in Completion, ~Linked(c), NEW d \in Nat, NEW below,
         EnqueueTicks(c, d, below), UNCHANGED <<pc, wait>>
  PROVE  Exact'
<1> DEFINE p == PlaceFor(queue, d)
<1>1. /\ queue \in Seq(Completion) /\ due \in [Completion -> Nat] /\ c \notin Nodes(queue)
  BY DEF IInv, TypeOK, Linked
<1>2. p \in 1 .. Len(queue) + 1
  BY <1>1, PlaceForProperties
<1>3. /\ due' = [due EXCEPT ![c] = d] /\ queue' = InsertBefore(queue, p, c)
      /\ IF p = 1 THEN SetCompare(d, below) ELSE calls' = below /\ UNCHANGED timer
  BY DEF EnqueueTicks
<1> HIDE DEF p
<1>4. /\ queue' \in Seq(Completion) /\ Len(queue') = Len(queue) + 1
      /\ \A i \in 1 .. Len(queue) + 1 :
           queue'[i] = IF i < p THEN queue[i] ELSE IF i = p THEN c ELSE queue[i - 1]
  <2> DEFINE r == InsertBefore(queue, p, c)
  <2>1. /\ r \in Seq(Completion) /\ Len(r) = Len(queue) + 1
        /\ \A i \in 1 .. Len(queue) + 1 :
             r[i] = IF i < p THEN queue[i] ELSE IF i = p THEN c ELSE queue[i - 1]
    BY <1>1, <1>2, InsertProperties
  <2>2. QED
    BY <1>3, <2>1
<1>5. Len(queue) \in Nat /\ queue' # <<>> /\ Head(queue') = queue'[1]
  BY <1>1, <1>4
<1>6. CASE p = 1
  <2>1. Head(queue') = c /\ due'[c] = d /\ compare' = d
    BY <1>1, <1>3, <1>4, <1>5, <1>6 DEF SetCompare
  <2>2. QED
    BY <2>1, NewHead
<1>7. CASE p # 1
  <2>1. queue # <<>> /\ 1 \in 1 .. Len(queue) /\ Head(queue) = queue[1]
    BY <1>1, <1>2, <1>5, <1>7
  <2>2. Head(queue') = Head(queue) /\ Head(queue) # c /\ Head(queue) \in Completion
    BY <1>1, <1>2, <1>4, <1>5, <1>7, <2>1 DEF Nodes
  <2>3. due'[Head(queue)] = due[Head(queue)] /\ compare' = compare
    BY <1>1, <1>3, <1>7, <2>2 DEF timer
  <2>4. QED
    BY <1>5, <2>1, <2>2, <2>3 DEF Exact
<1>8. QED
  BY <1>6, <1>7

(* The handler: what it takes from the list, it counts on from there.      *)
LEMMA HandlerExact == ASSUME IInv, Exact, ISR PROVE Exact'
<1>1. CASE HandlerRearm
  BY <1>1, SameHead DEF HandlerRearm, SetCompare, lists
<1>2. CASE DequeueAndExec
  <2>1. CASE queue = <<>>
    BY <1>2, <2>1 DEF DequeueAndExec, lists, Exact
  <2>2. CASE queue # <<>>
    <3>1. queue' = Tail(queue) /\ due' = due /\ compare' = NextTicks(Tail(queue))
      BY <1>2, <2>2 DEF DequeueAndExec, SetCompare
    <3>2. QED
      BY <3>1, NewHead DEF NextTicks
  <2>3. QED
    BY <2>1, <2>2
<1>3. CASE ExecuteCompletion
  <2>1. CASE UNCHANGED <<timer, queue, due>>
    BY <1>3, <2>1, SameHead DEF ExecuteCompletion, timer
  <2>2. CASE \E p \in Period : now + p <= MaxNow /\ EnqueueTicks(Top.c, now + p, Tail(calls))
    <3>1. PICK p \in Period : EnqueueTicks(Top.c, now + p, Tail(calls))
      BY <2>2
    <3>2. now + p \in Nat
      BY DEF IInv, TypeOK
    <3>3. Top \in Nodes(calls) /\ Top \in Activation /\ Top.fn = "Execute"
      <4>1. calls \in Seq(Activation) /\ calls # <<>> /\ Top.fn = "Execute"
        BY <1>3 DEF ExecuteCompletion, Running, IInv, TypeOK
      <4>2. Top = calls[1] /\ 1 \in 1 .. Len(calls)
        BY <4>1 DEF Top
      <4>3. QED
        BY <4>1, <4>2 DEF Nodes
    <3>4. Top.c \in Completion /\ ~Linked(Top.c)
      BY <3>3 DEF IInv, QueueOrdered, Activation
    <3>5. QED
      BY <1>3, <3>1, <3>2, <3>4, EnqueueTicksExact DEF ExecuteCompletion
  <2>3. QED
    BY <1>3, <2>1, <2>2 DEF ExecuteCompletion, lists
<1>4. CASE EndHandler
  <2>1. CASE queue = <<>>
    BY <1>4, <2>1 DEF EndHandler, lists, Exact
  <2>2. CASE queue # <<>>
    BY <1>4, <2>2, SameHead DEF EndHandler, lists, timer
  <2>3. QED
    BY <2>1, <2>2
<1>5. QED
  BY <1>1, <1>2, <1>3, <1>4 DEF ISR

(* Enqueue and Abort by the thread, a callback or a device interrupt.      *)
LEMMA ListExact ==
  ASSUME IInv, Exact, NEW c \in Completion, Enqueue(c) \/ Abort(c) PROVE Exact'
<1>1. CASE Enqueue(c)
  <2>1. PICK d \in 1 .. MaxNow : EnqueueTicks(c, d, <<>>)
    BY <1>1 DEF Enqueue
  <2>2. QED
    BY <1>1, <2>1, EnqueueTicksExact DEF Enqueue
<1>2. CASE Abort(c)
  <2>1. queue \in Seq(Completion) /\ Distinct(queue)
    BY DEF IInv, TypeOK, QueueOrdered
  <2>2. queue' = Unlink(queue, c) /\ UNCHANGED <<due, pc, wait>>
    BY <1>2 DEF Abort
  <2>3. CASE queue # <<>> /\ Head(queue) = c
    <3>1. queue' = Tail(queue)
      BY <2>1, <2>2, <2>3, UnlinkFirst
    <3>2. compare' = NextTicks(Tail(queue))
      BY <1>2, <2>3 DEF Abort, SetCompare
    <3>3. QED
      BY <2>2, <3>1, <3>2, NewHead DEF NextTicks
  <2>4. CASE queue = <<>>
    BY <2>2, <2>4, SameHead, <1>2 DEF Unlink, Nodes, Abort, timer
  <2>5. CASE queue # <<>> /\ Head(queue) # c
    <3>1. compare' = compare
      BY <1>2, <2>5 DEF Abort, timer
    <3>2. queue' # <<>> => Head(queue') = Head(queue)
      BY <2>1, <2>2, <2>5, UnlinkHead
    <3>3. QED
      BY <2>2, <2>5, <3>1, <3>2, SameHead
  <2>6. QED
    BY <2>3, <2>4, <2>5
<1>3. QED
  BY <1>1, <1>2

(* The loop of Events_WaitForEvents.                                       *)
LEMMA LoopExact == ASSUME IInv, Exact, WaitLoop PROVE Exact'
<1>1. CASE CheckEvents \/ RunContinuation \/ LoopAgain
  BY <1>1 DEF CheckEvents, RunContinuation, LoopAgain, Exact, timer, lists
<1>2. CASE WaitForInterrupts
  <2>1. pc = "sleep" /\ pc' = "awake" /\ UNCHANGED <<queue, due>>
    BY <1>2 DEF WaitForInterrupts, lists
  <2>2. wait \in [expire : Nat, mask : SUBSET Event, internal : BOOLEAN,
                 run : BOOLEAN, restore : Restore]
    BY DEF IInv, TypeOK
  <2>3. CASE queue = <<>>
    BY <2>1, <2>3 DEF Exact
  <2>4. CASE queue # <<>> /\ due[Head(queue)] > wait.expire
    <3>1. wait' = [wait EXCEPT !.run = TRUE, !.restore = "reset"] /\ compare' = wait.expire
      BY <1>2, <2>4 DEF WaitForInterrupts, SetCompare
    <3>2. wait'.restore = "reset" /\ wait'.expire = wait.expire
      BY <2>2, <3>1
    <3>3. QED
      BY <2>1, <3>1, <3>2 DEF Exact
  <2>5. CASE queue # <<>> /\ ~(due[Head(queue)] > wait.expire)
    <3>1. compare' = compare
      BY <1>2, <2>5 DEF WaitForInterrupts, timer
    <3>2. QED
      BY <2>1, <2>5, <3>1 DEF Exact
  <2>6. QED
    BY <2>3, <2>4, <2>5
<1>3. CASE RestoreCompare
  <2>1. pc = "awake" /\ UNCHANGED <<queue, due>>
    BY <1>3 DEF RestoreCompare, lists
  <2>2. CASE queue = <<>>
    BY <2>1, <2>2 DEF Exact
  <2>3. CASE queue # <<>>
    <3>1. wait.restore # "nil"
      BY <2>1, <2>3 DEF IInv, NilMeansEmpty
    <3>2. \/ wait.restore = "none" /\ compare' = compare
          \/ compare' = due[Head(queue)]
      BY <1>3, <2>3, <3>1 DEF RestoreCompare, SetCompare, timer
    <3>3. QED
      BY <2>1, <3>2 DEF Exact
  <2>4. QED
    BY <2>2, <2>3
<1>4. QED
  BY <1>1, <1>2, <1>3 DEF WaitLoop

(* A completion is executed before it is due only when the timeout of the  *)
(* wait has passed while the thread was on its way to CPU_Sleep            *)
(* (DequeueAndExec, WaitForInterrupts).                                    *)
THEOREM NeverEarlyAwake == Spec => EarlyOnlyAsleep
<1>1. Init => Exact
  BY DEF Init, Exact
<1>2. IInv /\ Exact /\ [Next]_vars => Exact'
  <2> SUFFICES ASSUME IInv, Exact, [Next]_vars PROVE Exact'
    OBVIOUS
  <2>1. CASE Tick \/ SysTick \/ DeviceInterrupt \/ GetEvents \/ UNCHANGED vars
    BY <2>1, SameHead
    DEF Tick, SysTick, DeviceInterrupt, GetEvents, vars, timer, lists, clock
  <2>2. CASE WaitForEvents
    BY <2>2 DEF WaitForEvents, CanCall, Exact, timer, lists
  <2>3. CASE Uninitialize
    BY <2>3 DEF Uninitialize, Exact
  <2>4. QED
    BY <2>1, <2>2, <2>3, HandlerExact, ListExact, LoopExact DEF Next
<1>3. IInv /\ Exact /\ [Next]_vars =>
        [DequeueAndExec /\ queue # <<>> /\ now < due[Head(queue)]
           => pc = "awake" /\ wait.expire <= now]_vars
  <2> SUFFICES ASSUME IInv, Exact, DequeueAndExec, queue # <<>>, now < due[Head(queue)]
               PROVE  pc = "awake" /\ wait.expire <= now
    OBVIOUS
  <2>1. now \in Nat /\ compare \in Nat /\ compare <= now
    BY DEF IInv, TypeOK, DequeueAndExec
  <2>2. compare # due[Head(queue)]
    BY <2>1
  <2>3. QED
    BY <2>1, <2>2 DEF Exact
<1>4. QED
  BY <1>1, <1>2, <1>3, Invariance, PTL DEF Spec, EarlyOnlyAsleep
===========================================================================
