----------------------------- MODULE RoundRobin -----------------------------
(***************************************************************************)
(* How ScheduleThreads chooses the managed thread to run (CLR/Core/        *)
(* Execution.cpp): the ready list is kept in the order of priority plus    *)
(* execution counter, the first thread runs, and every run costs it a      *)
(* debit that is larger the lower its priority is.  Counters only fall, so *)
(* all are raised again when the lowest gets near the end of an int.       *)
(*                                                                         *)
(* ManagedThreads says why threads become ready and stop being so; here    *)
(* they simply do, and the order of the ready list is what matters.        *)
(***************************************************************************)
EXTENDS DblLinkedList

CONSTANTS
  Thread,
  System,        \* the threads with TH_F_System: timers, interrupts, finalizer
  Priority,      \* Lowest to System_Highest
  Managed,       \* Lowest to Highest, those a program may set
  Debit,         \* GetQuantumDebit by priority: 1 << (System_Highest - p)
  MaxDebit,      \* the debit of the lowest priority
  Credit,        \* (1 << System_Highest) + 1
  Maximum,       \* EXECUTION_COUNTER_MAXIMUM
  Adjustment,    \* EXECUTION_COUNTER_ADJUSTMENT
  MaxSwitches,   \* MaxContextSwitches of the CLR settings
  Limit,         \* 2^31
  Nobody

ASSUME CounterAssumption ==
  /\ Priority \subseteq Nat
  /\ MaxDebit \in Nat /\ Debit \in [Priority -> 1 .. MaxDebit]
  /\ Credit \in Nat /\ Maximum \in Nat /\ Adjustment \in Nat /\ Limit \in Nat
  /\ MaxSwitches \in Nat \ {0}
  /\ Adjustment + Credit <= Maximum
  /\ MaxSwitches * (MaxDebit + 1) <= Adjustment
  /\ Maximum + MaxSwitches * (MaxDebit + 1) + 1 < Limit
  /\ \A p \in Priority : p < Limit
  /\ System \subseteq Thread /\ Managed \subseteq Priority
  /\ Nobody \notin Thread

VARIABLES
  created,    \* the threads that exist or have existed
  counter,    \* m_executionCounter
  priority,   \* m_priority of the current sub-thread
  global,     \* m_GlobalExecutionCounter
  ready,      \* m_threadsReady, with the thread that runs
  parked,     \* m_threadsWaiting and m_threadsZombie
  current,    \* m_currentThread
  left        \* context switches left in this call of ScheduleThreads

counters == <<counter, global>>
vars == <<created, counter, priority, global, ready, parked, current, left>>

(* CLR_RT_Thread::GetExecutionCounter *)
GetExecutionCounter(t) == priority[t] + counter[t]

(* BringExecCounterToDate: counter c of a thread that has not run for some  *)
(* time, given the global counter g.                                       *)
BringExecCounterToDate(c, g) == IF c - g > Credit THEN g + Credit ELSE c

(* The place InsertThreadRoundRobin finds in list s, in which every thread  *)
(* has the key of "key": before the first thread with a smaller one.       *)
PlaceFor(s, key, k) ==
  CHOOSE p \in 1 .. Len(s) + 1 :
    /\ \A i \in 1 .. p - 1 : key[s[i]] >= k
    /\ p <= Len(s) => key[s[p]] < k

(* InsertThreadRoundRobin of thread t into the ready list, for the counters *)
(* c and the priorities p.                                                 *)
Inserted(t, c, p) ==
  LET rest == Unlink(ready, t)
      key == [u \in Thread |-> c[u] + p[u]]
  IN InsertBefore(rest, PlaceFor(rest, key, key[t]), t)

(* Execute has started the main thread, which may set its own priority.     *)
Init ==
  \E t \in Thread \ System, p \in Managed :
    /\ created = {t} /\ ready = <<t>> /\ parked = {}
    /\ counter = [u \in Thread |-> 0] /\ global = 0
    /\ priority = [u \in Thread |-> p]
    /\ current = Nobody /\ left = 0
-----------------------------------------------------------------------------
(* Mutant of AdjustExecutionCounter: threads that do not run keep their     *)
(* distance.                                                               *)
AdjustedOnly(s) ==
  [t \in Thread |-> IF t \in s THEN counter[t] + Adjustment ELSE counter[t]]

(* AdjustExecutionCounter of the threads of s. *)
AdjustExecutionCounter(s) ==
  [t \in Thread |->
     IF t \in s
     THEN BringExecCounterToDate(counter[t] + Adjustment, global + Adjustment)
     ELSE counter[t]]

(* Mutant of ScheduleThreads: only the ready threads are adjusted. *)
ScheduleReady ==
  /\ current = Nobody /\ left = 0 /\ Nodes(ready) \cup parked # {}
  /\ left' = MaxSwitches
  /\ IF global < -Maximum
     THEN /\ global' = global + Adjustment
          /\ counter' = AdjustExecutionCounter(Nodes(ready))
     ELSE UNCHANGED counters
  /\ UNCHANGED <<created, priority, ready, parked, current>>

(* ScheduleThreads is called by the loop of Execute; before its own loop it *)
(* rebases the counters of all three lists.  Execute ends when no thread is  *)
(* left.                                                                   *)
ScheduleThreads ==
  /\ current = Nobody /\ left = 0 /\ Nodes(ready) \cup parked # {}
  /\ left' = MaxSwitches
  /\ IF global < -Maximum
     THEN /\ global' = global + Adjustment
          /\ counter' = AdjustExecutionCounter(Nodes(ready) \cup parked)
     ELSE UNCHANGED counters
  /\ UNCHANGED <<created, priority, ready, parked, current>>

(* Mutant of Dispatch: the loop goes round once too often. *)
DispatchOnceMore ==
  /\ current = Nobody /\ left >= 0 /\ ready # <<>>
  /\ LET t == Head(ready)
         c == BringExecCounterToDate(counter[t], global) - Debit[priority[t]]
     IN /\ counter' = [counter EXCEPT ![t] = c]
        /\ global' = IF c < global THEN c ELSE global
        /\ current' = t
  /\ left' = left - 1
  /\ UNCHANGED <<created, priority, ready, parked>>

(* One round of the loop of ScheduleThreads, up to th->Execute(). *)
Dispatch ==
  /\ current = Nobody /\ left > 0 /\ ready # <<>>
  /\ LET t == Head(ready)
         c == BringExecCounterToDate(counter[t], global) - Debit[priority[t]]
     IN /\ counter' = [counter EXCEPT ![t] = c]
        /\ global' = IF c < global THEN c ELSE global
        /\ current' = t
  /\ left' = left - 1
  /\ UNCHANGED <<created, priority, ready, parked>>

(* No thread is ready: ScheduleThreads returns. *)
NoReadyThreads ==
  /\ current = Nobody /\ left > 0 /\ ready = <<>>
  /\ left' = 0
  /\ UNCHANGED <<created, counter, priority, global, ready, parked, current>>
-----------------------------------------------------------------------------
(* Mutant of Preempt: the thread keeps its place in the ready list. *)
PreemptInPlace ==
  /\ current # Nobody
  /\ current' = Nobody
  /\ UNCHANGED <<created, counter, priority, global, ready, parked, left>>

(* Execute returns with CLR_S_QUANTUM_EXPIRED or CLR_E_RESCHEDULE:          *)
(* PutInProperList inserts the thread again.                               *)
Preempt ==
  /\ current # Nobody
  /\ ready' = Inserted(current, counter, priority)
  /\ current' = Nobody
  /\ UNCHANGED <<created, counter, priority, global, parked, left>>

UpdateToLowestExecutionCounter(t) == [counter EXCEPT ![t] = global - 1]

(* Thread.Sleep(0) *)
Yield ==
  /\ current # Nobody
  /\ counter' = UpdateToLowestExecutionCounter(current)
  /\ ready' = Inserted(current, counter', priority)
  /\ current' = Nobody
  /\ UNCHANGED <<created, priority, global, parked, left>>

(* The current thread blocks, or a system thread ends and is kept. *)
Block ==
  /\ current # Nobody
  /\ ready' = Unlink(ready, current)
  /\ parked' = parked \cup {current}
  /\ current' = Nobody
  /\ UNCHANGED <<created, counter, priority, global, left>>

(* The current thread ends and is released; system threads never are. *)
Exit ==
  /\ current \notin {Nobody} \cup System
  /\ ready' = Unlink(ready, current)
  /\ counter' = [counter EXCEPT ![current] = 0]
  /\ current' = Nobody
  /\ UNCHANGED <<created, priority, global, parked, left>>

(* NewThread and PushThreadProcDelegate: the current thread starts thread t *)
(* with priority p.                                                        *)
NewThread(t, p) ==
  /\ current # Nobody /\ t \notin created
  /\ t \in System \/ p \in Managed
  /\ created' = created \cup {t}
  /\ counter' = [counter EXCEPT ![t] = 0]
  /\ priority' = [priority EXCEPT ![t] = p]
  /\ ready' = Inserted(t, counter', priority')
  /\ UNCHANGED <<global, parked, current, left>>

(* A thread that does not run becomes ready: by the current thread, by a    *)
(* timeout or a timer between two runs, or by an interrupt's event.        *)
Wake(t) ==
  /\ t \in parked
  /\ ready' = Inserted(t, counter, priority)
  /\ parked' = parked \ {t}
  /\ UNCHANGED <<created, counter, priority, global, current, left>>

(* The current thread suspends another. *)
Suspend(t) ==
  /\ current \notin {Nobody, t} /\ t \in Nodes(ready)
  /\ ready' = Unlink(ready, t)
  /\ parked' = parked \cup {t}
  /\ UNCHANGED <<created, counter, priority, global, current, left>>

(* set_Priority of thread t, which keeps its place in the ready list; a     *)
(* priority above that of the current thread makes this give way.          *)
SetPriority(t, p) ==
  /\ current # Nobody /\ p \in Managed
  /\ t \in (Nodes(ready) \cup parked) \ System
  /\ priority' = [priority EXCEPT ![t] = p]
  /\ IF p > priority'[current]
     THEN /\ ready' = Inserted(current, counter, priority')
          /\ current' = Nobody
     ELSE UNCHANGED <<ready, current>>
  /\ UNCHANGED <<created, counter, global, parked, left>>
-----------------------------------------------------------------------------
(* The turn of the current thread ends: its quantum expires at the latest. *)
EndOfTurn == Preempt \/ Yield \/ Block \/ Exit

Engine == ScheduleThreads \/ Dispatch \/ NoReadyThreads

Next ==
  \/ Engine \/ EndOfTurn
  \/ \E t \in Thread : Wake(t) \/ Suspend(t)
  \/ \E t \in Thread, p \in Priority : NewThread(t, p) \/ SetPriority(t, p)

(* The engine goes on, and every turn ends. *)
Spec == Init /\ [][Next]_vars /\ WF_vars(Engine) /\ WF_vars(EndOfTurn)
-----------------------------------------------------------------------------
TypeOK ==
  /\ created \subseteq Thread
  /\ counter \in [Thread -> Int] /\ priority \in [Thread -> Priority]
  /\ global \in Int
  /\ ready \in Seq(Thread) /\ parked \subseteq Thread
  /\ current \in Thread \cup {Nobody}
  /\ left \in 0 .. MaxSwitches

(* The threads in the three lists. *)
Alive == Nodes(ready) \cup parked

Int32 == -Limit .. Limit - 1

(* No int overflows, however long a thread has not run while the others     *)
(* wore the counters down: not the counters, not what is compared in        *)
(* BringExecCounterToDate and InsertThreadRoundRobin, not the sums of       *)
(* AdjustExecutionCounter.                                                 *)
NoOverflow ==
  \A t \in Alive :
    {counter[t], GetExecutionCounter(t), counter[t] - global,
     counter[t] + Adjustment, global - 1} \subseteq Int32

(* Nobody falls behind: no thread, waiting or zombie, has a counter much    *)
(* below the global one, which all who run go down to; a rebase that        *)
(* forgot it would leave it without a turn for the next billion runs.      *)
NotLeftBehind == \A t \in Alive : counter[t] >= global - 1

(* Why the two hold: counters start at 0 and never rise above it, because   *)
(* Maximum exceeds Adjustment by the credit; and the global counter goes    *)
(* down by a debit and one at most in each of the runs that are left until  *)
(* it is compared with Maximum again.                                      *)
IInv ==
  /\ TypeOK /\ Distinct(ready) /\ current \in Nodes(ready) \cup {Nobody}
  /\ \A t \in Thread : counter[t] <= 0
  /\ global <= 0
  /\ global + Maximum + MaxSwitches * (MaxDebit + 1) >= left * (MaxDebit + 1)
  /\ NotLeftBehind

(* A ready thread is run, suspended or ends, unless threads are woken again  *)
(* and again: those that run all the time, that yield or get other          *)
(* priorities go down in turn, also through a rebase.  Two threads that wake *)
(* each other can keep a third waiting for ever: one that is woken during    *)
(* the turn of the other is inserted before the third, because the thread   *)
(* that runs stands at the head of the list with a counter that has been    *)
(* debited.                                                                *)
HasTurn(t) == t \in Nodes(ready) ~> (current = t \/ t \notin Nodes(ready))
ReadyRunsUnlessWoken ==
  \A t \in Thread : []<><<\E u \in Thread : Wake(u)>>_vars \/ HasTurn(t)
=============================================================================
