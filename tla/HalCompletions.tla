--------------------------- MODULE HalCompletions ---------------------------
(***************************************************************************)
(* The timed callbacks of the PAL and the loop that sleeps until one is    *)
(* due: HAL_COMPLETION (pal/AsyncProcCall/Completions.cpp),                *)
(* HAL_CONTINUATION (Continuations.cpp), Events_WaitForEvents              *)
(* (pal/events/events.cpp) and the SysTick compare logic of the STM32F10x  *)
(* (STM32F10x_Time.cpp).                                                   *)
(*                                                                         *)
(* Two actors share one processor: the thread, which runs the PAL calls,   *)
(* and the interrupt handlers.  A handler may be entered by the hardware,  *)
(* when interrupts are enabled and SysTick is pending, or by a direct call *)
(* from SetCompareValue when the compare value has already passed; in the  *)
(* second case it nests inside whatever called it.  "calls" is the stack   *)
(* of handler activations, innermost first, so the clock may advance       *)
(* between any two calls while nothing else runs.                          *)
(***************************************************************************)
EXTENDS DblLinkedList

CONSTANTS
  Completion,       \* the HAL_COMPLETION objects
  RunInISR,         \* those set up by InitializeForISR
  Period,           \* delays after which a callback may enqueue itself again
  MaxNow,           \* bound of the clock
  Idle,             \* HAL_Completion_IdleValue
  MaxCount,         \* SYSTICK_MAXCOUNT, the longest interval SysTick counts
  NoCompletion

ASSUME CompletionAssumption ==
  /\ RunInISR \subseteq Completion
  /\ NoCompletion \notin Completion
  /\ Period \subseteq Nat \ {0}
  /\ MaxNow \in Nat
  /\ Idle \in Nat /\ Idle > MaxNow + 1
  /\ MaxCount \in Nat \ {0}

VARIABLES
  now,        \* HAL_Time_CurrentTicks
  pending,    \* the SysTick exception is pending
  fire,       \* the tick at which SysTick counts down to zero
  compare,    \* g_TicksCompare
  queue,      \* g_HAL_Completion_List
  due,        \* EventTimeTicks of every completion
  cont,       \* g_HAL_Continuation_List
  calls,      \* activations of the timer code, innermost first
  events,     \* SystemEvents
  pc,         \* where the thread is in Events_WaitForEvents
  wait        \* the local variables of that call

clock == <<now, pending>>
timer == <<fire, compare>>
lists == <<queue, due, cont>>
vars == <<now, pending, fire, compare, queue, due, cont, calls, events, pc, wait>>

(* The events that matter: the one DequeueAndExec raises, and one that a   *)
(* device interrupt raises.                                                *)
Event == {"SYSTEM_TIMER", "IO"}

Activation == [fn : {"SysTickInterruptHandler", "HandlerTail"}, c : {NoCompletion}]
              \cup [fn : {"Execute"}, c : Completion]
Handler == [fn |-> "SysTickInterruptHandler", c |-> NoCompletion]
HandlerTail == [fn |-> "HandlerTail", c |-> NoCompletion]
Execute(c) == [fn |-> "Execute", c |-> c]
Call(a, below) == <<a>> \o below

(* Where the thread is: outside Events_WaitForEvents, testing the events   *)
(* and the timeout, about to run one continuation, about to sleep, after   *)
(* CPU_Sleep, or with interrupts let in before the loop goes round: in the *)
(* callback of a continuation or in irq.Probe.                             *)
Place == {"out", "check", "continuation", "sleep", "awake", "open"}

(* What WaitForInterrupts does to the compare value after CPU_Sleep:       *)
(* nothing, set it to the first completion, or set it to Idle.             *)
Restore == {"none", "reset", "nil"}

(* The locals of Events_WaitForEvents while it is not active. *)
NoWait == [expire |-> 0, mask |-> {}, internal |-> FALSE,
           run |-> FALSE, restore |-> "none"]

Linked(c) == c \in Nodes(queue) \cup Nodes(cont)

(* Interrupts are enabled and no handler runs. *)
Unmasked == calls = <<>> /\ pc \in {"out", "continuation", "open"}

(* The thread runs its next step: no handler is active, and none is about  *)
(* to preempt it.                                                          *)
ThreadRuns == calls = <<>> /\ ~(pending /\ Unmasked)
-----------------------------------------------------------------------------
(* Mutants of SetCompare: an interval longer than SysTick can count; a     *)
(* value that has passed is not served at once.                            *)
SetCompareUncapped(v, below) ==
  /\ compare' = v
  /\ IF v <= now
     THEN calls' = Call(Handler, below) /\ UNCHANGED fire
     ELSE fire' = v /\ calls' = below
SetCompareUnforced(v, below) ==
  /\ compare' = v
  /\ fire' = now + (IF v - now > MaxCount THEN MaxCount ELSE v - now)
  /\ calls' = below

(* SetCompareValue: record the value; if it has passed, call the handler   *)
(* directly, else count down to it, at most MaxCount at a time.  "below"   *)
(* is the rest of the stack.                                               *)
SetCompare(v, below) ==
  /\ compare' = v
  /\ IF v <= now
     THEN calls' = Call(Handler, below) /\ UNCHANGED fire
     ELSE /\ fire' = now + (IF v - now > MaxCount THEN MaxCount ELSE v - now)
          /\ calls' = below

(* The due time of the first node of list s, or Idle when s is empty. *)
NextTicks(s) == IF s = <<>> THEN Idle ELSE due[Head(s)]

(* Mutant of PlaceFor: every completion is linked at the back. *)
PlaceForBack(s, d) == Len(s) + 1

(* The place EnqueueTicks finds in list s for a completion due at d:       *)
(* before the first one that is due later.                                 *)
PlaceFor(s, d) ==
  CHOOSE p \in 1 .. Len(s) + 1 :
    /\ \A i \in 1 .. p - 1 : due[s[i]] <= d
    /\ p <= Len(s) => d < due[s[p]]

(* HAL_COMPLETION::EnqueueTicks of a completion that is not linked. *)
EnqueueTicks(c, d, below) ==
  LET p == PlaceFor(queue, d)
  IN /\ due' = [due EXCEPT ![c] = d]
     /\ queue' = InsertBefore(queue, p, c)
     /\ UNCHANGED cont
     /\ IF p = 1
        THEN SetCompare(d, below)
        ELSE calls' = below /\ UNCHANGED timer
-----------------------------------------------------------------------------
Init ==
  /\ now = 0 /\ pending = FALSE
  /\ compare = Idle /\ fire = MaxCount
  /\ queue = <<>> /\ cont = <<>> /\ due = [c \in Completion |-> 0]
  /\ calls = <<>>
  /\ events = {}
  /\ pc = "out"
  /\ wait = NoWait

(* One tick.  SysTick becomes pending when it has counted down. *)
Tick ==
  /\ now < MaxNow
  /\ now' = now + 1
  /\ pending' = (pending \/ now + 1 >= fire)
  /\ UNCHANGED <<timer, lists, calls, events, pc, wait>>

(* The hardware enters SysTickInterruptHandler. *)
SysTick ==
  /\ pending /\ Unmasked
  /\ pending' = FALSE
  /\ calls' = <<Handler>>
  /\ UNCHANGED <<now, timer, lists, events, pc, wait>>

(* A device interrupt raises its event (Events_Set). *)
DeviceInterrupt ==
  /\ Unmasked
  /\ events' = events \cup {"IO"}
  /\ UNCHANGED <<clock, timer, lists, calls, pc, wait>>
-----------------------------------------------------------------------------
Top == Head(calls)
Running(fn) == calls # <<>> /\ Top.fn = fn

(* SysTickInterruptHandler before the compare value: count down again. *)
HandlerRearm ==
  /\ Running("SysTickInterruptHandler")
  /\ now < compare
  /\ SetCompare(compare, Tail(calls))
  /\ UNCHANGED <<clock, lists, events, pc, wait>>

(* SysTickInterruptHandler at or past the compare value:                   *)
(* HAL_COMPLETION::DequeueAndExec up to the call of Execute.  SetCompare   *)
(* comes before Execute, so a backlog nests.                               *)
DequeueAndExec ==
  /\ Running("SysTickInterruptHandler")
  /\ now >= compare
  /\ IF queue = <<>>
     THEN /\ calls' = Call(HandlerTail, Tail(calls))
          /\ UNCHANGED <<timer, lists, events>>
     ELSE /\ events' = events \cup {"SYSTEM_TIMER"}
          /\ queue' = Tail(queue)
          /\ SetCompare(NextTicks(Tail(queue)),
                        Call(Execute(Head(queue)), Call(HandlerTail, Tail(calls))))
          /\ UNCHANGED <<due, cont>>
  /\ UNCHANGED <<clock, pc, wait>>

(* HAL_COMPLETION::Execute: the callback of an ISR completion runs here    *)
(* and may enqueue the completion again; any other completion becomes a    *)
(* continuation.                                                           *)
ExecuteCompletion ==
  /\ Running("Execute")
  /\ LET c == Top.c
     IN IF c \in RunInISR
        THEN \/ calls' = Tail(calls) /\ UNCHANGED <<timer, lists>>
             \/ \E p \in Period : /\ now + p <= MaxNow
                                  /\ EnqueueTicks(c, now + p, Tail(calls))
        ELSE /\ cont' = LinkAtBack(cont, c)
             /\ calls' = Tail(calls)
             /\ UNCHANGED <<timer, queue, due>>
  /\ UNCHANGED <<clock, events, pc, wait>>

(* The end of SysTickInterruptHandler: with nothing queued, count to Idle. *)
EndHandler ==
  /\ Running("HandlerTail")
  /\ IF queue = <<>>
     THEN SetCompare(Idle, Tail(calls))
     ELSE calls' = Tail(calls) /\ UNCHANGED timer
  /\ UNCHANGED <<clock, lists, events, pc, wait>>

ISR == HandlerRearm \/ DequeueAndExec \/ ExecuteCompletion \/ EndHandler
-----------------------------------------------------------------------------
(* EnqueueTicks by the thread, by the callback of a continuation or by a   *)
(* device interrupt.  The callers unlink the completion first (by Abort, or *)
(* because IsLinked says it is not).  EnqueueDelta reads the clock before   *)
(* it takes the lock: by then the due time may already be past.            *)
Enqueue(c) ==
  /\ Unmasked
  /\ ~Linked(c)
  /\ \E d \in 1 .. MaxNow : EnqueueTicks(c, d, <<>>)
  /\ UNCHANGED <<clock, events, pc, wait>>

(* HAL_COMPLETION::Abort, by the same callers: unlink it from whichever    *)
(* list holds it; if it was the first to be due, count to the next one.    *)
Abort(c) ==
  /\ Unmasked
  /\ Linked(c)
  /\ queue' = Unlink(queue, c)
  /\ cont' = Unlink(cont, c)
  /\ IF queue # <<>> /\ Head(queue) = c
     THEN SetCompare(NextTicks(Tail(queue)), <<>>)
     ELSE UNCHANGED <<timer, calls>>
  /\ UNCHANGED <<clock, due, events, pc, wait>>

(* The thread makes a PAL call. *)
CanCall == pc = "out" /\ ThreadRuns

(* HAL_COMPLETION::Uninitialize and HAL_CONTINUATION::Uninitialize: empty  *)
(* both lists, leave the compare value.                                    *)
Uninitialize ==
  /\ CanCall
  /\ queue # <<>> \/ cont # <<>>
  /\ queue' = <<>> /\ cont' = <<>>
  /\ UNCHANGED <<clock, timer, due, calls, events, pc, wait>>

(* Events_Get: take the events that are raised. *)
GetEvents ==
  /\ CanCall
  /\ events # {}
  /\ events' = {}
  /\ UNCHANGED <<clock, timer, lists, calls, pc, wait>>

(* Entry of Events_WaitForEvents: interrupts go off.  An expiry past       *)
(* MaxNow is a timeout that does not come.  Events_WaitForEventsInternal   *)
(* keeps continuations from running (SYSTEM_STATE_NO_CONTINUATIONS).       *)
WaitForEvents ==
  /\ CanCall
  /\ \E e \in now .. MaxNow + 1, m \in SUBSET Event, i \in BOOLEAN :
       wait' = [expire |-> e, mask |-> m, internal |-> i,
                run |-> TRUE, restore |-> "none"]
  /\ pc' = "check"
  /\ UNCHANGED <<clock, timer, lists, calls, events>>

(* Mutants of CheckEvents: the call returns one tick late; the events are  *)
(* tested on the way in only.                                              *)
CheckEventsLate ==
  /\ pc = "check" /\ ThreadRuns
  /\ IF events \cap wait.mask # {} \/ wait.expire < now
     THEN pc' = "out" /\ wait' = NoWait
     ELSE /\ pc' = IF wait.run /\ ~wait.internal THEN "continuation" ELSE "sleep"
          /\ UNCHANGED wait
  /\ UNCHANGED <<clock, timer, lists, calls, events>>
CheckEventsOnce ==
  /\ pc = "check" /\ ThreadRuns
  /\ IF wait.expire <= now
     THEN pc' = "out" /\ wait' = NoWait
     ELSE /\ pc' = IF wait.run /\ ~wait.internal THEN "continuation" ELSE "sleep"
          /\ UNCHANGED wait
  /\ UNCHANGED <<clock, timer, lists, calls, events>>

(* Top of its loop: return on an event or on the timeout, else run a       *)
(* continuation, or sleep when the last attempt found none.                *)
CheckEvents ==
  /\ pc = "check" /\ ThreadRuns
  /\ IF events \cap wait.mask # {} \/ wait.expire <= now
     THEN pc' = "out" /\ wait' = NoWait
     ELSE /\ pc' = IF wait.run /\ ~wait.internal THEN "continuation" ELSE "sleep"
          /\ UNCHANGED wait
  /\ UNCHANGED <<clock, timer, lists, calls, events>>

(* HAL_CONTINUATION::Dequeue_And_Execute up to the callback, which runs    *)
(* with interrupts enabled and makes the PAL calls above.                  *)
RunContinuation ==
  /\ pc = "continuation" /\ ThreadRuns
  /\ pc' = "open"
  /\ wait' = [wait EXCEPT !.run = (cont # <<>>)]
  /\ cont' = IF cont = <<>> THEN cont ELSE Tail(cont)
  /\ UNCHANGED <<clock, timer, queue, due, calls, events>>

(* HAL_COMPLETION::WaitForInterrupts up to CPU_Sleep, which is empty on    *)
(* this processor: with no completion due before the timeout, count down   *)
(* to the timeout.                                                         *)
WaitForInterrupts ==
  /\ pc = "sleep" /\ ThreadRuns
  /\ pc' = "awake"
  /\ LET restore == IF queue = <<>> THEN "nil"
                    ELSE IF due[Head(queue)] > wait.expire THEN "reset" ELSE "none"
     IN /\ wait' = [wait EXCEPT !.run = TRUE, !.restore = restore]
        /\ IF restore = "none"
           THEN UNCHANGED <<timer, calls>>
           ELSE SetCompare(wait.expire, <<>>)
  /\ UNCHANGED <<clock, lists, events>>

(* Mutant of RestoreCompare: it counts to Idle whatever the list holds. *)
RestoreCompareNil ==
  /\ pc = "awake" /\ ThreadRuns
  /\ pc' = "open"
  /\ wait' = [wait EXCEPT !.restore = "none"]
  /\ SetCompare(Idle, <<>>)
  /\ UNCHANGED <<clock, lists, events>>

(* Mutant of RestoreCompare: the timeout stays the compare value.           *)
RestoreCompareNot ==
  /\ pc = "awake" /\ ThreadRuns
  /\ pc' = "open"
  /\ wait' = [wait EXCEPT !.restore = "none"]
  /\ UNCHANGED <<clock, timer, lists, calls, events>>

(* The rest of WaitForInterrupts restores the compare value.  It reads the *)
(* due time of FirstNode() without testing that there is one: when the     *)
(* handler has emptied the list that is the memory behind the list head,   *)
(* any value.                                                              *)
RestoreCompare ==
  /\ pc = "awake" /\ ThreadRuns
  /\ pc' = "open"
  /\ wait' = [wait EXCEPT !.restore = "none"]
  /\ \/ wait.restore = "none" /\ UNCHANGED <<timer, calls>>
     \/ wait.restore = "nil" /\ SetCompare(Idle, <<>>)
     \/ /\ wait.restore = "reset"
        /\ \E v \in IF queue = <<>> THEN 0 .. Idle ELSE {due[Head(queue)]} :
             SetCompare(v, <<>>)
  /\ UNCHANGED <<clock, lists, events>>

(* Interrupts are masked again and the loop goes round: after a callback,  *)
(* or after irq.Probe has let the pending interrupts in.                   *)
LoopAgain ==
  /\ pc = "open" /\ ThreadRuns
  /\ pc' = "check"
  /\ UNCHANGED <<clock, timer, lists, calls, events, wait>>

WaitLoop == \/ CheckEvents \/ RunContinuation
            \/ WaitForInterrupts \/ RestoreCompare \/ LoopAgain
-----------------------------------------------------------------------------
Next ==
  \/ Tick \/ SysTick \/ DeviceInterrupt
  \/ ISR
  \/ \E c \in Completion : Enqueue(c) \/ Abort(c)
  \/ Uninitialize \/ GetEvents \/ WaitForEvents
  \/ WaitLoop

(* Time passes, a handler runs to its end and a pending SysTick that is    *)
(* enabled is taken before long.  The thread that is in Events_WaitForEvents goes on   *)
(* whenever it can again and again: device interrupts do not starve it.    *)
Fairness ==
  /\ WF_vars(Tick) /\ SF_vars(SysTick) /\ WF_vars(ISR)
  /\ SF_vars(WaitLoop)

Spec == Init /\ [][Next]_vars /\ Fairness
-----------------------------------------------------------------------------
TypeOK ==
  /\ now \in 0 .. MaxNow /\ pending \in BOOLEAN
  /\ fire \in Nat /\ fire <= now + MaxCount  \* SysTick counts 24 bits
  /\ compare \in Nat
  /\ queue \in Seq(Completion) /\ cont \in Seq(Completion)
  /\ due \in [Completion -> Nat]
  /\ calls \in Seq(Activation)
  /\ events \subseteq Event
  /\ pc \in Place
  /\ wait \in [expire : Nat, mask : SUBSET Event, internal : BOOLEAN,
              run : BOOLEAN, restore : Restore]

(* The list EnqueueTicks inserts into is ordered by due time, and a         *)
(* completion is in one place: queued once, or waiting once as a            *)
(* continuation, or dequeued with its Execute still to come.  DequeueAndExec *)
(* takes the first node for the earliest without looking further.           *)
QueueOrdered ==
  /\ OrderedBy(queue, due)
  /\ Distinct(queue) /\ Distinct(cont)
  /\ Nodes(queue) \cap Nodes(cont) = {}
  /\ \A a \in Nodes(calls) : a.fn = "Execute" => ~Linked(a.c)

(* No lost timer: whenever no handler is active, SysTick is pending or will *)
(* fire no later than the compare value, and the compare value is no later  *)
(* than the first completion is due, whatever order of EnqueueTicks, Abort, *)
(* DequeueAndExec and WaitForInterrupts led there.                          *)
TimerArmed ==
  calls = <<>> /\ queue # <<>> =>
    /\ compare <= due[Head(queue)]
    /\ pending \/ (now < fire /\ fire <= compare)

(* What makes the two inductive: a completion has one Execute to come at     *)
(* most, also when handlers nest; WaitForInterrupts restores the compare     *)
(* value to Idle only when nothing can have been queued since it looked; and *)
(* while handlers run, the one on top is about to serve the compare value.   *)
ExecutesOnce(s) ==
  \A i, j \in 1 .. Len(s) :
    s[i].fn = "Execute" /\ s[j].fn = "Execute" /\ s[i].c = s[j].c => i = j
NilMeansEmpty ==
  pc = "awake" /\ wait.restore = "nil" =>
    queue = <<>> /\ \A a \in Nodes(calls) : a.fn # "Execute"
Armed ==
  queue # <<>> =>
    /\ compare <= due[Head(queue)]
    /\ \/ pending
       \/ now < fire /\ fire <= compare
       \/ Running("SysTickInterruptHandler")
IInv == TypeOK /\ QueueOrdered /\ ExecutesOnce(calls) /\ NilMeansEmpty /\ Armed

(* A completion is executed before it is due in one case only: the timeout  *)
(* of Events_WaitForEvents has passed between the test of the loop and      *)
(* CPU_Sleep, and the compare value that WaitForInterrupts sets calls the   *)
(* handler.  (DequeueAndExec asserts that there is no such case.)           *)
EarlyOnlyAsleep ==
  [][DequeueAndExec /\ queue # <<>> /\ now < due[Head(queue)]
       => pc = "awake" /\ wait.expire <= now]_vars

(* Every queued completion leaves the queue, because it is dequeued when due *)
(* or because someone aborts it.                                             *)
CompletionsFire == \A c \in Completion : c \in Nodes(queue) ~> c \notin Nodes(queue)

(* Events_WaitForEvents returns when its timeout passes, though completions *)
(* are queued, run and aborted meanwhile, by continuations and interrupts.  *)
WaitReturns == (pc # "out" /\ wait.expire <= MaxNow) ~> (pc = "out")

(* An event of the mask that is raised during the call makes it return, also *)
(* without a timeout: the events are tested after every opening of the       *)
(* interrupt mask ("we must do this before we sleep!", events.cpp).          *)
EventWakes == (pc # "out" /\ events \cap wait.mask # {}) ~> (pc = "out")
=============================================================================
