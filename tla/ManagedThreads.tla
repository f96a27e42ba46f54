--------------------------- MODULE ManagedThreads ---------------------------
(***************************************************************************)
(* The managed threads of the CLR and what they block on: the thread lists *)
(* of the execution engine (CLR/Core/Execution.cpp, Thread.cpp), Monitor   *)
(* locks (CLR_RT_HeapBlock_Lock.cpp, _LockRequest.cpp), wait handles       *)
(* (CLR_RT_HeapBlock_WaitForObject.cpp) and the natives of                 *)
(* System.Threading that operate on them.                                  *)
(*                                                                         *)
(* One native thread runs all managed threads.  "current" is the managed   *)
(* thread it works for; "pc" is what it does: "idle" in ScheduleThreads or *)
(* WaitForActivity, "run" in Execute, "signal" in SignalObject, "release"  *)
(* in SubThread::DestroyInstance of a thread that is being passivated.     *)
(* SignalObject walks a list that its own steps change, so its cursor is   *)
(* state.                                                                  *)
(***************************************************************************)
EXTENDS DblLinkedList

CONSTANTS
  Thread,        \* the CLR_RT_Threads; none of them is a system thread
  Joinable,      \* those a managed Thread object refers to
  Object,        \* objects to lock
  Handle,        \* AutoResetEvents and ManualResetEvents
  AutoReset,     \* the AutoResetEvents among them
  WaitList,      \* the arrays of handles that are waited for; <<u>> for Join
  MaxDepth,      \* bound of the recursion of a lock
  MaxRequests,   \* bound of the lock requests of a thread
  Nobody         \* no thread, object or node

ASSUME ThreadsAssumption ==
  /\ Joinable \subseteq Thread /\ AutoReset \subseteq Handle
  /\ WaitList \subseteq Seq(Handle \cup Joinable) \ {<<>>}
  /\ Nobody \notin Thread \cup Object
  /\ Thread \cap Handle = {}
  /\ MaxDepth \in Nat \ {0} /\ MaxRequests \in Nat \ {0}

VARIABLES
  th,         \* the fields of every CLR_RT_Thread
  ready,      \* m_threadsReady; its order is that of the execution counters
  waiting,    \* m_threadsWaiting
  current,    \* m_currentThread, or the thread that is being passivated
  pc,         \* what the engine is doing
  cursor,     \* the handle of SignalObject, and the node a loop is at
  signaled,   \* handles and thread objects with HB_Signaled
  locks,      \* m_locks of every thread: the locked objects it owns
  depth,      \* m_recursion of the Owner node of the lock of every object
  requests,   \* m_requests, the threads in the order of their requests
  entered     \* how often the program of a thread has got through Enter

engine == <<ready, waiting, current, pc, cursor>>
monitors == <<locks, depth, requests, entered>>
vars == <<th, ready, waiting, current, pc, cursor, signaled, locks, depth,
          requests, entered>>

Waitable == Handle \cup Joinable

(* m_waitForObject: the handles, WaitAll or WaitAny, and whether it expires. *)
NoWait == [handles |-> <<>>, all |-> FALSE, finite |-> FALSE]

(* The native call a thread is blocked in; "exited" when it has no stack   *)
(* frame left.                                                             *)
NoCall == [fn |-> "none", obj |-> Nobody]
Exited == [fn |-> "exited", obj |-> Nobody]
Calling(fn) == [fn |-> fn, obj |-> Nobody]
Entering(o) == [fn |-> "Enter", obj |-> o]

(* m_waitForObject_Result.  WaitAny's index is the handle itself.  The     *)
(* native that blocked reads it when it returns; it is INIT otherwise.     *)
INIT == "INIT"
TIMEOUT == "TIMEOUT"
HANDLE_ALL == "HANDLE_ALL"
ASSUME ResultsAssumption == {INIT, TIMEOUT, HANDLE_ALL} \cap Waitable = {}

NewThread == [status |-> "Unstarted", suspended |-> FALSE, aborted |-> FALSE,
              exception |-> FALSE, count |-> 0, wait |-> NoWait,
              result |-> INIT, sleep |-> FALSE, call |-> NoCall]

Init ==
  \E t \in Thread :
    /\ th = [[u \in Thread |-> NewThread] EXCEPT ![t].status = "Ready"]
    /\ ready = {t} /\ waiting = <<>>
    /\ current = Nobody /\ pc = "idle"
    /\ cursor = [handle |-> Nobody, at |-> Nobody]
    /\ signaled = {}
    /\ locks = [u \in Thread |-> <<>>]
    /\ depth = [o \in Object |-> 0]
    /\ requests = [o \in Object |-> <<>>]
    /\ entered = [u \in Thread |-> [o \in Object |-> 0]]
-----------------------------------------------------------------------------
(* InsertThreadRoundRobin makes a thread ready: whatever it waited for is  *)
(* forgotten.                                                              *)
Woken(r) == [r EXCEPT !.wait = NoWait, !.sleep = FALSE]

(* Mutant of PutInProperList: TH_F_Suspended is not looked at. *)
PutInListOfStatus(s, t, r) ==
  IF r.status = "Ready"
  THEN /\ th' = [s EXCEPT ![t] = Woken(r)]
       /\ ready' = ready \cup {t}
       /\ waiting' = Unlink(waiting, t)
  ELSE /\ th' = [s EXCEPT ![t] = r]
       /\ ready' = ready \ {t}
       /\ waiting' = LinkAtBack(Unlink(waiting, t), t)

(* PutInProperList of thread t with fields r and status Ready or Waiting.  *)
(* s is the record function in which t's fields are replaced.              *)
PutInProperList(s, t, r) ==
  IF r.status = "Ready" /\ ~r.suspended
  THEN /\ th' = [s EXCEPT ![t] = Woken(r)]
       /\ ready' = ready \cup {t}
       /\ waiting' = Unlink(waiting, t)
  ELSE /\ th' = [s EXCEPT ![t] = r]
       /\ ready' = ready \ {t}
       /\ waiting' = LinkAtBack(Unlink(waiting, t), t)

(* CLR_RT_Thread::Restart: also a thread that is suspended becomes Ready,  *)
(* but it stays in the waiting list with its wait object.                  *)
Restart(s, t, fDelete) ==
  PutInProperList(s, t, [s[t] EXCEPT !.status = "Ready",
                                     !.sleep = @ /\ ~fDelete])

(* The current thread leaves the processor with fields r; the engine goes  *)
(* back to ScheduleThreads.                                                *)
Leave(r) ==
  /\ PutInProperList(th, current, r)
  /\ current' = Nobody /\ pc' = "idle"
  /\ UNCHANGED cursor

Successor(s, t) ==
  IF PosOf(s, t) < Len(s) THEN s[PosOf(s, t) + 1] ELSE Nobody

First(s) == IF s = <<>> THEN Nobody ELSE Head(s)

(* SignalObject up to its loop. *)
SignalObject(h, list) ==
  /\ signaled' = signaled \cup {h}
  /\ cursor' = [handle |-> h, at |-> First(list)]
  /\ pc' = "signal"

(* SubThread::DestroyInstance of thread t up to its loop over the locks.   *)
(* Once the thread has exited there is no subthread left to destroy.       *)
DestroyInstance(t) ==
  /\ pc' = "release"
  /\ cursor' = [handle |-> Nobody,
                at |-> IF th[t].call = Exited THEN Nobody ELSE First(locks[t])]

(* PutInProperList of a thread t that has terminated: Passivate up to      *)
(* SignalAll, which signals the Thread object if there is one.             *)
Passivate(t) ==
  /\ th' = [th EXCEPT ![t].status = "Terminated", ![t].suspended = FALSE,
                      ![t].aborted = FALSE, ![t].wait = NoWait,
                      ![t].sleep = FALSE]
  /\ ready' = ready \ {t}
  /\ waiting' = Unlink(waiting, t)
  /\ current' = t
  /\ IF t \in Joinable
     THEN SignalObject(t, Unlink(waiting, t))
     ELSE DestroyInstance(t) /\ UNCHANGED signaled
-----------------------------------------------------------------------------
Running(t) == pc = "run" /\ current = t

(* The program of t may make its next call: no exception is on its way, and *)
(* there is a frame to run.                                                *)
Calls(t) == Running(t) /\ ~th[t].exception /\ th[t].call = NoCall

(* ScheduleThreads picks a ready thread.  The native it was blocked in     *)
(* returns, unless an exception unwinds it.                                *)
Dispatch(t) ==
  /\ pc = "idle" /\ t \in ready
  /\ current' = t /\ pc' = "run"
  /\ IF th[t].exception \/ th[t].call = Exited
     THEN UNCHANGED <<th, entered>>
     ELSE /\ th' = [th EXCEPT ![t].call = NoCall, ![t].result = INIT]
          /\ entered' = IF th[t].call.fn = "Enter"
                        THEN [entered EXCEPT ![t][th[t].call.obj] = @ + 1]
                        ELSE entered
  /\ UNCHANGED <<ready, waiting, cursor, signaled, locks, depth, requests>>

(* The quantum expires, or the thread yields (Sleep(0), set_Priority).     *)
Preempt(t) ==
  /\ Calls(t)
  /\ Leave(th[t])
  /\ UNCHANGED <<signaled, monitors>>

(* The thread procedure returns, or no handler catches the exception.      *)
Exit(t) ==
  /\ Running(t)
  /\ Passivate(t)
  /\ entered' = [entered EXCEPT ![t] = [o \in Object |-> 0]]
  /\ UNCHANGED <<locks, depth, requests>>

(* A handler catches the exception: the frames above it are popped.        *)
Catch(t) ==
  /\ Running(t) /\ th[t].exception /\ th[t].call # Exited
  /\ th' = [th EXCEPT ![t].exception = FALSE, ![t].call = NoCall, ![t].result = INIT]
  /\ UNCHANGED <<engine, signaled, monitors>>

(* CEE_LEAVE at the end of a handler of an aborted thread raises the       *)
(* exception again.                                                        *)
Reraise(t) ==
  /\ Calls(t) /\ th[t].aborted
  /\ th' = [th EXCEPT ![t].exception = TRUE]
  /\ UNCHANGED <<engine, signaled, monitors>>

(* Thread.Start. *)
Start(t, u) ==
  /\ Calls(t) /\ th[u].status = "Unstarted"
  /\ PutInProperList(th, u, [th[u] EXCEPT !.status = "Ready"])
  /\ signaled' = signaled \ {u}
  /\ UNCHANGED <<current, pc, cursor, monitors>>

(* Mutant of Started: a thread that has terminated is not told apart.      *)
StartedOnce(u) == u \in Joinable /\ th[u].status # "Unstarted"

(* GetThread finds a thread that the natives may operate on. *)
Started(u) == u \in Joinable /\ th[u].status \notin {"Unstarted", "Terminated"}

(* Thread.Suspend.  A thread that suspends itself is rescheduled. *)
Suspend(t, u) ==
  /\ Calls(t) /\ Started(u) /\ ~th[u].suspended
  /\ IF u = t
     THEN Leave([th[u] EXCEPT !.suspended = TRUE])
     ELSE /\ PutInProperList(th, u, [th[u] EXCEPT !.suspended = TRUE])
          /\ UNCHANGED <<current, pc, cursor>>
  /\ UNCHANGED <<signaled, monitors>>

(* Mutant of Resume: the thread stays in its list. *)
ResumeInPlace(t, u) ==
  /\ Calls(t) /\ Started(u) /\ th[u].suspended
  /\ th' = [th EXCEPT ![u].suspended = FALSE]
  /\ UNCHANGED <<engine, signaled, monitors>>

(* Thread.Resume. *)
Resume(t, u) ==
  /\ Calls(t) /\ Started(u) /\ th[u].suspended
  /\ PutInProperList(th, u, [th[u] EXCEPT !.suspended = FALSE])
  /\ UNCHANGED <<current, pc, cursor, signaled, monitors>>

(* Mutant of Abort: the requests of u are no longer counted. *)
AbortUncounted(t, u) ==
  /\ Calls(t) /\ Started(u) /\ u # t
  /\ Restart([th EXCEPT ![u].exception = TRUE, ![u].aborted = TRUE,
                        ![u].count = 0], u, TRUE)
  /\ UNCHANGED <<current, pc, cursor, signaled, monitors>>

(* Thread.Abort.  The lock requests of u stay where they are. *)
Abort(t, u) ==
  /\ Calls(t) /\ Started(u) /\ u # t
  /\ Restart([th EXCEPT ![u].exception = TRUE, ![u].aborted = TRUE], u, TRUE)
  /\ UNCHANGED <<current, pc, cursor, signaled, monitors>>

(* Thread.Sleep; it may be Timeout.Infinite. *)
Sleep(t) ==
  /\ Calls(t)
  /\ \E finite \in BOOLEAN :
       Leave([th[t] EXCEPT !.status = "Waiting", !.sleep = finite,
                           !.call = Calling("Sleep")])
  /\ UNCHANGED <<signaled, monitors>>
-----------------------------------------------------------------------------
(* Mutants of OneRequestLess: the thread is not restarted; the count is not *)
(* decremented.                                                            *)
OneRequestLessAsleep(u) ==
  th' = [th EXCEPT ![u].count = @ - 1] /\ UNCHANGED <<ready, waiting>>
OneRequestKept(u) == Restart(th, u, FALSE)

(* ChangeLockRequestCount(-1) of thread u. *)
OneRequestLess(u) ==
  LET s == [th EXCEPT ![u].count = @ - 1]
  IN IF s[u].count = 0
     THEN Restart(s, u, FALSE)
     ELSE th' = [s EXCEPT ![u].status = "Waiting"] /\ UNCHANGED <<ready, waiting>>

(* m_owningThread of the lock of o. *)
Owner(o) ==
  IF \E t \in Thread : o \in Nodes(locks[t])
  THEN CHOOSE t \in Thread : o \in Nodes(locks[t])
  ELSE Nobody

(* The queued lock requests, and the thread that made one. *)
Requests == UNION {{<<o, i>> : i \in 1 .. Len(requests[o])} : o \in Object}
RequestOf(r) == requests[r[1]][r[2]]

(* Mutant of ChangeOwner: the thread that asked first may go on, but the   *)
(* lock is not linked to its m_locks.                                      *)
ChangeOwnerUnlinked(t, o) ==
  /\ locks' = [locks EXCEPT ![t] = Unlink(@, o)]
  /\ IF requests[o] = <<>>
     THEN depth' = [depth EXCEPT ![o] = 0] /\ UNCHANGED <<requests, th, ready, waiting>>
     ELSE /\ OneRequestLess(Head(requests[o]))
          /\ depth' = [depth EXCEPT ![o] = 1]
          /\ requests' = [requests EXCEPT ![o] = Tail(@)]

(* CLR_RT_HeapBlock_Lock::ChangeOwner of the lock of o, which t owns: the  *)
(* first request gets it, or nobody has it.                                *)
ChangeOwner(t, o) ==
  LET rest == [locks EXCEPT ![t] = Unlink(@, o)]
  IN IF requests[o] = <<>>
     THEN /\ locks' = rest
          /\ depth' = [depth EXCEPT ![o] = 0]
          /\ UNCHANGED <<requests, th, ready, waiting>>
     ELSE /\ OneRequestLess(Head(requests[o]))
          /\ locks' = [rest EXCEPT ![Head(requests[o])] = LinkAtBack(@, o)]
          /\ depth' = [depth EXCEPT ![o] = 1]
          /\ requests' = [requests EXCEPT ![o] = Tail(@)]

(* Monitor.Enter: LockObject takes a free lock, enters its own again, or   *)
(* links a request at the back and blocks.                                 *)
MonitorEnter(t, o) ==
  /\ Calls(t)
  /\ IF Owner(o) \in {Nobody, t}
     THEN /\ depth[o] < MaxDepth
          /\ locks' = IF Owner(o) = t THEN locks
                      ELSE [locks EXCEPT ![t] = LinkAtBack(@, o)]
          /\ depth' = [depth EXCEPT ![o] = @ + 1]
          /\ entered' = [entered EXCEPT ![t][o] = @ + 1]
          /\ UNCHANGED <<th, engine, requests>>
     ELSE /\ th[t].count < MaxRequests
          /\ requests' = [requests EXCEPT ![o] = Append(@, t)]
          /\ Leave([th[t] EXCEPT !.count = @ + 1, !.status = "Waiting",
                                 !.call = Entering(o)])
          /\ UNCHANGED <<locks, depth, entered>>
  /\ UNCHANGED signaled

(* Mutant of MonitorExit: the recursion is not counted down first. *)
MonitorExitAtOnce(t, o) ==
  /\ Calls(t) /\ Owner(o) = t
  /\ entered' = [entered EXCEPT ![t][o] = IF @ = 0 THEN 0 ELSE @ - 1]
  /\ ChangeOwner(t, o)
  /\ UNCHANGED <<current, pc, cursor, signaled>>

(* Monitor.Exit.  It fails, and changes nothing, unless t owns the lock.   *)
MonitorExit(t, o) ==
  /\ Calls(t) /\ Owner(o) = t
  /\ entered' = [entered EXCEPT ![t][o] = IF @ = 0 THEN 0 ELSE @ - 1]
  /\ IF depth[o] > 1
     THEN /\ depth' = [depth EXCEPT ![o] = @ - 1]
          /\ UNCHANGED <<th, ready, waiting, locks, requests>>
     ELSE ChangeOwner(t, o)
  /\ UNCHANGED <<current, pc, cursor, signaled>>
-----------------------------------------------------------------------------
(* TryWaitForSignal: would these handles satisfy a wait now, which signals *)
(* does it consume, and what does it return?                               *)
Satisfied(w, set) ==
  IF w.all THEN Nodes(w.handles) \subseteq set
           ELSE Nodes(w.handles) \cap set # {}
FirstSignaled(w) ==
  LET p == CHOOSE p \in 1 .. Len(w.handles) :
             /\ w.handles[p] \in signaled
             /\ \A q \in 1 .. p - 1 : w.handles[q] \notin signaled
  IN w.handles[p]
Consumed(w) ==
  AutoReset \cap (IF w.all THEN Nodes(w.handles) ELSE {FirstSignaled(w)})
Result(w) == IF w.all THEN HANDLE_ALL ELSE FirstSignaled(w)

(* WaitForSignal of the current thread: consume the signals, or block.     *)
WaitForSignal(t, w) ==
  IF Satisfied(w, signaled)
  THEN /\ signaled' = signaled \ Consumed(w)
       /\ UNCHANGED <<th, engine>>
  ELSE /\ Leave([th[t] EXCEPT !.wait = w, !.status = "Waiting",
                              !.result = INIT, !.call = Calling("Wait")])
       /\ UNCHANGED signaled

(* WaitHandle.WaitOne, WaitAny and WaitAll. *)
Wait(t) ==
  /\ Calls(t)
  /\ \E hs \in WaitList \cap Seq(Handle), all, finite \in BOOLEAN :
       WaitForSignal(t, [handles |-> hs, all |-> all, finite |-> finite])
  /\ UNCHANGED monitors

(* Thread.Join. *)
Join(t, u) ==
  /\ Calls(t) /\ Started(u) /\ u # t /\ <<u>> \in WaitList
  /\ \E finite \in BOOLEAN :
       WaitForSignal(t, [handles |-> <<u>>, all |-> FALSE, finite |-> finite])
  /\ UNCHANGED monitors

(* AutoResetEvent.Set and ManualResetEvent.Set. *)
Set(t, h) ==
  /\ Calls(t)
  /\ SignalObject(h, waiting)
  /\ UNCHANGED <<th, ready, waiting, current, monitors>>

(* AutoResetEvent.Reset and ManualResetEvent.Reset. *)
Reset(t, h) ==
  /\ Calls(t) /\ h \in signaled
  /\ signaled' = signaled \ {h}
  /\ UNCHANGED <<th, engine, monitors>>

(* Mutant of SignalNext: the loop ends with the first thread it releases.  *)
SignalFirst ==
  /\ pc = "signal" /\ cursor.at # Nobody
  /\ LET t == cursor.at
         w == th[t].wait
     IN IF w # NoWait /\ Satisfied(w, signaled)
        THEN /\ signaled' = signaled \ Consumed(w)
             /\ Restart([th EXCEPT ![t].result = Result(w)], t, TRUE)
             /\ cursor' = [cursor EXCEPT !.at = Nobody]
        ELSE /\ cursor' = [cursor EXCEPT !.at = Successor(waiting, t)]
             /\ UNCHANGED <<th, ready, waiting, signaled>>
  /\ UNCHANGED <<current, pc, monitors>>

(* One iteration of the loop of SignalObject.  The next node was read      *)
(* before the current one moves.                                           *)
SignalNext ==
  /\ pc = "signal" /\ cursor.at # Nobody
  /\ LET t == cursor.at
         w == th[t].wait
         next == Successor(waiting, t)
     IN /\ IF w # NoWait /\ Satisfied(w, signaled)
           THEN /\ signaled' = signaled \ Consumed(w)
                /\ Restart([th EXCEPT ![t].result = Result(w)], t, TRUE)
           ELSE UNCHANGED <<th, ready, waiting, signaled>>
        /\ cursor' = [cursor EXCEPT
             !.at = IF cursor.handle \in signaled' THEN next ELSE Nobody]
  /\ UNCHANGED <<current, pc, monitors>>

(* SignalObject returns to Set, or to Passivate. *)
SignalEnd ==
  /\ pc = "signal" /\ cursor.at = Nobody
  /\ IF th[current].status = "Terminated"
     THEN DestroyInstance(current)
     ELSE pc' = "run" /\ cursor' = [cursor EXCEPT !.handle = Nobody]
  /\ UNCHANGED <<th, ready, waiting, current, signaled, monitors>>
-----------------------------------------------------------------------------
(* One iteration of that loop: DestroyOwner of one lock.  The next node was   *)
(* read before the lock moves.                                             *)
DestroyOwner ==
  /\ pc = "release" /\ cursor.at # Nobody
  /\ ChangeOwner(current, cursor.at)
  /\ cursor' = [cursor EXCEPT !.at = Successor(locks[current], cursor.at)]
  /\ UNCHANGED <<current, pc, signaled, entered>>

(* The rest of DestroyInstance and of Passivate.  DeleteLockRequests looks *)
(* at the locks of ready and waiting threads; when it has deleted the last *)
(* request, ChangeLockRequestCount restarts the thread.                    *)
DeleteLockRequests ==
  /\ pc = "release" /\ cursor.at = Nobody
  /\ LET searched == IF th[current].call = Exited THEN {}
                     ELSE {o \in Object : Owner(o) \in ready \cup Nodes(waiting)}
         found == {r \in Requests : r[1] \in searched /\ RequestOf(r) = current}
         left == th[current].count - Cardinality(found)
         s == [th EXCEPT ![current].count = left, ![current].exception = FALSE,
                         ![current].call = Exited]
     IN /\ requests' = [o \in Object |->
                          IF o \in searched
                          THEN Keep(requests[o], {i \in 1 .. Len(requests[o]) :
                                                    requests[o][i] # current})
                          ELSE requests[o]]
        /\ IF found = {}
           THEN th' = s /\ UNCHANGED <<ready, waiting>>
           ELSE IF left = 0
           THEN Restart(s, current, FALSE)
           ELSE th' = [s EXCEPT ![current].status = "Waiting"] /\ UNCHANGED <<ready, waiting>>
  /\ current' = Nobody /\ pc' = "idle"
  /\ UNCHANGED <<cursor, signaled, locks, depth, entered>>

(* Mutant of CheckThreads: a wait that expires leaves its result alone.    *)
CheckThreadsSilently(t) ==
  /\ pc = "idle" /\ t \in ready \cup Nodes(waiting)
  /\ ~th[t].suspended /\ th[t].wait.finite
  /\ Restart(th, t, TRUE)
  /\ UNCHANGED <<current, pc, cursor, signaled, monitors>>

(* CheckThreads finds that the sleep or the wait of t has expired. *)
CheckThreads(t) ==
  /\ pc = "idle" /\ t \in ready \cup Nodes(waiting)
  /\ ~th[t].suspended
  /\ \/ /\ th[t].sleep
        /\ Restart([th EXCEPT ![t].sleep = FALSE], t, FALSE)
     \/ /\ th[t].wait.finite
        /\ Restart([th EXCEPT ![t].result = TIMEOUT], t, TRUE)
  /\ UNCHANGED <<current, pc, cursor, signaled, monitors>>

(* The debugger kills a thread (CLR_RT_Thread::Terminate). *)
Terminate(t) ==
  /\ pc = "idle" /\ t \in ready \cup Nodes(waiting)
  /\ Passivate(t)
  /\ entered' = [entered EXCEPT ![t] = [o \in Object |-> 0]]
  /\ UNCHANGED <<locks, depth, requests>>
-----------------------------------------------------------------------------
(* The calls the program of a thread makes. *)
Program(t) ==
  \/ Preempt(t) \/ Exit(t) \/ Catch(t) \/ Reraise(t) \/ Sleep(t) \/ Wait(t)
  \/ \E u \in Thread :
       Start(t, u) \/ Suspend(t, u) \/ Resume(t, u) \/ Abort(t, u) \/ Join(t, u)
  \/ \E o \in Object : MonitorEnter(t, o) \/ MonitorExit(t, o)
  \/ \E h \in Handle : Set(t, h) \/ Reset(t, h)

(* What the engine does on its own until a call is over. *)
Native == \/ SignalNext \/ SignalEnd
          \/ DestroyOwner \/ DeleteLockRequests

Next == \/ \E t \in Thread : Dispatch(t) \/ Program(t) \/ CheckThreads(t) \/ Terminate(t)
        \/ Native

Spec == Init /\ [][Next]_vars /\ WF_vars(Native)
-----------------------------------------------------------------------------
Live(t) == th[t].status \notin {"Unstarted", "Terminated"}

TypeOK ==
  /\ th \in [Thread ->
       [status : {"Unstarted", "Ready", "Waiting", "Terminated"},
        suspended : BOOLEAN, aborted : BOOLEAN, exception : BOOLEAN,
        count : 0 .. MaxRequests,
        wait : [handles : {<<>>} \cup WaitList,
                all : BOOLEAN, finite : BOOLEAN],
        result : {INIT, TIMEOUT, HANDLE_ALL} \cup Waitable, sleep : BOOLEAN,
        call : {NoCall, Exited, Calling("Sleep"), Calling("Wait")}
               \cup {Entering(o) : o \in Object}]]
  /\ ready \subseteq Thread
  /\ waiting \in Seq(Thread)
  /\ current \in Thread \cup {Nobody}
  /\ pc \in {"idle", "run", "signal", "release"}
  /\ cursor \in [handle : Waitable \cup {Nobody},
                 at : Thread \cup Object \cup {Nobody}]
  /\ signaled \subseteq Waitable
  /\ locks \in [Thread -> Seq(Object)]
  /\ depth \in [Object -> 0 .. MaxDepth]
  /\ requests \in [Object -> Seq(Thread)]
  /\ entered \in [Thread -> [Object -> Nat]]

(* A thread is in one list of the engine at most, and in the list its state *)
(* says.  In particular a suspended thread is never scheduled, however many *)
(* grants, signals and aborts reach it.                                    *)
ListsAgree ==
  /\ Distinct(waiting) /\ ready \cap Nodes(waiting) = {}
  /\ \A t \in Thread :
       /\ t \in ready => ~th[t].suspended
       /\ t \in Nodes(waiting) => th[t].suspended \/ th[t].status = "Waiting"
       /\ th[t].status \in {"Unstarted", "Terminated"} => t \notin ready \cup Nodes(waiting)

(* m_lockRequestsCount, on which Restart depends, counts the requests of the *)
(* thread that are queued, and only a lock that somebody owns has requests: *)
(* grants, kills and aborts keep the two apart pieces in step.             *)
CountsAgree ==
  /\ \A t \in Thread : th[t].count = Cardinality({r \in Requests : RequestOf(r) = t})
  /\ \A o \in Object : /\ Owner(o) = Nobody => requests[o] = <<>>
                       /\ depth[o] = 0 <=> Owner(o) = Nobody
  /\ \A t, u \in Thread : t # u => Nodes(locks[t]) \cap Nodes(locks[u]) = {}

(* Mutual exclusion as programs see it: whoever has come out of Enter more *)
(* often than it has called Exit owns the lock, so many times over.  Enter *)
(* does not look again when it is resumed.                                 *)
MutualExclusion ==
  \A t \in Thread, o \in Object :
    entered[t][o] > 0 => Owner(o) = t /\ depth[o] >= entered[t][o]

(* No lost wake-up: a thread blocked in Enter has a request in the queue or  *)
(* has been made Ready, and a thread blocked on handles still has its wait *)
(* object, whatever suspended, resumed or signalled it meanwhile.          *)
StillAwaited ==
  \A t \in Nodes(waiting) : th[t].status = "Waiting" /\ th[t].count = 0 =>
    CASE th[t].call.fn = "Enter" -> FALSE
      [] th[t].call.fn = "Wait" -> th[t].wait # NoWait
      [] OTHER -> TRUE

(* No missed signal: between calls no thread still waits whose handles     *)
(* satisfy its wait, although the loop of SignalObject moves the nodes of  *)
(* the list it walks.                                                      *)
NoMissedSignal ==
  pc \in {"idle", "run"} =>
    \A t \in Nodes(waiting) :
      th[t].wait # NoWait /\ th[t].status = "Waiting" /\ th[t].result = INIT
        => ~Satisfied(th[t].wait, signaled)

(* Wait returns because it was satisfied or timed out, except in a thread  *)
(* that was aborted while it waited for a lock.                            *)
WaitSatisfied ==
  pc \in {"idle", "run"} => \A t \in ready :
    th[t].call.fn = "Wait" /\ ~th[t].exception => th[t].result # INIT \/ th[t].aborted

(* A thread that has terminated stays terminated, unless it was killed or  *)
(* ended with a request for a lock still queued: deleting the last request *)
(* restarts it.                                                            *)
StaysTerminated ==
  [][\A t \in Thread :
       th[t].status = "Terminated" /\ th'[t].status # "Terminated"
         => th[t].count > 0 /\ th'[t].count < th[t].count]_vars

(* SignalObject releases a thread once, also over several calls: only one  *)
(* that is suspended, or that was aborted while it waited for a lock, stays *)
(* in the list with its wait object and can be met and released again.     *)
ReleasedOnce ==
  [][\A t \in Thread :
       SignalNext /\ cursor.at = t /\ th[t].wait # NoWait /\ Satisfied(th[t].wait, signaled)
         => th[t].result = INIT \/ th[t].suspended \/ th[t].aborted]_vars
=============================================================================
