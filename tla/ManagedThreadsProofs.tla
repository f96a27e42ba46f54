------------------------ MODULE ManagedThreadsProofs ------------------------
(***************************************************************************)
(* For any threads, locks and handles: the lists of the engine, and what   *)
(* the monitor locks and the wait handles promise, whatever is granted,    *)
(* signalled, aborted or killed.                                           *)
(*                                                                         *)
(* First the lists (ListsCorrect): nothing is needed of locks, requests    *)
(* and handles for them, not even that a request is one of a thread.  Then *)
(* what a step can do to one thread (Steps), and the invariant of its      *)
(* fields that follows (Fates): what a thread waits for, where it is in    *)
(* its natives, and what is left of it once Passivate is through with it.  *)
(* Last the locks, the waits and the theorems.  The inductive invariant    *)
(* ThreadsInv has these parts:                                             *)
(*   Base       types, lists, cursors, and that m_lockRequestsCount of a   *)
(*              thread is the number of its requests: a step moves the     *)
(*              requests along a bijection to those after it, but for the  *)
(*              one it takes or makes;                                     *)
(*   LocksInv   a lock is in the m_locks of one thread at most, and one    *)
(*              that is in none is free and has no requests;               *)
(*   Fates,     what the fields of a thread say of where it is,            *)
(*   Parked     and that only a waiting thread has a wait object;          *)
(*   Held       who is inside a lock owns it, who is on its way out of     *)
(*              Enter owns it once more than that or is in the queue, and  *)
(*              a thread without a program is inside none;                 *)
(*   Signals    SignalObject has left behind it no thread that waits for   *)
(*              what is signaled, and nobody waits for what had been       *)
(*              signaled before;                                           *)
(*   Bounded    the bounds of the counters.                                *)
(* Only together are they inductive: Held needs the counts, because a      *)
(* thread comes out of Enter when its count is 0, and the counts need      *)
(* LocksInv, because Monitor.Enter must not queue a second owner.          *)
(***************************************************************************)
EXTENDS ManagedThreads, DblLinkedListProofs, FunctionTheorems

USE ThreadsAssumption

(* A list of whatever nodes. *)
IsList(s) == s \in Seq(Nodes(s))

(* The fields that PutInProperList looks at are there. *)
Fields(f) ==
  /\ DOMAIN f = Thread
  /\ \A t \in Thread : /\ {"status", "suspended"} \subseteq DOMAIN f[t]
                       /\ f[t].suspended \in BOOLEAN

Alive == {"Ready", "Waiting"}

(* The status that PutInProperList expects of a thread is one with which   *)
(* it belongs into a list; the current thread is put into one when it      *)
(* leaves the processor.                                                   *)
CurrentAlive ==
  /\ pc # "idle" => current \in Thread /\ th[current].status \in Alive \cup {"Terminated"}
  /\ pc = "run" => th[current].status \in Alive

Statuses == \A t \in Thread : th[t].status \in Alive \cup {"Unstarted", "Terminated"}

IInv == Fields(th) /\ Statuses /\ IsList(waiting) /\ ListsAgree /\ CurrentAlive

----------------------------------------------------------------------------
LEMMA Lists ==
  ASSUME NEW T, NEW s \in Seq(T)
  PROVE  IsList(s)
<1>1. Len(s) \in Nat /\ s \in [1..Len(s) -> T] /\ DOMAIN s = 1..Len(s)
  BY LenProperties
<1>2. s \in [1..Len(s) -> Nodes(s)]
  BY <1>1 DEF Nodes
<1>3. QED
  BY <1>1, <1>2, SeqDef DEF IsList

LEMMA Unlinked ==
  ASSUME NEW s, NEW e, IsList(s), Distinct(s)
  PROVE  /\ IsList(Unlink(s, e)) /\ Distinct(Unlink(s, e))
         /\ Nodes(Unlink(s, e)) = Nodes(s) \ {e}
<1>1. /\ Unlink(s, e) \in Seq(Nodes(s)) /\ Distinct(Unlink(s, e))
      /\ Nodes(Unlink(s, e)) = Nodes(s) \ {e}
  BY UnlinkNodes DEF IsList
<1>2. IsList(Unlink(s, e))
  BY <1>1, Lists
<1>3. QED
  BY <1>1, <1>2

LEMMA LinkedAtBack ==
  ASSUME NEW s, NEW e, IsList(s), Distinct(s), e \notin Nodes(s)
  PROVE  /\ IsList(LinkAtBack(s, e)) /\ Distinct(LinkAtBack(s, e))
         /\ Nodes(LinkAtBack(s, e)) = Nodes(s) \cup {e}
<1>1. s \in Seq(Nodes(s) \cup {e})
  BY DEF IsList
<1>2. QED
  BY <1>1, BackNodes DEF IsList

(* PutInProperList keeps the lists right when it is given a thread that is *)
(* neither new nor dead, or something that is no thread; th' differs from  *)
(* th in fields that the lists do not depend on, but for the thread t.     *)
LEMMA ProperList ==
  ASSUME IInv, NEW s, NEW t, NEW r, PutInProperList(s, t, r),
         Fields(s),
         \A u \in Thread \ {t} : s[u].status = th[u].status /\ s[u].suspended = th[u].suspended,
         t \in Thread => /\ {"status", "suspended"} \subseteq DOMAIN r
                         /\ r.suspended \in BOOLEAN /\ r.status \in Alive
  PROVE  /\ Fields(th') /\ Statuses' /\ IsList(waiting') /\ ListsAgree'
         /\ t \in Thread => th'[t].status = r.status
         /\ \A u \in Thread \ {t} : th'[u].status = th[u].status
<1>1. IsList(waiting) /\ Distinct(waiting) /\ ready \cap Nodes(waiting) = {}
  BY DEF IInv, ListsAgree
<1>2. /\ IsList(Unlink(waiting, t)) /\ Distinct(Unlink(waiting, t))
      /\ Nodes(Unlink(waiting, t)) = Nodes(waiting) \ {t}
  BY <1>1, Unlinked
<1>3. LET back == LinkAtBack(Unlink(waiting, t), t)
      IN IsList(back) /\ Distinct(back) /\ Nodes(back) = Nodes(waiting) \cup {t}
  BY <1>2, LinkedAtBack
<1>4. CASE r.status = "Ready" /\ ~r.suspended
  <2>1. th' = [s EXCEPT ![t] = Woken(r)] /\ ready' = ready \cup {t}
        /\ waiting' = Unlink(waiting, t)
    BY <1>4 DEF PutInProperList
  <2>2. t \in Thread => /\ {"status", "suspended"} \subseteq DOMAIN Woken(r)
                        /\ Woken(r).status = r.status /\ Woken(r).suspended = r.suspended
    BY DEF Woken
  <2>3. DOMAIN th' = Thread /\ \A u \in Thread : th'[u] = IF u = t THEN Woken(r) ELSE s[u]
    BY <2>1 DEF Fields
  <2>4. Fields(th')
    BY <2>2, <2>3 DEF Fields
  <2>5. /\ t \in Thread => th'[t].status = r.status /\ th'[t].suspended = r.suspended
        /\ \A u \in Thread \ {t} : /\ th'[u].status = th[u].status
                                   /\ th'[u].suspended = th[u].suspended
    BY <2>2, <2>3
  <2>6. Statuses'
    BY <2>5 DEF IInv, Statuses
  <2>7. ListsAgree'
    BY <1>1, <1>2, <1>4, <2>1, <2>5 DEF IInv, ListsAgree
  <2>8. QED
    BY <1>2, <2>1, <2>4, <2>5, <2>6, <2>7
<1>5. CASE ~(r.status = "Ready" /\ ~r.suspended)
  <2>1. th' = [s EXCEPT ![t] = r] /\ ready' = ready \ {t}
        /\ waiting' = LinkAtBack(Unlink(waiting, t), t)
    BY <1>5 DEF PutInProperList
  <2>2. DOMAIN th' = Thread /\ \A u \in Thread : th'[u] = IF u = t THEN r ELSE s[u]
    BY <2>1 DEF Fields
  <2>3. Fields(th')
    BY <2>2 DEF Fields
  <2>4. /\ t \in Thread => th'[t].status = r.status /\ th'[t].suspended = r.suspended
        /\ \A u \in Thread \ {t} : /\ th'[u].status = th[u].status
                                   /\ th'[u].suspended = th[u].suspended
    BY <2>2
  <2>5. Statuses'
    BY <2>4 DEF IInv, Statuses
  <2>6. t \in Thread => r.suspended \/ r.status = "Waiting"
    BY <1>5 DEF Alive
  <2>7. ListsAgree'
    BY <1>1, <1>3, <2>1, <2>4, <2>6 DEF IInv, ListsAgree, Alive
  <2>8. QED
    BY <1>3, <2>1, <2>3, <2>4, <2>5, <2>7
<1>6. QED
  BY <1>4, <1>5

----------------------------------------------------------------------------
(* What a step that leaves the thread lists alone may change. *)
LEMMA ListsUnchanged ==
  ASSUME IInv, UNCHANGED <<ready, waiting>>, Fields(th'),
         \A t \in Thread : /\ th'[t].suspended = th[t].suspended
                           /\ \/ th'[t].status = th[t].status
                              \/ th'[t].status = "Waiting"
  PROVE  Statuses' /\ IsList(waiting') /\ ListsAgree'
<1>1. IsList(waiting) /\ Distinct(waiting) /\ ready \cap Nodes(waiting) = {}
  BY DEF IInv, ListsAgree
<1>2. Statuses'
  BY DEF IInv, Statuses, Alive
<1>3. ListsAgree'
  BY <1>1 DEF IInv, ListsAgree
<1>4. QED
  BY <1>1, <1>2, <1>3

LEMMA Restarted ==
  ASSUME IInv, NEW s, NEW t, NEW d, Restart(s, t, d), Fields(s),
         \A u \in Thread : s[u].status = th[u].status /\ s[u].suspended = th[u].suspended
  PROVE  /\ Fields(th') /\ Statuses' /\ IsList(waiting') /\ ListsAgree'
         /\ t \in Thread => th'[t].status = "Ready"
         /\ \A u \in Thread \ {t} : th'[u].status = th[u].status
<1> DEFINE r == [s[t] EXCEPT !.status = "Ready", !.sleep = @ /\ ~d]
<1>1. PutInProperList(s, t, r)
  BY DEF Restart
<1>2. t \in Thread => /\ {"status", "suspended"} \subseteq DOMAIN r
                      /\ r.suspended \in BOOLEAN /\ r.status = "Ready" /\ r.status \in Alive
  BY DEF Fields, Alive
<1> HIDE DEF r
<1>3. /\ Fields(th') /\ Statuses' /\ IsList(waiting') /\ ListsAgree'
      /\ t \in Thread => th'[t].status = r.status
      /\ \A u \in Thread \ {t} : th'[u].status = th[u].status
  BY <1>1, <1>2, ProperList
<1>4. QED
  BY <1>2, <1>3

(* A status never becomes that of a new thread, and only Passivate makes   *)
(* it that of a dead one.                                                  *)
LEMMA StillAlive ==
  ASSUME IInv, \A t \in Thread : th'[t].status = th[t].status \/ th'[t].status \in Alive
  PROVE  UNCHANGED <<current, pc>> => CurrentAlive'
BY DEF IInv, CurrentAlive

LEMMA LeaveKeeps ==
  ASSUME IInv, NEW r, Leave(r), {"status", "suspended"} \subseteq DOMAIN r,
         r.suspended \in BOOLEAN, r.status \in Alive
  PROVE  IInv'
<1>1. PutInProperList(th, current, r) /\ pc' = "idle" /\ Fields(th)
  BY DEF Leave, IInv
<1>2. Fields(th') /\ Statuses' /\ IsList(waiting') /\ ListsAgree'
  BY <1>1, ProperList
<1>3. CurrentAlive'
  BY <1>1 DEF CurrentAlive
<1>4. QED
  BY <1>2, <1>3 DEF IInv

LEMMA RestartKeeps ==
  ASSUME IInv, NEW s, NEW t, NEW d, Restart(s, t, d), Fields(s), UNCHANGED <<current, pc>>,
         \A u \in Thread : s[u].status = th[u].status /\ s[u].suspended = th[u].suspended
  PROVE  IInv'
<1>1. /\ Fields(th') /\ Statuses' /\ IsList(waiting') /\ ListsAgree'
      /\ t \in Thread => th'[t].status = "Ready"
      /\ \A u \in Thread \ {t} : th'[u].status = th[u].status
  BY Restarted
<1>2. CurrentAlive'
  BY <1>1, StillAlive DEF Alive
<1>3. QED
  BY <1>1, <1>2 DEF IInv

(* The grant of a lock, to whomever. *)
LEMMA OneRequestLessKeeps ==
  ASSUME IInv, NEW u, OneRequestLess(u)
  PROVE  /\ Fields(th') /\ Statuses' /\ IsList(waiting') /\ ListsAgree'
         /\ \A t \in Thread : th'[t].status = th[t].status \/ th'[t].status \in Alive
<1> DEFINE s == [th EXCEPT ![u].count = @ - 1]
<1>1. Fields(s) /\ \A t \in Thread : /\ s[t].status = th[t].status
                                      /\ s[t].suspended = th[t].suspended
  BY DEF IInv, Fields
<1>2. CASE s[u].count = 0
  <2>1. Restart(s, u, FALSE)
    BY <1>2 DEF OneRequestLess
  <2> HIDE DEF s
  <2>2. QED
    BY <1>1, <2>1, Restarted DEF Alive
<1>3. CASE s[u].count # 0
  <2>1. th' = [s EXCEPT ![u].status = "Waiting"] /\ UNCHANGED <<ready, waiting>>
    BY <1>3 DEF OneRequestLess
  <2> HIDE DEF s
  <2>2. Fields(th') /\ \A t \in Thread : /\ th'[t].suspended = th[t].suspended
                                          /\ \/ th'[t].status = th[t].status
                                             \/ th'[t].status = "Waiting"
    BY <1>1, <2>1 DEF Fields
  <2>3. QED
    BY <2>1, <2>2, ListsUnchanged DEF Alive
<1>4. QED
  BY <1>2, <1>3

LEMMA ChangeOwnerKeeps ==
  ASSUME IInv, NEW t, NEW o, ChangeOwner(t, o), UNCHANGED <<current, pc>>
  PROVE  IInv'
<1>1. CASE UNCHANGED <<th, ready, waiting>>
  BY <1>1 DEF IInv, Fields, Statuses, IsList, ListsAgree, CurrentAlive
<1>2. CASE OneRequestLess(Head(requests[o]))
  <2>1. /\ Fields(th') /\ Statuses' /\ IsList(waiting') /\ ListsAgree'
        /\ \A v \in Thread : th'[v].status = th[v].status \/ th'[v].status \in Alive
    BY <1>2, OneRequestLessKeeps
  <2>2. CurrentAlive'
    BY <2>1, StillAlive
  <2>3. QED
    BY <2>1, <2>2 DEF IInv
<1>3. QED
  BY <1>1, <1>2 DEF ChangeOwner

LEMMA PassivateKeeps ==
  ASSUME IInv, NEW t \in Thread, Passivate(t)
  PROVE  IInv'
<1>1. /\ ready' = ready \ {t} /\ waiting' = Unlink(waiting, t) /\ current' = t
      /\ pc' \in {"signal", "release"}
  BY DEF Passivate, SignalObject, DestroyInstance
<1>2. th' = [th EXCEPT ![t].status = "Terminated", ![t].suspended = FALSE,
                       ![t].aborted = FALSE, ![t].wait = NoWait, ![t].sleep = FALSE]
  BY DEF Passivate
<1>3. /\ Fields(th') /\ th'[t].status = "Terminated"
      /\ \A u \in Thread \ {t} : th'[u] = th[u]
  BY <1>2 DEF IInv, Fields
<1>4. Statuses'
  BY <1>3 DEF IInv, Statuses
<1>5. IsList(waiting) /\ Distinct(waiting) /\ ready \cap Nodes(waiting) = {}
  BY DEF IInv, ListsAgree
<1>6. /\ IsList(waiting') /\ Distinct(waiting') /\ Nodes(waiting') = Nodes(waiting) \ {t}
  BY <1>1, <1>5, Unlinked
<1>7. ListsAgree'
  BY <1>1, <1>3, <1>5, <1>6 DEF IInv, ListsAgree
<1>8. CurrentAlive'
  BY <1>1, <1>3 DEF CurrentAlive
<1>9. QED
  BY <1>3, <1>4, <1>6, <1>7, <1>8 DEF IInv

LEMMA WaitKeeps ==
  ASSUME IInv, NEW t \in Thread, NEW w, Running(t), WaitForSignal(t, w)
  PROVE  IInv'
<1>1. CASE UNCHANGED <<th, engine>>
  BY <1>1 DEF engine, IInv, Fields, Statuses, IsList, ListsAgree, CurrentAlive
<1>2. CASE Leave([th[t] EXCEPT !.wait = w, !.status = "Waiting", !.result = INIT,
                               !.call = Calling("Wait")])
  <2> DEFINE r == [th[t] EXCEPT !.wait = w, !.status = "Waiting", !.result = INIT,
                                !.call = Calling("Wait")]
  <2>1. {"status", "suspended"} \subseteq DOMAIN r /\ r.suspended \in BOOLEAN
        /\ r.status \in Alive
    BY DEF IInv, Fields, Alive
  <2>2. Leave(r)
    BY <1>2
  <2> HIDE DEF r
  <2>3. QED
    BY <2>1, <2>2, LeaveKeeps
<1>3. QED
  BY <1>1, <1>2 DEF WaitForSignal

----------------------------------------------------------------------------
LEMMA ProgramKeeps ==
  ASSUME IInv, NEW t \in Thread, Program(t)
  PROVE  IInv'
<1>1. Running(t) /\ current = t /\ th[t].status \in Alive /\ Fields(th)
  BY DEF Program, Preempt, Exit, Catch, Reraise, Sleep, Wait, Start, Suspend, Resume, Abort,
         Join, MonitorEnter, MonitorExit, Set, Reset, Calls, Running, IInv, CurrentAlive
<1>2. /\ {"status", "suspended"} \subseteq DOMAIN th[t] /\ th[t].suspended \in BOOLEAN
  BY <1>1 DEF Fields
<1>3. CASE Preempt(t)
  <2>1. Leave(th[t])
    BY <1>3 DEF Preempt
  <2>2. QED
    BY <1>1, <1>2, <2>1, LeaveKeeps
<1>4. CASE Exit(t)
  BY <1>4, PassivateKeeps DEF Exit
<1>5. CASE Catch(t) \/ Reraise(t)
  <2>1. UNCHANGED <<ready, waiting, current, pc>>
    BY <1>5 DEF Catch, Reraise, engine
  <2>2. Fields(th') /\ \A u \in Thread : /\ th'[u].suspended = th[u].suspended
                                          /\ th'[u].status = th[u].status
    BY <1>1, <1>5 DEF Catch, Reraise, Fields
  <2>3. CurrentAlive'
    BY <2>1, <2>2, StillAlive
  <2>4. QED
    BY <2>1, <2>2, <2>3, ListsUnchanged DEF IInv
<1>6. CASE Sleep(t)
  <2>1. PICK finite \in BOOLEAN :
          Leave([th[t] EXCEPT !.status = "Waiting", !.sleep = finite,
                              !.call = Calling("Sleep")])
    BY <1>6 DEF Sleep
  <2> DEFINE r == [th[t] EXCEPT !.status = "Waiting", !.sleep = finite,
                                !.call = Calling("Sleep")]
  <2>2. {"status", "suspended"} \subseteq DOMAIN r /\ r.suspended \in BOOLEAN
        /\ r.status \in Alive
    BY <1>2 DEF Alive
  <2>3. Leave(r)
    BY <2>1
  <2> HIDE DEF r
  <2>4. QED
    BY <2>2, <2>3, LeaveKeeps
<1>7. CASE Wait(t)
  BY <1>1, <1>7, WaitKeeps DEF Wait
<1>8. ASSUME NEW u \in Thread, Start(t, u) PROVE IInv'
  <2> DEFINE r == [th[u] EXCEPT !.status = "Ready"]
  <2>1. PutInProperList(th, u, r) /\ UNCHANGED <<current, pc>> /\ th[u].status = "Unstarted"
    BY <1>8 DEF Start
  <2>2. {"status", "suspended"} \subseteq DOMAIN r /\ r.suspended \in BOOLEAN
        /\ r.status = "Ready" /\ r.status \in Alive
    BY <1>1 DEF Fields, Alive
  <2> HIDE DEF r
  <2>3. /\ Fields(th') /\ Statuses' /\ IsList(waiting') /\ ListsAgree'
        /\ th'[u].status = r.status
        /\ \A v \in Thread \ {u} : th'[v].status = th[v].status
    BY <1>1, <2>1, <2>2, ProperList
  <2>4. CurrentAlive'
    BY <2>1, <2>2, <2>3, StillAlive
  <2>5. QED
    BY <2>3, <2>4 DEF IInv
<1>9. ASSUME NEW u \in Thread, NEW on \in BOOLEAN, Started(u), UNCHANGED <<current, pc>>,
             PutInProperList(th, u, [th[u] EXCEPT !.suspended = on])
      PROVE  IInv'
  <2> DEFINE r == [th[u] EXCEPT !.suspended = on]
  <2>1. PutInProperList(th, u, r)
    BY <1>9
  <2>2. th[u].status \in Alive
    BY <1>9 DEF IInv, Statuses, Started
  <2>3. {"status", "suspended"} \subseteq DOMAIN r /\ r.suspended \in BOOLEAN
        /\ r.status = th[u].status
    BY <1>1 DEF Fields
  <2> HIDE DEF r
  <2>4. /\ Fields(th') /\ Statuses' /\ IsList(waiting') /\ ListsAgree'
        /\ th'[u].status = r.status
        /\ \A v \in Thread \ {u} : th'[v].status = th[v].status
    BY <1>1, <2>1, <2>2, <2>3, ProperList
  <2>5. CurrentAlive'
    BY <1>9, <2>2, <2>3, <2>4, StillAlive
  <2>6. QED
    BY <2>4, <2>5 DEF IInv
<1>10. ASSUME NEW u \in Thread, Suspend(t, u) PROVE IInv'
  <2>1. CASE u = t
    <3> DEFINE r == [th[t] EXCEPT !.suspended = TRUE]
    <3>1. Leave(r)
      BY <1>10, <2>1 DEF Suspend
    <3>2. {"status", "suspended"} \subseteq DOMAIN r /\ r.suspended \in BOOLEAN
          /\ r.status \in Alive
      BY <1>1, <1>2
    <3> HIDE DEF r
    <3>3. QED
      BY <3>1, <3>2, LeaveKeeps
  <2>2. CASE u # t
    BY <1>9, <1>10, <2>2 DEF Suspend
  <2>3. QED
    BY <2>1, <2>2
<1>11. ASSUME NEW u \in Thread, Resume(t, u) PROVE IInv'
  BY <1>9, <1>11 DEF Resume
<1>12. ASSUME NEW u \in Thread, Abort(t, u) PROVE IInv'
  <2> DEFINE s == [th EXCEPT ![u].exception = TRUE, ![u].aborted = TRUE]
  <2>1. Restart(s, u, TRUE) /\ UNCHANGED <<current, pc>>
    BY <1>12 DEF Abort
  <2>2. Fields(s) /\ \A v \in Thread : /\ s[v].status = th[v].status
                                        /\ s[v].suspended = th[v].suspended
    BY <1>1 DEF Fields
  <2> HIDE DEF s
  <2>3. QED
    BY <2>1, <2>2, RestartKeeps
<1>13. ASSUME NEW u \in Thread, Join(t, u) PROVE IInv'
  BY <1>1, <1>13, WaitKeeps DEF Join
<1>14. ASSUME NEW o \in Object, MonitorEnter(t, o) PROVE IInv'
  <2>1. CASE UNCHANGED <<th, engine>>
    BY <2>1 DEF engine, IInv, Fields, Statuses, IsList, ListsAgree, CurrentAlive
  <2> DEFINE r == [th[t] EXCEPT !.count = @ + 1, !.status = "Waiting", !.call = Entering(o)]
  <2>2. CASE Leave(r)
    <3>1. {"status", "suspended"} \subseteq DOMAIN r /\ r.suspended \in BOOLEAN
          /\ r.status \in Alive
      BY <1>2 DEF Alive
    <3> HIDE DEF r
    <3>2. QED
      BY <2>2, <3>1, LeaveKeeps
  <2>3. QED
    BY <1>14, <2>1, <2>2 DEF MonitorEnter
<1>15. ASSUME NEW o \in Object, MonitorExit(t, o) PROVE IInv'
  <2>1. CASE UNCHANGED <<th, ready, waiting, current, pc>>
    BY <2>1 DEF IInv, Fields, Statuses, IsList, ListsAgree, CurrentAlive
  <2>2. CASE ChangeOwner(t, o) /\ UNCHANGED <<current, pc>>
    BY <2>2, ChangeOwnerKeeps
  <2>3. QED
    BY <1>15, <2>1, <2>2 DEF MonitorExit
<1>16. ASSUME NEW h \in Handle, Set(t, h) \/ Reset(t, h) PROVE IInv'
  <2>1. UNCHANGED <<th, ready, waiting, current>> /\ pc' \in {pc, "signal"}
    BY <1>16 DEF Set, Reset, SignalObject, engine
  <2>2. current \in Thread /\ th[current].status \in Alive
    BY <1>1
  <2>3. CurrentAlive'
    BY <2>1, <2>2 DEF CurrentAlive
  <2>4. QED
    BY <2>1, <2>3 DEF IInv, Fields, Statuses, IsList, ListsAgree
<1>17. QED
  BY <1>3, <1>4, <1>5, <1>6, <1>7, <1>8, <1>10, <1>11, <1>12, <1>13, <1>14, <1>15, <1>16
     DEF Program

LEMMA NativeKeeps ==
  ASSUME IInv, Native
  PROVE  IInv'
<1>1. Fields(th)
  BY DEF IInv
<1>2. CASE SignalNext
  <2> DEFINE t == cursor.at
             s == [th EXCEPT ![t].result = Result(th[t].wait)]
  <2>1. UNCHANGED <<current, pc>>
    BY <1>2 DEF SignalNext
  <2>2. CASE Restart(s, t, TRUE)
    <3>1. Fields(s) /\ \A v \in Thread : /\ s[v].status = th[v].status
                                          /\ s[v].suspended = th[v].suspended
      BY <1>1 DEF Fields
    <3> HIDE DEF s, t
    <3>2. QED
      BY <2>1, <2>2, <3>1, RestartKeeps
  <2>3. CASE UNCHANGED <<th, ready, waiting>>
    BY <2>1, <2>3 DEF IInv, Fields, Statuses, IsList, ListsAgree, CurrentAlive
  <2>4. QED
    BY <1>2, <2>2, <2>3 DEF SignalNext
<1>3. CASE SignalEnd
  <2>1. /\ UNCHANGED <<th, ready, waiting, current>> /\ pc = "signal"
        /\ \/ th[current].status # "Terminated" /\ pc' = "run"
           \/ pc' = "release"
    BY <1>3 DEF SignalEnd, DestroyInstance
  <2>2. CurrentAlive'
    BY <2>1 DEF IInv, CurrentAlive
  <2>3. QED
    BY <2>1, <2>2 DEF IInv, Fields, Statuses, IsList, ListsAgree
<1>4. CASE DestroyOwner
  BY <1>4, ChangeOwnerKeeps DEF DestroyOwner
<1>5. CASE DeleteLockRequests
  <2>1. pc' = "idle"
    BY <1>5 DEF DeleteLockRequests
  <2>2. PICK left :
          LET s == [th EXCEPT ![current].count = left, ![current].exception = FALSE,
                              ![current].call = Exited]
          IN \/ Restart(s, current, FALSE)
             \/ /\ UNCHANGED <<ready, waiting>>
                /\ th' = s \/ th' = [s EXCEPT ![current].status = "Waiting"]
    BY <1>5 DEF DeleteLockRequests
  <2> DEFINE s == [th EXCEPT ![current].count = left, ![current].exception = FALSE,
                             ![current].call = Exited]
  <2>3. Fields(s) /\ \A v \in Thread : /\ s[v].status = th[v].status
                                        /\ s[v].suspended = th[v].suspended
    BY <1>1 DEF Fields
  <2>4. \/ Restart(s, current, FALSE)
        \/ /\ UNCHANGED <<ready, waiting>>
           /\ th' = s \/ th' = [s EXCEPT ![current].status = "Waiting"]
    BY <2>2
  <2> HIDE DEF s
  <2>5. Fields(th') /\ Statuses' /\ IsList(waiting') /\ ListsAgree'
    <3>1. CASE Restart(s, current, FALSE)
      BY <2>3, <3>1, Restarted
    <3>2. CASE /\ UNCHANGED <<ready, waiting>>
               /\ th' = s \/ th' = [s EXCEPT ![current].status = "Waiting"]
      <4>1. Fields(th') /\ \A v \in Thread : /\ th'[v].suspended = th[v].suspended
                                              /\ \/ th'[v].status = th[v].status
                                                 \/ th'[v].status = "Waiting"
        BY <2>3, <3>2 DEF Fields
      <4>2. QED
        BY <3>2, <4>1, ListsUnchanged
    <3>3. QED
      BY <2>4, <3>1, <3>2
  <2>6. CurrentAlive'
    BY <2>1 DEF CurrentAlive
  <2>7. QED
    BY <2>5, <2>6 DEF IInv
<1>6. QED
  BY <1>2, <1>3, <1>4, <1>5 DEF Native

LEMMA NextKeeps == IInv /\ [Next]_vars => IInv'
<1> SUFFICES ASSUME IInv, [Next]_vars PROVE IInv'
  OBVIOUS
<1>1. ASSUME NEW t \in Thread, Dispatch(t) PROVE IInv'
  <2>1. t \in ready /\ current' = t /\ pc' = "run" /\ UNCHANGED <<ready, waiting>>
    BY <1>1 DEF Dispatch
  <2>2. th' = th \/ th' = [th EXCEPT ![t].call = NoCall, ![t].result = INIT]
    BY <1>1 DEF Dispatch
  <2>3. Fields(th') /\ \A u \in Thread : /\ th'[u].suspended = th[u].suspended
                                          /\ th'[u].status = th[u].status
    BY <2>2 DEF IInv, Fields
  <2>4. th[t].status \in Alive
    BY <2>1 DEF IInv, ListsAgree, Statuses
  <2>5. CurrentAlive'
    BY <2>1, <2>3, <2>4 DEF CurrentAlive
  <2>6. QED
    BY <2>1, <2>3, <2>5, ListsUnchanged DEF IInv
<1>2. ASSUME NEW t \in Thread, CheckThreads(t) PROVE IInv'
  <2> DEFINE s == [th EXCEPT ![t].sleep = FALSE]
             r == [th EXCEPT ![t].result = TIMEOUT]
  <2>1. UNCHANGED <<current, pc>> /\ (Restart(s, t, FALSE) \/ Restart(r, t, TRUE))
    BY <1>2 DEF CheckThreads
  <2>2. /\ Fields(s) /\ Fields(r)
        /\ \A v \in Thread : /\ s[v].status = th[v].status /\ s[v].suspended = th[v].suspended
                             /\ r[v].status = th[v].status /\ r[v].suspended = th[v].suspended
    BY DEF IInv, Fields
  <2> HIDE DEF s, r
  <2>3. QED
    BY <2>1, <2>2, RestartKeeps
<1>3. ASSUME NEW t \in Thread, Terminate(t) PROVE IInv'
  BY <1>3, PassivateKeeps DEF Terminate
<1>4. CASE UNCHANGED vars
  BY <1>4 DEF vars, IInv, Fields, Statuses, IsList, ListsAgree, CurrentAlive
<1>5. QED
  BY <1>1, <1>2, <1>3, <1>4, ProgramKeeps, NativeKeeps DEF Next

LEMMA InitHolds == Init => IInv
<1> SUFFICES ASSUME Init PROVE IInv
  OBVIOUS
<1>1. PICK t \in Thread :
        /\ th = [[u \in Thread |-> NewThread] EXCEPT ![t].status = "Ready"]
        /\ ready = {t} /\ waiting = <<>> /\ pc = "idle"
  BY DEF Init
<1>2. /\ Fields(th) /\ th[t].status = "Ready" /\ ~th[t].suspended
      /\ \A u \in Thread \ {t} : th[u].status = "Unstarted"
  BY <1>1 DEF Fields, NewThread
<1>3. IsList(waiting) /\ Distinct(waiting) /\ Nodes(waiting) = {}
  BY <1>1 DEF IsList, Distinct, Nodes
<1>4. Statuses /\ ListsAgree
  BY <1>1, <1>2, <1>3 DEF Statuses, ListsAgree, Alive
<1>5. QED
  BY <1>1, <1>2, <1>3, <1>4 DEF IInv, CurrentAlive

(* PutInProperList, Restart and Passivate keep every thread in at most one *)
(* list of the engine, and in the one that its status and TH_F_Suspended   *)
(* say: a suspended thread is never scheduled, for any number of threads,  *)
(* locks and handles, however many grants, signals and aborts reach it.    *)
THEOREM ListsCorrect == Spec => []ListsAgree
<1>1. IInv => ListsAgree
  BY DEF IInv
<1>2. QED
  BY <1>1, InitHolds, NextKeeps, PTL DEF Spec

----------------------------------------------------------------------------
USE ResultsAssumption

(* The fields of a thread.  That the count is no less than 0 and no more   *)
(* than MaxRequests follows from what it counts.                           *)
Waits(hs) == [handles : hs, all : BOOLEAN, finite : BOOLEAN]

ThreadRecord ==
  [status : {"Unstarted", "Ready", "Waiting", "Terminated"},
   suspended : BOOLEAN, aborted : BOOLEAN, exception : BOOLEAN,
   count : Int, wait : Waits({<<>>} \cup WaitList),
   result : {INIT, TIMEOUT, HANDLE_ALL} \cup Waitable, sleep : BOOLEAN,
   call : {NoCall, Exited, Calling("Sleep"), Calling("Wait")}
          \cup {Entering(o) : o \in Object}]

Typed == th \in [Thread -> ThreadRecord]

(* Passivate is at work for thread t, from SignalAll to DestroyInstance.   *)
Passing(t) ==
  t = current /\ (pc = "release" \/ (pc = "signal" /\ th[t].status = "Terminated"))

(* What a step does to thread t that leaves it in its list, *)
SameLists(t) == /\ t \in ready' <=> t \in ready
                /\ t \in Nodes(waiting)' <=> t \in Nodes(waiting)

Untouched(t) ==
  th'[t] = th[t] /\ SameLists(t) /\ (Passing(t)' <=> Passing(t))

Advance(t) ==
  LET r == th[t]
  IN /\ ~Passing(t) /\ ~Passing(t)' /\ SameLists(t) /\ t \in ready
     /\ \/ /\ ~r.exception /\ r.call # Exited
           /\ th'[t] = [r EXCEPT !.call = NoCall, !.result = INIT]
        \/ /\ r.exception
           /\ th'[t] = [r EXCEPT !.exception = FALSE, !.call = NoCall, !.result = INIT]
        \/ /\ r.aborted /\ r.call = NoCall
           /\ th'[t] = [r EXCEPT !.exception = TRUE]

(* that puts it into the list that fits its new fields r,                  *)
Put(t, r) ==
  LET on == r.status = "Ready" /\ ~r.suspended
  IN /\ th'[t] = IF on THEN Woken(r) ELSE r
     /\ t \in ready' <=> on
     /\ t \in Nodes(waiting)' <=> ~on

MayCall(t) == t \in ready /\ th[t].call = NoCall /\ ~th[t].exception

Move(t) ==
  LET r == th[t]
  IN /\ ~Passing(t) /\ ~Passing(t)'
     /\ \/ MayCall(t) /\ Put(t, r)
        \/ r.status = "Unstarted" /\ Put(t, [r EXCEPT !.status = "Ready"])
        \/ /\ r.status \in Alive
           /\ \/ Put(t, [r EXCEPT !.suspended = TRUE])
              \/ r.suspended /\ Put(t, [r EXCEPT !.suspended = FALSE])
              \/ Put(t, [r EXCEPT !.exception = TRUE, !.aborted = TRUE,
                                  !.status = "Ready", !.sleep = FALSE])
        \/ MayCall(t) /\ \E finite \in BOOLEAN :
             Put(t, [r EXCEPT !.status = "Waiting", !.sleep = finite,
                              !.call = Calling("Sleep")])
        \/ MayCall(t) /\ \E w \in Waits(WaitList) :
             /\ ~Satisfied(w, signaled)
             /\ Put(t, [r EXCEPT !.wait = w, !.status = "Waiting", !.result = INIT,
                                 !.call = Calling("Wait")])
        \/ MayCall(t) /\ r.count < MaxRequests /\ \E o \in Object :
             /\ requests' = [requests EXCEPT ![o] = Append(@, t)]
             /\ Put(t, [r EXCEPT !.count = @ + 1, !.status = "Waiting", !.call = Entering(o)])
        \/ /\ t \in Nodes(waiting) /\ r.wait # NoWait
           /\ \E v \in {HANDLE_ALL} \cup Waitable :
                Put(t, [r EXCEPT !.result = v, !.status = "Ready", !.sleep = FALSE])
        \/ r.sleep /\ Put(t, [r EXCEPT !.sleep = FALSE, !.status = "Ready"])
        \/ /\ r.wait # NoWait /\ ~r.suspended
           /\ Put(t, [r EXCEPT !.result = TIMEOUT, !.status = "Ready", !.sleep = FALSE])

(* that grants one of its requests, or that ends it.                       *)
Less(t) ==
  LET r == th[t]
  IN /\ Passing(t)' <=> Passing(t)
     /\ \E o \in Object : /\ requests[o] # <<>> /\ t = Head(requests[o])
                          /\ requests' = [requests EXCEPT ![o] = Tail(@)]
     /\ r.count > 0
     /\ IF r.count = 1 THEN Put(t, [r EXCEPT !.count = 0, !.status = "Ready"])
        ELSE /\ th'[t] = [r EXCEPT !.count = @ - 1, !.status = "Waiting"]
             /\ SameLists(t)

Stop(t) ==
  /\ ~Passing(t) /\ Passing(t)'
  /\ th'[t] = [th[t] EXCEPT !.status = "Terminated", !.suspended = FALSE,
                            !.aborted = FALSE, !.wait = NoWait, !.sleep = FALSE]
  /\ t \notin ready' /\ t \notin Nodes(waiting)'
  /\ \A o \in Object : entered'[t][o] = 0

Buried(t) ==
  LET r == th[t]
      s(left) == [r EXCEPT !.count = left, !.exception = FALSE, !.call = Exited]
  IN /\ Passing(t) /\ ~Passing(t)' /\ pc = "release" /\ pc' = "idle"
     /\ \/ th'[t] = s(r.count) /\ SameLists(t)
        \/ r.count > 0 /\ Put(t, [s(0) EXCEPT !.status = "Ready"])
        \/ \E left \in 1 .. r.count - 1 :
             th'[t] = [s(left) EXCEPT !.status = "Waiting"] /\ SameLists(t)

Change(t) == Untouched(t) \/ Advance(t) \/ Move(t) \/ Less(t) \/ Stop(t) \/ Buried(t)

(* The updates that occur keep the fields what they are. *)
LEMMA Records ==
  ASSUME NEW r \in ThreadRecord
  PROVE  /\ \A x \in {"Unstarted", "Ready", "Waiting", "Terminated"} :
              [r EXCEPT !.status = x] \in ThreadRecord
         /\ \A x \in BOOLEAN : /\ [r EXCEPT !.suspended = x] \in ThreadRecord
                               /\ [r EXCEPT !.aborted = x] \in ThreadRecord
                               /\ [r EXCEPT !.exception = x] \in ThreadRecord
                               /\ [r EXCEPT !.sleep = x] \in ThreadRecord
         /\ \A x \in Int : [r EXCEPT !.count = x] \in ThreadRecord
         /\ \A x \in Waits({<<>>} \cup WaitList) : [r EXCEPT !.wait = x] \in ThreadRecord
         /\ \A x \in {INIT, TIMEOUT, HANDLE_ALL} \cup Waitable :
              [r EXCEPT !.result = x] \in ThreadRecord
         /\ [r EXCEPT !.call = NoCall] \in ThreadRecord
         /\ [r EXCEPT !.call = Exited] \in ThreadRecord
         /\ [r EXCEPT !.call = Calling("Sleep")] \in ThreadRecord
         /\ [r EXCEPT !.call = Calling("Wait")] \in ThreadRecord
         /\ \A o \in Object : [r EXCEPT !.call = Entering(o)] \in ThreadRecord
         /\ Woken(r) \in ThreadRecord
<1>1. NoWait \in Waits({<<>>} \cup WaitList)
  BY DEF Waits, NoWait
<1> HIDE DEF Waits
<1> DEFINE Call == {NoCall, Exited, Calling("Sleep"), Calling("Wait")}
                   \cup {Entering(o) : o \in Object}
           Res == {INIT, TIMEOUT, HANDLE_ALL} \cup Waitable
           Wts == Waits({<<>>} \cup WaitList)
<1>2. ThreadRecord =
        [status : {"Unstarted", "Ready", "Waiting", "Terminated"},
         suspended : BOOLEAN, aborted : BOOLEAN, exception : BOOLEAN,
         count : Int, wait : Wts, result : Res, sleep : BOOLEAN, call : Call]
  BY DEF ThreadRecord
<1>3. /\ NoCall \in Call /\ Exited \in Call /\ Calling("Sleep") \in Call
      /\ Calling("Wait") \in Call /\ \A o \in Object : Entering(o) \in Call
  OBVIOUS
<1> HIDE DEF Call, Res, Wts
<1>4. \A x \in Call : [r EXCEPT !.call = x] \in ThreadRecord
  BY <1>2
<1>5. \A x \in Res : [r EXCEPT !.result = x] \in ThreadRecord
  BY <1>2
<1>6. \A x \in Wts : [r EXCEPT !.wait = x] \in ThreadRecord
  BY <1>2
<1>7. Woken(r) \in ThreadRecord
  BY <1>1, <1>2 DEF Woken, Wts
<1>8. \A x \in {"Unstarted", "Ready", "Waiting", "Terminated"} :
        [r EXCEPT !.status = x] \in ThreadRecord
  BY <1>2
<1>9. \A x \in BOOLEAN : /\ [r EXCEPT !.suspended = x] \in ThreadRecord
                         /\ [r EXCEPT !.aborted = x] \in ThreadRecord
                         /\ [r EXCEPT !.exception = x] \in ThreadRecord
                         /\ [r EXCEPT !.sleep = x] \in ThreadRecord
  BY <1>2
<1>10. \A x \in Int : [r EXCEPT !.count = x] \in ThreadRecord
  BY <1>2
<1>11. QED
  BY <1>3, <1>4, <1>5, <1>6, <1>7, <1>8, <1>9, <1>10 DEF Call, Res, Wts

(* PutInProperList seen from each thread. *)
LEMMA PutThread ==
  ASSUME IInv, NEW s \in [Thread -> ThreadRecord], NEW t \in Thread, NEW r \in ThreadRecord,
         PutInProperList(s, t, r)
  PROVE  /\ Typed' /\ Put(t, r)
         /\ \A u \in Thread \ {t} : th'[u] = s[u] /\ SameLists(u)
<1> DEFINE on == r.status = "Ready" /\ ~r.suspended
           q == IF on THEN Woken(r) ELSE r
<1>1. Woken(r) \in ThreadRecord
  BY Records
<1>2. IsList(waiting) /\ Distinct(waiting)
  BY DEF IInv, ListsAgree
<1>3. /\ IsList(Unlink(waiting, t)) /\ Distinct(Unlink(waiting, t))
      /\ Nodes(Unlink(waiting, t)) = Nodes(waiting) \ {t}
  BY <1>2, Unlinked
<1>4. Nodes(LinkAtBack(Unlink(waiting, t), t)) = Nodes(waiting) \cup {t}
  BY <1>3, LinkedAtBack
<1>5. /\ th' = [s EXCEPT ![t] = q]
      /\ ready' = IF on THEN ready \cup {t} ELSE ready \ {t}
      /\ waiting' = IF on THEN Unlink(waiting, t) ELSE LinkAtBack(Unlink(waiting, t), t)
  BY DEF PutInProperList
<1>6. q \in ThreadRecord
  BY <1>1
<1>7. Nodes(waiting)' = IF on THEN Nodes(waiting) \ {t} ELSE Nodes(waiting) \cup {t}
  BY <1>3, <1>4, <1>5
<1> HIDE DEF on, q
<1>8. Typed'
  BY <1>5, <1>6 DEF Typed
<1>9. th'[t] = q /\ \A u \in Thread \ {t} : th'[u] = s[u]
  BY <1>5
<1>10. /\ t \in ready' <=> on
       /\ t \in Nodes(waiting)' <=> ~on
       /\ \A u \in Thread \ {t} : SameLists(u)
  BY <1>5, <1>7 DEF SameLists
<1>11. QED
  BY <1>8, <1>9, <1>10 DEF Put, on, q
LEMMA RestartThread ==
  ASSUME IInv, NEW s \in [Thread -> ThreadRecord], NEW t \in Thread, NEW d \in BOOLEAN,
         Restart(s, t, d)
  PROVE  /\ Typed'
         /\ Put(t, [s[t] EXCEPT !.status = "Ready", !.sleep = IF d THEN FALSE ELSE @])
         /\ \A u \in Thread \ {t} : th'[u] = s[u] /\ SameLists(u)
<1> DEFINE r == [s[t] EXCEPT !.status = "Ready", !.sleep = @ /\ ~d]
           q == [s[t] EXCEPT !.status = "Ready", !.sleep = IF d THEN FALSE ELSE @]
<1>1. s[t] \in ThreadRecord
  OBVIOUS
<1>2. s[t].sleep \in BOOLEAN
  BY <1>1 DEF ThreadRecord
<1>3. (s[t].sleep /\ ~d) = (IF d THEN FALSE ELSE s[t].sleep)
  BY <1>2
<1>4. r = q
  BY <1>3
<1>5. r \in ThreadRecord
  <2>1. [s[t] EXCEPT !.status = "Ready"] \in ThreadRecord
    BY <1>1, Records
  <2>2. (s[t].sleep /\ ~d) \in BOOLEAN
    BY <1>2
  <2>3. [[s[t] EXCEPT !.status = "Ready"] EXCEPT !.sleep = s[t].sleep /\ ~d] \in ThreadRecord
    BY <2>1, <2>2, Records
  <2>4. QED
    BY <2>3, <1>1 DEF ThreadRecord
<1>6. PutInProperList(s, t, r)
  BY DEF Restart
<1> HIDE DEF r, q
<1>7. /\ Typed' /\ Put(t, r)
      /\ \A u \in Thread \ {t} : th'[u] = s[u] /\ SameLists(u)
  BY <1>5, <1>6, PutThread
<1>8. QED
  BY <1>4, <1>7 DEF q

----------------------------------------------------------------------------
(* The requests of a thread, and that they are counted. *)
RequestsOf(t) == {r \in Requests : RequestOf(r) = t}

CountsInv ==
  \A t \in Thread : /\ IsFiniteSet(RequestsOf(t))
                    /\ th[t].count = Cardinality(RequestsOf(t))

MonitorsTyped ==
  /\ locks \in [Thread -> Seq(Object)]
  /\ requests \in [Object -> Seq(Thread)]
  /\ depth \in [Object -> Nat]
  /\ entered \in [Thread -> [Object -> Nat]]

LEMMA HeadCounted ==
  ASSUME MonitorsTyped, CountsInv, NEW o \in Object, requests[o] # <<>>
  PROVE  /\ Head(requests[o]) \in Thread
         /\ th[Head(requests[o])].count \in Nat /\ th[Head(requests[o])].count > 0
<1> DEFINE t == Head(requests[o])
<1>1. requests[o] \in Seq(Thread)
  BY DEF MonitorsTyped
<1>2. t \in Thread /\ t = requests[o][1] /\ 1 \in 1 .. Len(requests[o])
  BY <1>1
<1>3. <<o, 1>> \in RequestsOf(t)
  BY <1>2 DEF RequestsOf, Requests, RequestOf
<1>4. IsFiniteSet(RequestsOf(t)) /\ th[t].count = Cardinality(RequestsOf(t))
  BY <1>2 DEF CountsInv
<1> HIDE DEF t
<1>5. Cardinality(RequestsOf(t)) \in Nat /\ Cardinality(RequestsOf(t)) # 0
  BY <1>3, <1>4, FS_CardinalityType, FS_EmptySet
<1>6. QED
  BY <1>2, <1>4, <1>5 DEF t
----------------------------------------------------------------------------
EngineTyped ==
  /\ ready \subseteq Thread /\ waiting \in Seq(Thread)
  /\ current \in Thread \cup {Nobody}
  /\ pc \in {"idle", "run", "signal", "release"}
  /\ cursor \in [handle : Waitable \cup {Nobody},
                 at : Thread \cup Object \cup {Nobody}]
  /\ signaled \subseteq Waitable

(* The loops of SignalObject and DestroyInstance have a node of the list   *)
(* they walk at hand; only a dead thread's SignalObject does not return to *)
(* a running program.                                                      *)
Cursors ==
  /\ pc = "run" => current \in ready
  /\ pc = "signal" =>
       /\ cursor.handle \in Waitable
       /\ cursor.at = Nobody \/ cursor.at \in Nodes(waiting)
       /\ th[current].status = "Terminated" \/ MayCall(current)
  /\ pc = "release" => cursor.at = Nobody \/ cursor.at \in Nodes(locks[current])

Base == IInv /\ Typed /\ EngineTyped /\ MonitorsTyped /\ CountsInv /\ Cursors

ThreadStep == Typed' /\ \A u \in Thread : Change(u)

LEMMA UntouchedThreads ==
  ASSUME Typed, UNCHANGED <<th, ready, waiting>>,
         \A u \in Thread : Passing(u)' <=> Passing(u)
  PROVE  ThreadStep
<1>1. \A u \in Thread : SameLists(u)
  BY DEF SameLists, Nodes
<1>2. \A u \in Thread : Untouched(u)
  BY <1>1 DEF Untouched
<1>3. QED
  BY <1>2 DEF ThreadStep, Typed, Change

(* A step that puts one thread into a list. *)
LEMMA OneThread ==
  ASSUME NEW t \in Thread, Typed', Change(t),
         \A u \in Thread \ {t} : th'[u] = th[u] /\ SameLists(u) /\ (Passing(u)' <=> Passing(u))
  PROVE  ThreadStep
BY DEF ThreadStep, Change, Untouched

LEMMA LeaveThread ==
  ASSUME Base, NEW t \in Thread, Running(t), NEW r \in ThreadRecord, Leave(r)
  PROVE  /\ Typed' /\ Put(t, r) /\ ~Passing(t) /\ ~Passing(t)'
         /\ \A u \in Thread \ {t} : th'[u] = th[u] /\ SameLists(u)
<1>1. th \in [Thread -> ThreadRecord] /\ pc = "run" /\ IInv
  BY DEF Base, Typed, Running
<1>2. PutInProperList(th, t, r) /\ pc' = "idle"
  BY DEF Leave, Running
<1>3. /\ Typed' /\ Put(t, r)
      /\ \A u \in Thread \ {t} : th'[u] = th[u] /\ SameLists(u)
  BY <1>1, <1>2, PutThread
<1>4. QED
  BY <1>1, <1>2, <1>3 DEF Passing

LEMMA WaitStep ==
  ASSUME Base, NEW t \in Thread, Calls(t), NEW w \in Waits(WaitList), WaitForSignal(t, w)
  PROVE  ThreadStep
<1>1. Running(t) /\ pc = "run" /\ current = t /\ MayCall(t) /\ Typed
  BY DEF Base, Cursors, Calls, Running, MayCall
<1>2. CASE UNCHANGED <<th, engine>>
  <2>1. \A v \in Thread : Passing(v)' <=> Passing(v)
    BY <1>2 DEF engine, Passing
  <2>2. QED
    BY <1>1, <1>2, <2>1, UntouchedThreads DEF engine
<1>3. CASE /\ Leave([th[t] EXCEPT !.wait = w, !.status = "Waiting", !.result = INIT,
                                  !.call = Calling("Wait")])
           /\ ~Satisfied(w, signaled)
  <2> DEFINE q == [th[t] EXCEPT !.wait = w]
             r == [q EXCEPT !.status = "Waiting", !.result = INIT, !.call = Calling("Wait")]
  <2>1. th[t] \in ThreadRecord /\ w \in Waits({<<>>} \cup WaitList)
    BY <1>1 DEF Typed, Waits
  <2>2. q \in ThreadRecord
    BY <2>1, Records
  <2> HIDE DEF q
  <2>3. [q EXCEPT !.status = "Waiting"] \in ThreadRecord
    BY <2>2, Records
  <2>4. [q EXCEPT !.status = "Waiting", !.result = INIT] \in ThreadRecord
    BY <2>3, Records
  <2>5. r \in ThreadRecord
    BY <2>4, Records
  <2>6. Leave(r)
    BY <1>3 DEF q
  <2>7. r = [th[t] EXCEPT !.wait = w, !.status = "Waiting", !.result = INIT,
                          !.call = Calling("Wait")]
    BY DEF q
  <2> HIDE DEF r
  <2>8. /\ Typed' /\ Put(t, r) /\ ~Passing(t) /\ ~Passing(t)'
        /\ \A u \in Thread \ {t} : th'[u] = th[u] /\ SameLists(u)
    BY <1>1, <2>5, <2>6, LeaveThread
  <2>9. Change(t)
    BY <1>1, <1>3, <2>7, <2>8 DEF Change, Move
  <2>10. pc' = "idle"
    BY <2>6 DEF Leave
  <2>11. \A v \in Thread \ {t} : Passing(v)' <=> Passing(v)
    BY <1>1, <2>10 DEF Passing
  <2>12. QED
    BY <1>1, <2>8, <2>9, <2>10, <2>11, OneThread
<1>4. QED
  BY <1>2, <1>3 DEF WaitForSignal
LEMMA GrantStep ==
  ASSUME Base, NEW o \in Object, requests[o] # <<>>,
         NEW t \in Thread, t = Head(requests[o]), OneRequestLess(t),
         UNCHANGED <<current, pc>>, pc # "signal",
         requests' = [requests EXCEPT ![o] = Tail(@)]
  PROVE  /\ ThreadStep /\ Less(t)
         /\ \A u \in Thread \ {t} : th'[u] = th[u] /\ SameLists(u)
<1> DEFINE r == [th[t] EXCEPT !.count = @ - 1]
           s == [th EXCEPT ![t].count = @ - 1]
<1>1. th[t].count \in Nat /\ th[t].count > 0
  <2>1. MonitorsTyped /\ CountsInv
    BY DEF Base
  <2>2. QED
    BY <2>1, HeadCounted
<1>2. th \in [Thread -> ThreadRecord] /\ IInv
  BY DEF Base, Typed
<1>3. OneRequestLess(t)
  OBVIOUS
<1>4. th[t] \in ThreadRecord
  BY <1>1, <1>2
<1>5. r \in ThreadRecord /\ r.count = th[t].count - 1
  <2>1. th[t].count - 1 \in Int
    BY <1>1
  <2>2. r \in ThreadRecord
    BY <1>4, <2>1, Records
  <2>3. "count" \in DOMAIN th[t]
    BY <1>4 DEF ThreadRecord
  <2>4. QED
    BY <2>2, <2>3
<1>6. s[t] = r /\ s \in [Thread -> ThreadRecord] /\ \A u \in Thread \ {t} : s[u] = th[u]
  BY <1>1, <1>2, <1>5
<1>7. Passing(t)' <=> Passing(t)
  BY DEF Passing
<1>8. CASE th[t].count = 1
  <2>1. r.count = 0 /\ r = [th[t] EXCEPT !.count = 0]
    <3>1. th[t].count - 1 = 0
      BY <1>8
    <3>2. QED
      BY <1>5, <3>1
  <2> HIDE DEF r
  <2>2. Restart(s, t, FALSE)
    BY <1>3, <1>6, <2>1 DEF OneRequestLess
  <2> HIDE DEF s
  <2> DEFINE q == [r EXCEPT !.status = "Ready", !.sleep = IF FALSE THEN FALSE ELSE @]
  <2>3. /\ Typed' /\ Put(t, q)
        /\ \A u \in Thread \ {t} : th'[u] = s[u] /\ SameLists(u)
    BY <1>1, <1>2, <1>6, <2>2, RestartThread
  <2>4. q = [r EXCEPT !.status = "Ready"]
    BY <1>5 DEF ThreadRecord
  <2>5. q = [th[t] EXCEPT !.count = 0, !.status = "Ready"]
    BY <2>1, <2>4
  <2> HIDE DEF q
  <2>6. Less(t)
    BY <1>1, <1>7, <1>8, <2>3, <2>5 DEF Less
  <2>7. \A u \in Thread \ {t} : th'[u] = th[u] /\ SameLists(u)
    BY <1>6, <2>3
  <2>8. ThreadStep
    <3>1. \A v \in Thread \ {t} : Passing(v)' <=> Passing(v)
      BY <2>7 DEF Passing
    <3>2. QED
      BY <1>1, <2>3, <2>6, <2>7, <3>1, OneThread DEF Change
  <2>9. QED
    BY <2>6, <2>7, <2>8
<1>9. CASE th[t].count # 1
  <2>1. s[t].count # 0
    BY <1>1, <1>5, <1>6, <1>9
  <2>2. th' = [s EXCEPT ![t].status = "Waiting"] /\ UNCHANGED <<ready, waiting>>
    BY <1>3, <2>1 DEF OneRequestLess
  <2>3. [r EXCEPT !.status = "Waiting"] \in ThreadRecord
    BY <1>5, Records
  <2> HIDE DEF s, r
  <2>4. Typed' /\ th'[t] = [r EXCEPT !.status = "Waiting"]
        /\ \A u \in Thread \ {t} : th'[u] = th[u]
    BY <1>1, <1>6, <2>2, <2>3 DEF Typed
  <2>5. \A u \in Thread : SameLists(u)
    BY <2>2 DEF SameLists, Nodes
  <2>6. Less(t)
    BY <1>1, <1>7, <1>9, <2>4, <2>5 DEF Less, r
  <2>7. ThreadStep
    <3>1. \A v \in Thread \ {t} : Passing(v)' <=> Passing(v)
      BY <2>4 DEF Passing
    <3>2. QED
      BY <1>1, <2>4, <2>5, <2>6, <3>1, OneThread DEF Change
  <2>8. QED
    BY <2>4, <2>5, <2>6, <2>7
<1>10. QED
  BY <1>8, <1>9

LEMMA ChangeOwnerStep ==
  ASSUME Base, NEW t, NEW o \in Object, ChangeOwner(t, o), UNCHANGED <<current, pc>>,
         pc # "signal"
  PROVE  ThreadStep
<1>1. CASE requests[o] = <<>>
  <2>1. UNCHANGED <<th, ready, waiting>>
    BY <1>1 DEF ChangeOwner
  <2>2. \A v \in Thread : Passing(v)' <=> Passing(v)
    BY <2>1 DEF Passing
  <2>3. QED
    BY <2>1, <2>2, UntouchedThreads DEF Base
<1>2. CASE requests[o] # <<>>
  <2>1. Head(requests[o]) \in Thread
    BY <1>2, HeadCounted DEF Base
  <2>2. PICK u \in Thread : u = Head(requests[o])
    BY <2>1
  <2>3. OneRequestLess(u) /\ requests' = [requests EXCEPT ![o] = Tail(@)]
    BY <1>2, <2>2 DEF ChangeOwner
  <2>4. QED
    BY <1>2, <2>2, <2>3, GrantStep
<1>3. QED
  BY <1>1, <1>2

LEMMA PassivateStep ==
  ASSUME Base, NEW t \in Thread, Passivate(t), pc \in {"idle", "run"},
         entered' = [entered EXCEPT ![t] = [o \in Object |-> 0]]
  PROVE  ThreadStep /\ Stop(t)
<1>1. th' = [th EXCEPT ![t].status = "Terminated", ![t].suspended = FALSE,
                       ![t].aborted = FALSE, ![t].wait = NoWait, ![t].sleep = FALSE]
      /\ ready' = ready \ {t} /\ waiting' = Unlink(waiting, t) /\ current' = t
  BY DEF Passivate
<1>2. th \in [Thread -> ThreadRecord] /\ IsList(waiting) /\ Distinct(waiting)
  BY DEF Base, Typed, IInv, ListsAgree
<1>3. Nodes(waiting)' = Nodes(waiting) \ {t}
  BY <1>1, <1>2, Unlinked
<1> DEFINE r1 == [th[t] EXCEPT !.status = "Terminated"]
           r2 == [r1 EXCEPT !.suspended = FALSE]
           r3 == [r2 EXCEPT !.aborted = FALSE]
           r4 == [r3 EXCEPT !.wait = NoWait]
           r5 == [r4 EXCEPT !.sleep = FALSE]
<1>4. r5 \in ThreadRecord
  <2>1. th[t] \in ThreadRecord
    BY <1>2
  <2>2. NoWait \in Waits({<<>>} \cup WaitList)
    BY DEF NoWait, Waits
  <2>3. r1 \in ThreadRecord
    BY <2>1, Records
  <2> HIDE DEF r1
  <2>4. r2 \in ThreadRecord
    BY <2>3, Records
  <2> HIDE DEF r2
  <2>5. r3 \in ThreadRecord
    BY <2>4, Records
  <2> HIDE DEF r3
  <2>6. r4 \in ThreadRecord
    BY <2>2, <2>5, Records
  <2> HIDE DEF r4
  <2>7. QED
    BY <2>6, Records
<1>5. th' = [th EXCEPT ![t] = r5]
  BY <1>1, <1>2
<1>6. r5 = [th[t] EXCEPT !.status = "Terminated", !.suspended = FALSE,
                         !.aborted = FALSE, !.wait = NoWait, !.sleep = FALSE]
  OBVIOUS
<1> HIDE DEF r5
<1>7. Typed' /\ th'[t] = r5 /\ \A u \in Thread \ {t} : th'[u] = th[u]
  BY <1>2, <1>4, <1>5 DEF Typed
<1>8. \A u \in Thread \ {t} : SameLists(u)
  BY <1>1, <1>3 DEF SameLists
<1>9. Stop(t)
  <2>1. t = current' /\ pc' \in {"signal", "release"}
    BY DEF Passivate, SignalObject, DestroyInstance
  <2>2. th'[t].status = "Terminated"
    <3>1. "status" \in DOMAIN th[t]
      BY <1>2 DEF ThreadRecord
    <3>2. QED
      BY <3>1, <1>6, <1>7
  <2>3. Passing(t)'
    BY <2>1, <2>2 DEF Passing
  <2>4. ~Passing(t)
    BY DEF Passing
  <2>5. QED
    BY <1>1, <1>3, <1>6, <1>7, <2>3, <2>4 DEF Stop, Base, MonitorsTyped
<1>10. ThreadStep
  <2>1. \A v \in Thread \ {t} : Passing(v)' <=> Passing(v)
    BY <1>1 DEF Passing
  <2>2. QED
    BY <1>1, <1>7, <1>8, <1>9, <2>1, OneThread DEF Change
<1>11. QED
  BY <1>9, <1>10
LEMMA ProgramStep ==
  ASSUME Base, NEW t \in Thread, Program(t)
  PROVE  ThreadStep
<1>1. /\ Running(t) /\ pc = "run" /\ current = t /\ t \in ready
      /\ Typed /\ th[t] \in ThreadRecord /\ IInv
  BY DEF Program, Preempt, Exit, Catch, Reraise, Sleep, Wait, Start, Suspend, Resume, Abort,
         Join, MonitorEnter, MonitorExit, Set, Reset, Calls, Running, Base, Cursors, Typed
<1>2. ASSUME Calls(t) PROVE MayCall(t)
  BY <1>1, <1>2 DEF Calls, MayCall
<1>3. ASSUME NEW r \in ThreadRecord, Leave(r), Put(t, r) /\ ~Passing(t) /\ ~Passing(t)' => Change(t)
      PROVE  ThreadStep
  <2>1. /\ Typed' /\ Put(t, r) /\ ~Passing(t) /\ ~Passing(t)'
        /\ \A u \in Thread \ {t} : th'[u] = th[u] /\ SameLists(u)
    BY <1>1, <1>3, LeaveThread
  <2>2. pc' = "idle"
    BY <1>3 DEF Leave
  <2>3. \A v \in Thread \ {t} : Passing(v)' <=> Passing(v)
    BY <1>1, <2>2 DEF Passing
  <2>4. QED
    BY <1>1, <1>3, <2>1, <2>2, <2>3, OneThread
<1>4. ASSUME NEW u \in Thread, NEW r \in ThreadRecord, PutInProperList(th, u, r),
             UNCHANGED <<current, pc>>,
             Put(u, r) /\ ~Passing(u) /\ ~Passing(u)' => Change(u)
      PROVE  ThreadStep
  <2>1. /\ Typed' /\ Put(u, r)
        /\ \A v \in Thread \ {u} : th'[v] = th[v] /\ SameLists(v)
    BY <1>1, <1>4, PutThread DEF Typed
  <2>2. ~Passing(u) /\ ~Passing(u)'
    BY <1>1, <1>4 DEF Passing
  <2>3. \A v \in Thread \ {u} : Passing(v)' <=> Passing(v)
    BY <1>1, <1>4 DEF Passing
  <2>4. QED
    BY <1>4, <2>1, <2>2, <2>3, OneThread
<1>5. ASSUME NEW r \in ThreadRecord, th' = [th EXCEPT ![t] = r],
             UNCHANGED <<ready, waiting, current, pc>>,
             th'[t] = r /\ SameLists(t) /\ ~Passing(t) /\ ~Passing(t)' => Change(t)
      PROVE  ThreadStep
  <2>1. Typed' /\ th'[t] = r /\ \A v \in Thread \ {t} : th'[v] = th[v]
    BY <1>1, <1>5 DEF Typed
  <2>2. \A u \in Thread : SameLists(u)
    BY <1>5 DEF SameLists, Nodes
  <2>3. ~Passing(t) /\ ~Passing(t)'
    BY <1>1, <1>5 DEF Passing
  <2>4. \A v \in Thread \ {t} : Passing(v)' <=> Passing(v)
    BY <1>1, <1>5 DEF Passing
  <2>5. QED
    BY <1>5, <2>1, <2>2, <2>3, <2>4, OneThread
<1>6. ASSUME NEW u \in Thread, Started(u)
      PROVE  th[u] \in ThreadRecord /\ th[u].status \in Alive
  BY <1>1, <1>6 DEF Typed, Started, IInv, Statuses
<1>7. CASE Preempt(t)
  <2>1. Leave(th[t]) /\ MayCall(t)
    BY <1>2, <1>7 DEF Preempt
  <2>2. Put(t, th[t]) /\ ~Passing(t) /\ ~Passing(t)' => Change(t)
    BY <2>1 DEF Change, Move
  <2>3. QED
    BY <1>1, <1>3, <2>1, <2>2
<1>8. CASE Exit(t)
  BY <1>1, <1>8, PassivateStep DEF Exit
<1>9. CASE Catch(t)
  <2> DEFINE r == [th[t] EXCEPT !.exception = FALSE, !.call = NoCall, !.result = INIT]
  <2>1. /\ th' = [th EXCEPT ![t].exception = FALSE, ![t].call = NoCall, ![t].result = INIT]
        /\ UNCHANGED <<ready, waiting, current, pc>> /\ th[t].exception
    BY <1>9 DEF Catch, engine
  <2>2. th' = [th EXCEPT ![t] = r]
    BY <1>1, <2>1 DEF Typed
  <2>3. r \in ThreadRecord
    <3>1. [th[t] EXCEPT !.exception = FALSE] \in ThreadRecord
      BY <1>1, Records
    <3>2. [th[t] EXCEPT !.exception = FALSE, !.call = NoCall] \in ThreadRecord
      BY <3>1, Records
    <3>3. QED
      BY <3>2, Records
  <2>4. th'[t] = r /\ SameLists(t) /\ ~Passing(t) /\ ~Passing(t)' => Change(t)
    BY <1>1, <2>1 DEF Change, Advance
  <2> HIDE DEF r
  <2>5. QED
    BY <1>5, <2>1, <2>2, <2>3, <2>4
<1>10. CASE Reraise(t)
  <2> DEFINE r == [th[t] EXCEPT !.exception = TRUE]
  <2>1. /\ th' = [th EXCEPT ![t] = r]
        /\ UNCHANGED <<ready, waiting, current, pc>> /\ MayCall(t) /\ th[t].aborted
    BY <1>1, <1>2, <1>10 DEF Reraise, engine, Typed
  <2>2. r \in ThreadRecord
    BY <1>1, Records
  <2>3. th'[t] = r /\ SameLists(t) /\ ~Passing(t) /\ ~Passing(t)' => Change(t)
    BY <1>1, <2>1 DEF Change, Advance, MayCall
  <2> HIDE DEF r
  <2>4. QED
    BY <1>5, <2>1, <2>2, <2>3
<1>11. CASE Sleep(t)
  <2>1. PICK finite \in BOOLEAN :
          Leave([th[t] EXCEPT !.status = "Waiting", !.sleep = finite,
                              !.call = Calling("Sleep")])
    BY <1>11 DEF Sleep
  <2> DEFINE r == [th[t] EXCEPT !.status = "Waiting", !.sleep = finite,
                                !.call = Calling("Sleep")]
  <2>2. r \in ThreadRecord
    <3>1. [th[t] EXCEPT !.status = "Waiting"] \in ThreadRecord
      BY <1>1, Records
    <3>2. [th[t] EXCEPT !.status = "Waiting", !.sleep = finite] \in ThreadRecord
      BY <3>1, Records
    <3>3. QED
      BY <3>2, Records
  <2>3. MayCall(t)
    BY <1>2, <1>11 DEF Sleep
  <2>4. Put(t, r) /\ ~Passing(t) /\ ~Passing(t)' => Change(t)
    BY <2>3 DEF Change, Move
  <2>5. Leave(r)
    BY <2>1
  <2> HIDE DEF r
  <2>6. QED
    BY <1>3, <2>2, <2>4, <2>5
<1>12. CASE Wait(t)
  <2>1. PICK hs \in WaitList \cap Seq(Handle), all \in BOOLEAN, finite \in BOOLEAN :
          WaitForSignal(t, [handles |-> hs, all |-> all, finite |-> finite])
    BY <1>12 DEF Wait
  <2>2. [handles |-> hs, all |-> all, finite |-> finite] \in Waits(WaitList)
    BY DEF Waits
  <2>3. Calls(t)
    BY <1>12 DEF Wait
  <2>4. QED
    BY <2>1, <2>2, <2>3, WaitStep
<1>13. ASSUME NEW u \in Thread, Join(t, u) PROVE ThreadStep
  <2>1. PICK finite \in BOOLEAN :
          WaitForSignal(t, [handles |-> <<u>>, all |-> FALSE, finite |-> finite])
    BY <1>13 DEF Join
  <2>2. [handles |-> <<u>>, all |-> FALSE, finite |-> finite] \in Waits(WaitList)
    BY <1>13 DEF Waits, Join
  <2>3. Calls(t)
    BY <1>13 DEF Join
  <2>4. QED
    BY <2>1, <2>2, <2>3, WaitStep
<1>14. ASSUME NEW u \in Thread, Start(t, u) PROVE ThreadStep
  <2> DEFINE r == [th[u] EXCEPT !.status = "Ready"]
  <2>1. /\ PutInProperList(th, u, r) /\ UNCHANGED <<current, pc>>
        /\ th[u].status = "Unstarted" /\ th[u] \in ThreadRecord
    BY <1>1, <1>14 DEF Start, Typed
  <2>2. r \in ThreadRecord
    BY <2>1, Records
  <2>3. Put(u, r) /\ ~Passing(u) /\ ~Passing(u)' => Change(u)
    BY <2>1 DEF Change, Move
  <2> HIDE DEF r
  <2>4. QED
    BY <1>4, <2>1, <2>2, <2>3
<1>15. ASSUME NEW u \in Thread, Suspend(t, u) PROVE ThreadStep
  <2> DEFINE r == [th[u] EXCEPT !.suspended = TRUE]
  <2>1. th[u] \in ThreadRecord /\ th[u].status \in Alive
    BY <1>6, <1>15 DEF Suspend
  <2>2. r \in ThreadRecord
    BY <2>1, Records
  <2>3. Put(u, r) /\ ~Passing(u) /\ ~Passing(u)' => Change(u)
    BY <2>1 DEF Change, Move
  <2>4. \/ u = t /\ Leave(r)
        \/ PutInProperList(th, u, r) /\ UNCHANGED <<current, pc>>
    BY <1>15 DEF Suspend
  <2> HIDE DEF r
  <2>5. QED
    BY <1>3, <1>4, <2>2, <2>3, <2>4
<1>16. ASSUME NEW u \in Thread, Resume(t, u) PROVE ThreadStep
  <2> DEFINE r == [th[u] EXCEPT !.suspended = FALSE]
  <2>1. th[u] \in ThreadRecord /\ th[u].status \in Alive /\ th[u].suspended
    BY <1>6, <1>16 DEF Resume
  <2>2. r \in ThreadRecord
    BY <2>1, Records
  <2>3. Put(u, r) /\ ~Passing(u) /\ ~Passing(u)' => Change(u)
    BY <2>1 DEF Change, Move
  <2>4. PutInProperList(th, u, r) /\ UNCHANGED <<current, pc>>
    BY <1>16 DEF Resume
  <2> HIDE DEF r
  <2>5. QED
    BY <1>4, <2>2, <2>3, <2>4
<1>17. ASSUME NEW u \in Thread, Abort(t, u) PROVE ThreadStep
  <2> DEFINE q == [th[u] EXCEPT !.exception = TRUE, !.aborted = TRUE]
             s == [th EXCEPT ![u].exception = TRUE, ![u].aborted = TRUE]
             r == [q EXCEPT !.status = "Ready", !.sleep = IF TRUE THEN FALSE ELSE @]
  <2>1. th[u] \in ThreadRecord /\ th[u].status \in Alive
    BY <1>6, <1>17 DEF Abort
  <2>2. q \in ThreadRecord
    <3>1. [th[u] EXCEPT !.exception = TRUE] \in ThreadRecord
      BY <2>1, Records
    <3>2. QED
      BY <3>1, Records
  <2>3. s = [th EXCEPT ![u] = q]
    BY <1>1 DEF Typed
  <2>4. Restart(s, u, TRUE) /\ UNCHANGED <<current, pc>>
    BY <1>17 DEF Abort
  <2>5. r = [th[u] EXCEPT !.exception = TRUE, !.aborted = TRUE, !.status = "Ready",
                          !.sleep = FALSE]
    OBVIOUS
  <2> HIDE DEF q, s
  <2>6. s \in [Thread -> ThreadRecord] /\ s[u] = q /\ \A v \in Thread \ {u} : s[v] = th[v]
    BY <1>1, <2>2, <2>3 DEF Typed
  <2>7. /\ Typed' /\ Put(u, r)
        /\ \A v \in Thread \ {u} : th'[v] = th[v] /\ SameLists(v)
    BY <1>1, <2>4, <2>6, RestartThread
  <2> HIDE DEF r
  <2>8. ~Passing(u) /\ ~Passing(u)'
    BY <1>1, <2>4 DEF Passing
  <2>9. Change(u)
    BY <2>1, <2>5, <2>7, <2>8 DEF Change, Move
  <2>10. \A v \in Thread \ {u} : Passing(v)' <=> Passing(v)
    BY <1>1, <2>4 DEF Passing
  <2>11. QED
    BY <2>4, <2>7, <2>9, <2>10, OneThread
<1>18. ASSUME NEW o \in Object, MonitorEnter(t, o) PROVE ThreadStep
  <2>1. CASE UNCHANGED <<th, engine>>
    <3>1. \A v \in Thread : Passing(v)' <=> Passing(v)
      BY <2>1 DEF engine, Passing
    <3>2. QED
      BY <1>1, <2>1, <3>1, UntouchedThreads DEF engine
  <2> DEFINE q == [th[t] EXCEPT !.count = @ + 1]
             r == [q EXCEPT !.status = "Waiting", !.call = Entering(o)]
  <2>2. CASE /\ Leave([th[t] EXCEPT !.count = @ + 1, !.status = "Waiting",
                                    !.call = Entering(o)])
             /\ th[t].count < MaxRequests /\ requests' = [requests EXCEPT ![o] = Append(@, t)]
    <3>1. Leave(r) /\ MayCall(t)
      BY <1>2, <1>18, <2>2 DEF MonitorEnter
    <3>2. q \in ThreadRecord
      <4>1. th[t].count + 1 \in Int
        BY <1>1 DEF ThreadRecord
      <4>2. QED
        BY <1>1, <4>1, Records
    <3>3. r = [th[t] EXCEPT !.count = @ + 1, !.status = "Waiting", !.call = Entering(o)]
      OBVIOUS
    <3> HIDE DEF q
    <3>4. [q EXCEPT !.status = "Waiting"] \in ThreadRecord
      BY <3>2, Records
    <3>5. r \in ThreadRecord
      BY <3>4, Records
    <3> HIDE DEF r
    <3>6. Put(t, r) /\ ~Passing(t) /\ ~Passing(t)' => Change(t)
      BY <2>2, <3>1, <3>3 DEF Change, Move
    <3>7. QED
      BY <1>3, <3>1, <3>5, <3>6
  <2>3. QED
    BY <1>18, <2>1, <2>2 DEF MonitorEnter
<1>19. ASSUME NEW o \in Object, MonitorExit(t, o) PROVE ThreadStep
  <2>1. CASE UNCHANGED <<th, ready, waiting, current, pc>>
    <3>1. \A v \in Thread : Passing(v)' <=> Passing(v)
      BY <2>1 DEF Passing
    <3>2. QED
      BY <1>1, <2>1, <3>1, UntouchedThreads
  <2>2. CASE ChangeOwner(t, o) /\ UNCHANGED <<current, pc>>
    BY <1>1, <2>2, ChangeOwnerStep
  <2>3. QED
    BY <1>19, <2>1, <2>2 DEF MonitorExit
<1>20. ASSUME NEW h \in Handle, Set(t, h) \/ Reset(t, h) PROVE ThreadStep
  <2>1. /\ UNCHANGED <<th, ready, waiting>>
        /\ UNCHANGED <<current, pc>> \/ pc' = "signal"
    BY <1>20 DEF Set, Reset, SignalObject, engine
  <2>2. \A v \in Thread : Passing(v)' <=> Passing(v)
    <3>1. current' = current /\ pc' \in {"run", "signal"} /\ th[t].status # "Terminated"
      BY <1>1, <1>20 DEF Set, Reset, SignalObject, engine, IInv, ListsAgree
    <3>2. QED
      BY <1>1, <2>1, <3>1 DEF Passing
  <2>3. QED
    BY <1>1, <2>1, <2>2, UntouchedThreads
<1>21. QED
  BY <1>7, <1>8, <1>9, <1>10, <1>11, <1>12, <1>13, <1>14, <1>15, <1>16, <1>17, <1>18,
     <1>19, <1>20 DEF Program
(* TryWaitForSignal finds the first of the handles that is signaled.       *)
LEMMA SignalFound ==
  ASSUME NEW w \in Waits({<<>>} \cup WaitList), Satisfied(w, signaled)
  PROVE  Result(w) \in {HANDLE_ALL} \cup Waitable
<1>1. CASE w.all
  BY <1>1 DEF Result
<1>2. CASE ~w.all
  <2>1. w.handles \in Seq(Waitable)
    <3>1. w.handles \in {<<>>} \cup WaitList
      BY DEF Waits
    <3>2. <<>> \in Seq(Waitable) /\ WaitList \subseteq Seq(Waitable)
      BY DEF Waitable
    <3>3. QED
      BY <3>1, <3>2
  <2>2. Nodes(w.handles) \cap signaled # {}
    BY <1>2 DEF Satisfied
  <2> DEFINE hs == w.handles
             P == {p \in 1 .. Len(hs) : hs[p] \in signaled}
  <2>3. P \in SUBSET Nat /\ P # {} /\ Len(hs) \in Nat
    BY <2>1, <2>2 DEF Nodes
  <2>4. PICK m \in P : \A i \in P : m <= i
    BY <2>3, LeastPosition
  <2>5. \A q \in 1 .. m - 1 : hs[q] \notin signaled
    <3> SUFFICES ASSUME NEW q \in 1 .. m - 1, hs[q] \in signaled PROVE FALSE
      OBVIOUS
    <3>1. m \in 1 .. Len(hs)
      OBVIOUS
    <3>2. q \in 1 .. Len(hs) /\ ~(m <= q)
      BY <2>3, <3>1
    <3>3. QED
      BY <2>4, <3>2
  <2>6. m \in 1 .. Len(hs) /\ hs[m] \in signaled
    OBVIOUS
  <2> HIDE DEF P
  <2>7. \E p \in 1 .. Len(hs) : hs[p] \in signaled /\ \A q \in 1 .. p - 1 : hs[q] \notin signaled
    BY <2>5, <2>6
  <2>8. \E p \in 1 .. Len(hs) : FirstSignaled(w) = hs[p]
    BY <2>7 DEF FirstSignaled
  <2>9. \A p \in 1 .. Len(hs) : hs[p] \in Waitable
    BY <2>1, ElementOfSeq
  <2> HIDE DEF hs
  <2>10. FirstSignaled(w) \in Waitable
    BY <2>8, <2>9
  <2>11. QED
    BY <1>2, <2>10 DEF Result
<1>3. QED
  BY <1>1, <1>2

LEMMA NativeStep ==
  ASSUME Base, Native
  PROVE  ThreadStep
<1>1. /\ IInv /\ Typed /\ EngineTyped /\ Cursors /\ CountsInv /\ MonitorsTyped
      /\ th \in [Thread -> ThreadRecord]
  BY DEF Base, Typed
<1>2. CASE SignalNext
  <2>1. /\ cursor.at \in Nodes(waiting) /\ cursor.at \in Thread
        /\ UNCHANGED <<current, pc>>
    BY <1>1, <1>2, ElementOfSeq DEF SignalNext, Cursors, EngineTyped, Nodes
  <2>2. PICK t \in Thread : t = cursor.at
    BY <2>1
  <2> DEFINE w == th[t].wait
             v == Result(w)
             s == [th EXCEPT ![t].result = v]
  <2>3. CASE w # NoWait /\ Satisfied(w, signaled)
    <3>1. Restart(s, t, TRUE)
      BY <1>2, <2>2, <2>3 DEF SignalNext
    <3>2. th[t] \in ThreadRecord /\ w \in Waits({<<>>} \cup WaitList)
      BY <1>1 DEF ThreadRecord
    <3>3. v \in {HANDLE_ALL} \cup Waitable
      BY <2>3, <3>2, SignalFound
    <3> HIDE DEF v
    <3> DEFINE q == [th[t] EXCEPT !.result = v]
               r == [q EXCEPT !.status = "Ready", !.sleep = IF TRUE THEN FALSE ELSE @]
    <3>4. q \in ThreadRecord
      BY <3>2, <3>3, Records
    <3>5. s \in [Thread -> ThreadRecord] /\ s[t] = q /\ \A u \in Thread \ {t} : s[u] = th[u]
      BY <1>1, <3>4
    <3>6. r = [th[t] EXCEPT !.result = v, !.status = "Ready", !.sleep = FALSE]
      OBVIOUS
    <3> HIDE DEF q, s
    <3>7. /\ Typed' /\ Put(t, r)
          /\ \A u \in Thread \ {t} : th'[u] = th[u] /\ SameLists(u)
      BY <1>1, <3>1, <3>5, RestartThread
    <3> HIDE DEF r
    <3>8. pc = "signal" /\ pc' = "signal"
      BY <1>2 DEF SignalNext
    <3>9. ~Passing(t) /\ ~Passing(t)'
      <4>1. th[t].status # "Terminated"
        BY <1>1, <2>1, <2>2 DEF IInv, ListsAgree
      <4>2. r.status = "Ready" /\ DOMAIN r = DOMAIN th[t] /\ "status" \in DOMAIN th[t]
        BY <3>2, <3>6 DEF ThreadRecord
      <4>3. th'[t].status = "Ready"
        BY <3>7, <4>2 DEF Put, Woken
      <4>4. QED
        BY <3>8, <4>1, <4>3 DEF Passing
    <3>10. Change(t)
      BY <2>1, <2>2, <2>3, <3>3, <3>6, <3>7, <3>9 DEF Change, Move
    <3>11. \A u \in Thread \ {t} : Passing(u)' <=> Passing(u)
      BY <2>1, <3>7 DEF Passing
    <3>12. QED
      BY <2>1, <3>7, <3>10, <3>11, OneThread
  <2>4. CASE ~(w # NoWait /\ Satisfied(w, signaled))
    <3>1. UNCHANGED <<th, ready, waiting>>
      BY <1>2, <2>2, <2>4 DEF SignalNext
    <3>2. \A u \in Thread : Passing(u)' <=> Passing(u)
      BY <2>1, <3>1 DEF Passing
    <3>3. QED
      BY <1>1, <2>1, <3>1, <3>2, UntouchedThreads
  <2>5. QED
    BY <2>3, <2>4
<1>3. CASE SignalEnd
  <2>1. /\ UNCHANGED <<th, ready, waiting, current>> /\ pc = "signal"
        /\ IF th[current].status = "Terminated" THEN pc' = "release" ELSE pc' = "run"
    BY <1>3 DEF SignalEnd, DestroyInstance
  <2>2. \A v \in Thread : Passing(v)' <=> Passing(v)
    BY <2>1 DEF Passing
  <2>3. QED
    BY <1>1, <2>1, <2>2, UntouchedThreads
<1>4. CASE DestroyOwner
  <2>1. /\ cursor.at \in Nodes(locks[current]) /\ current \in Thread
        /\ ChangeOwner(current, cursor.at) /\ UNCHANGED <<current, pc>> /\ pc = "release"
    BY <1>1, <1>4 DEF DestroyOwner, Cursors, IInv, CurrentAlive
  <2>2. locks[current] \in Seq(Object)
    BY <1>1, <2>1 DEF MonitorsTyped
  <2>3. cursor.at \in Object
    BY <2>1, <2>2, ElementOfSeq DEF Nodes
  <2>4. QED
    BY <2>1, <2>3, ChangeOwnerStep
<1>5. CASE DeleteLockRequests
  <2>1. pc = "release" /\ pc' = "idle" /\ current \in Thread
    BY <1>1, <1>5 DEF DeleteLockRequests, IInv, CurrentAlive
  <2>2. PICK t \in Thread : t = current
    BY <2>1
  <2>3. PICK found : 
          LET left == th[t].count - Cardinality(found)
              s == [th EXCEPT ![t].count = left, ![t].exception = FALSE, ![t].call = Exited]
          IN /\ found \subseteq RequestsOf(t)
             /\ IF found = {} THEN th' = s /\ UNCHANGED <<ready, waiting>>
                ELSE IF left = 0 THEN Restart(s, t, FALSE)
                ELSE th' = [s EXCEPT ![t].status = "Waiting"] /\ UNCHANGED <<ready, waiting>>
    <3> DEFINE searched == IF th[t].call = Exited THEN {}
                           ELSE {o \in Object : Owner(o) \in ready \cup Nodes(waiting)}
               found == {r \in Requests : r[1] \in searched /\ RequestOf(r) = t}
               left == th[t].count - Cardinality(found)
               s == [th EXCEPT ![t].count = left, ![t].exception = FALSE, ![t].call = Exited]
    <3>1. found \subseteq RequestsOf(t)
      BY DEF RequestsOf
    <3>2. IF found = {} THEN th' = s /\ UNCHANGED <<ready, waiting>>
          ELSE IF left = 0 THEN Restart(s, t, FALSE)
          ELSE th' = [s EXCEPT ![t].status = "Waiting"] /\ UNCHANGED <<ready, waiting>>
      BY <1>5, <2>2 DEF DeleteLockRequests
    <3> HIDE DEF found
    <3>3. QED
      BY <3>1, <3>2
  <2> DEFINE left == th[t].count - Cardinality(found)
             q == [th[t] EXCEPT !.count = left, !.exception = FALSE, !.call = Exited]
             s == [th EXCEPT ![t].count = left, ![t].exception = FALSE, ![t].call = Exited]
  <2>4. /\ th[t].count \in Nat /\ Cardinality(found) \in Nat
        /\ Cardinality(found) <= th[t].count
        /\ found = {} <=> Cardinality(found) = 0
    <3>1. IsFiniteSet(RequestsOf(t)) /\ th[t].count = Cardinality(RequestsOf(t))
      BY <1>1 DEF CountsInv
    <3>2. found \in SUBSET RequestsOf(t)
      BY <2>3
    <3>3. IsFiniteSet(found) /\ Cardinality(found) <= Cardinality(RequestsOf(t))
      BY <3>1, <3>2, FS_Subset
    <3>4. QED
      BY <3>1, <3>3, FS_CardinalityType, FS_EmptySet
  <2>5. left \in 0 .. th[t].count /\ (found = {} <=> left = th[t].count) /\ left \in Int
    BY <2>4
  <2>6. IF found = {} THEN th' = s /\ UNCHANGED <<ready, waiting>>
        ELSE IF left = 0 THEN Restart(s, t, FALSE)
        ELSE th' = [s EXCEPT ![t].status = "Waiting"] /\ UNCHANGED <<ready, waiting>>
    BY <2>3
  <2> HIDE DEF left
  <2>7. q \in ThreadRecord
    <3>1. [th[t] EXCEPT !.count = left] \in ThreadRecord
      BY <1>1, <2>5, Records
    <3>2. [th[t] EXCEPT !.count = left, !.exception = FALSE] \in ThreadRecord
      BY <3>1, Records
    <3>3. QED
      BY <3>2, Records
  <2>8. [q EXCEPT !.status = "Waiting"] \in ThreadRecord
    BY <2>7, Records
  <2>9. s = [th EXCEPT ![t] = q]
    BY <1>1
  <2>10. s \in [Thread -> ThreadRecord] /\ s[t] = q /\ \A u \in Thread \ {t} : s[u] = th[u]
    BY <1>1, <2>7, <2>9
  <2>11. Passing(t) /\ ~Passing(t)' /\ pc = "release" /\ pc' = "idle"
    BY <2>1, <2>2 DEF Passing
  <2> HIDE DEF s
  <2>12. CASE found = {}
    <3>1. th' = s /\ UNCHANGED <<ready, waiting>> /\ left = th[t].count
      BY <2>5, <2>6, <2>12
    <3>2. Typed' /\ th'[t] = q /\ \A u \in Thread \ {t} : th'[u] = th[u]
      BY <2>10, <3>1 DEF Typed
    <3>3. \A u \in Thread : SameLists(u)
      BY <3>1 DEF SameLists, Nodes
    <3>4. Change(t)
      BY <2>11, <3>1, <3>2, <3>3 DEF Change, Buried
    <3>5. \A v \in Thread \ {t} : Passing(v)' <=> Passing(v)
      BY <2>1, <2>2 DEF Passing
    <3>6. QED
      BY <2>1, <2>2, <3>2, <3>3, <3>4, <3>5, OneThread
  <2>13. CASE found # {} /\ left = 0
    <3> DEFINE r == [q EXCEPT !.status = "Ready", !.sleep = IF FALSE THEN FALSE ELSE @]
    <3>0. Restart(s, t, FALSE)
      BY <2>6, <2>13
    <3>1. Restart(s, t, FALSE) /\ th[t].count > 0
      <4>1. left # th[t].count
        BY <2>5, <2>13
      <4>2. 0 # th[t].count
        BY <4>1, <2>13
      <4>3. th[t].count > 0
        BY <2>4, <4>2
      <4>4. QED
        BY <3>0, <4>3
    <3>2. r = [q EXCEPT !.status = "Ready"]
      BY <2>7 DEF ThreadRecord
    <3>3. q = [th[t] EXCEPT !.count = 0, !.exception = FALSE, !.call = Exited]
      BY <2>13
    <3> HIDE DEF q
    <3>4. /\ Typed' /\ Put(t, r)
          /\ \A u \in Thread \ {t} : th'[u] = th[u] /\ SameLists(u)
      BY <1>1, <2>10, <3>1, RestartThread
    <3> HIDE DEF r
    <3>5. Change(t)
      BY <2>11, <3>1, <3>2, <3>3, <3>4 DEF Change, Buried
    <3>6. \A v \in Thread \ {t} : Passing(v)' <=> Passing(v)
      BY <2>1, <2>2 DEF Passing
    <3>7. QED
      BY <2>1, <2>2, <3>4, <3>5, <3>6, OneThread
  <2>14. CASE found # {} /\ left # 0
    <3>1. th' = [s EXCEPT ![t].status = "Waiting"] /\ UNCHANGED <<ready, waiting>>
      BY <2>6, <2>14
    <3>2. left \in 1 .. th[t].count - 1
      BY <2>4, <2>5, <2>14
    <3>3. Typed' /\ th'[t] = [q EXCEPT !.status = "Waiting"]
          /\ \A u \in Thread \ {t} : th'[u] = th[u]
      BY <2>8, <2>10, <3>1 DEF Typed
    <3>4. \A u \in Thread : SameLists(u)
      BY <3>1 DEF SameLists, Nodes
    <3>5. Change(t)
      BY <2>11, <3>2, <3>3, <3>4 DEF Change, Buried
    <3>6. \A v \in Thread \ {t} : Passing(v)' <=> Passing(v)
      BY <2>1, <2>2 DEF Passing
    <3>7. QED
      BY <2>1, <2>2, <3>3, <3>4, <3>5, <3>6, OneThread
  <2>15. QED
    BY <2>12, <2>13, <2>14
<1>6. QED
  BY <1>2, <1>3, <1>4, <1>5 DEF Native

(* What any step does to a thread. *)
LEMMA ThreadSteps ==
  ASSUME Base, [Next]_vars
  PROVE  ThreadStep
<1>1. IInv /\ Typed /\ th \in [Thread -> ThreadRecord]
  BY DEF Base, Typed
<1>2. ASSUME NEW t \in Thread, Dispatch(t) PROVE ThreadStep
  <2>1. /\ pc = "idle" /\ t \in ready /\ current' = t /\ pc' = "run"
        /\ UNCHANGED <<ready, waiting>>
    BY <1>2 DEF Dispatch
  <2>2. CASE th[t].exception \/ th[t].call = Exited
    <3>1. UNCHANGED th
      BY <1>2, <2>2 DEF Dispatch
    <3>2. \A v \in Thread : Passing(v)' <=> Passing(v)
      BY <2>1 DEF Passing
    <3>3. QED
      BY <1>1, <2>1, <3>1, <3>2, UntouchedThreads
  <2>3. CASE ~(th[t].exception \/ th[t].call = Exited)
    <3> DEFINE r == [th[t] EXCEPT !.call = NoCall, !.result = INIT]
    <3>1. th' = [th EXCEPT ![t].call = NoCall, ![t].result = INIT]
      BY <1>2, <2>3 DEF Dispatch
    <3>2. th' = [th EXCEPT ![t] = r]
      BY <1>1, <3>1
    <3>3. r \in ThreadRecord
      <4>1. [th[t] EXCEPT !.call = NoCall] \in ThreadRecord
        BY <1>1, Records
      <4>2. QED
        BY <4>1, Records
    <3>4. Typed' /\ th'[t] = r /\ \A u \in Thread \ {t} : th'[u] = th[u]
      BY <1>1, <3>2, <3>3 DEF Typed
    <3>5. \A u \in Thread : SameLists(u)
      BY <2>1 DEF SameLists, Nodes
    <3>6. Change(t)
      BY <2>1, <2>3, <3>4, <3>5 DEF Change, Advance, Passing
    <3>7. \A v \in Thread \ {t} : Passing(v)' <=> Passing(v)
      BY <2>1 DEF Passing
    <3>8. QED
      BY <2>1, <3>4, <3>5, <3>6, <3>7, OneThread
  <2>4. QED
    BY <2>2, <2>3
<1>3. ASSUME NEW t \in Thread, CheckThreads(t) PROVE ThreadStep
  <2>1. pc = "idle" /\ UNCHANGED <<current, pc>> /\ ~th[t].suspended /\ th[t] \in ThreadRecord
    BY <1>1, <1>3 DEF CheckThreads
  <2>2. ~Passing(t) /\ ~Passing(t)'
    BY <2>1 DEF Passing
  <2>3. CASE th[t].sleep /\ Restart([th EXCEPT ![t].sleep = FALSE], t, FALSE)
    <3> DEFINE q == [th[t] EXCEPT !.sleep = FALSE]
               s == [th EXCEPT ![t].sleep = FALSE]
               r == [q EXCEPT !.status = "Ready", !.sleep = IF FALSE THEN FALSE ELSE @]
    <3>1. q \in ThreadRecord
      BY <2>1, Records
    <3>2. s \in [Thread -> ThreadRecord] /\ s[t] = q /\ \A u \in Thread \ {t} : s[u] = th[u]
      BY <1>1, <3>1
    <3>3. r = [th[t] EXCEPT !.sleep = FALSE, !.status = "Ready"]
      BY <2>1, <3>1 DEF ThreadRecord
    <3> HIDE DEF q, s
    <3>4. Restart(s, t, FALSE)
      BY <2>3 DEF s
    <3>5. /\ Typed' /\ Put(t, r)
          /\ \A u \in Thread \ {t} : th'[u] = th[u] /\ SameLists(u)
      BY <1>1, <3>2, <3>4, RestartThread
    <3> HIDE DEF r
    <3>6. Change(t)
      BY <2>2, <2>3, <3>3, <3>5 DEF Change, Move
    <3>7. \A v \in Thread \ {t} : Passing(v)' <=> Passing(v)
      BY <2>1 DEF Passing
    <3>8. QED
      BY <2>1, <3>5, <3>6, <3>7, OneThread
  <2>4. CASE th[t].wait.finite /\ Restart([th EXCEPT ![t].result = TIMEOUT], t, TRUE)
    <3> DEFINE q == [th[t] EXCEPT !.result = TIMEOUT]
               s == [th EXCEPT ![t].result = TIMEOUT]
               r == [q EXCEPT !.status = "Ready", !.sleep = IF TRUE THEN FALSE ELSE @]
    <3>1. q \in ThreadRecord
      BY <2>1, Records
    <3>2. s \in [Thread -> ThreadRecord] /\ s[t] = q /\ \A u \in Thread \ {t} : s[u] = th[u]
      BY <1>1, <3>1
    <3>3. r = [th[t] EXCEPT !.result = TIMEOUT, !.status = "Ready", !.sleep = FALSE]
      OBVIOUS
    <3> HIDE DEF q, s
    <3>4. Restart(s, t, TRUE)
      BY <2>4 DEF s
    <3>5. /\ Typed' /\ Put(t, r)
          /\ \A u \in Thread \ {t} : th'[u] = th[u] /\ SameLists(u)
      BY <1>1, <3>2, <3>4, RestartThread
    <3> HIDE DEF r
    <3>6. th[t].wait # NoWait
      BY <2>4 DEF NoWait
    <3>7. Change(t)
      BY <2>1, <2>2, <3>3, <3>5, <3>6 DEF Change, Move
    <3>8. \A v \in Thread \ {t} : Passing(v)' <=> Passing(v)
      BY <2>1 DEF Passing
    <3>9. QED
      BY <2>1, <3>5, <3>7, <3>8, OneThread
  <2>5. QED
    BY <1>3, <2>3, <2>4 DEF CheckThreads
<1>4. ASSUME NEW t \in Thread, Terminate(t) PROVE ThreadStep
  BY <1>4, PassivateStep DEF Terminate
<1>5. CASE UNCHANGED vars
  <2>1. \A v \in Thread : Passing(v)' <=> Passing(v)
    BY <1>5 DEF vars, Passing
  <2>2. QED
    BY <1>1, <1>5, <2>1, UntouchedThreads DEF vars
<1>6. QED
  BY <1>2, <1>3, <1>4, <1>5, ProgramStep, NativeStep DEF Next

----------------------------------------------------------------------------
(* What holds of the fields q of a thread; dying: Passivate is at work for *)
(* it.  Whoever waits or sleeps is in the native that said so.  Only Abort *)
(* lets a thread go on with requests in the queues.  Who comes out of Enter *)
(* has no request left, who stays in it has; who comes out of Wait has a   *)
(* result.  Once Passivate is over there is no frame and no exception left, *)
(* so that a dead thread that is made Ready again has nothing to run.      *)
Sound(q, dying) ==
  LET dead == q.status = "Terminated" \/ dying
  IN /\ dead => q.wait = NoWait /\ ~q.sleep
     /\ q.status = "Terminated" => dying \/ (q.call = Exited /\ ~q.exception)
     /\ q.sleep => q.call = Calling("Sleep")
     /\ q.wait # NoWait => q.call = Calling("Wait")
     /\ q.status = "Unstarted" => q = NewThread
     /\ q.exception => q.aborted \/ dying
     /\ q.count > 0 /\ q.call.fn \notin {"Enter", "exited"} => q.aborted \/ dying
     /\ q.status = "Ready" /\ q.call.fn = "Enter" /\ ~q.exception => q.count = 0
     /\ q.status = "Waiting" /\ q.count = 0
          => q.call.fn # "Enter" /\ (q.call.fn = "Wait" => q.wait # NoWait)
     /\ q.status = "Ready" /\ q.call.fn = "Wait" => q.result # INIT \/ q.aborted \/ dying
     /\ q.status = "Waiting" /\ q.wait # NoWait /\ q.result # INIT => q.aborted

(* A thread in the ready list may run, whatever its status says.           *)
MayRun(q, dying) ==
  /\ q.wait = NoWait /\ ~q.sleep
  /\ q.call.fn = "Enter" /\ ~q.exception => q.count = 0
  /\ q.call.fn = "Wait" => q.result # INIT \/ q.aborted \/ dying

Fate(t) == /\ Sound(th[t], Passing(t))
           /\ t \in ready => MayRun(th[t], Passing(t))

Fates == \A t \in Thread : Fate(t)

FieldNames == {"status", "suspended", "aborted", "exception", "count", "wait", "result",
               "sleep", "call"}

LEMMA FieldsThere ==
  ASSUME NEW q \in ThreadRecord
  PROVE  /\ DOMAIN q = FieldNames /\ q.count \in Int
         /\ q.suspended \in BOOLEAN /\ q.sleep \in BOOLEAN /\ q.exception \in BOOLEAN
         /\ q.aborted \in BOOLEAN
         /\ q.status \in {"Unstarted", "Ready", "Waiting", "Terminated"}
BY DEF ThreadRecord, FieldNames

(* PutInProperList asks of the fields it is given no more than that.       *)
LEMMA PutFate ==
  ASSUME NEW t \in Thread, NEW q \in ThreadRecord, Put(t, q), Sound(q, Passing(t)')
  PROVE  Fate(t)'
<1>1. DOMAIN q = FieldNames
  BY FieldsThere
<1>2. CASE q.status = "Ready" /\ ~q.suspended
  <2> DEFINE n == Woken(q)
  <2>1. /\ n.status = q.status /\ n.aborted = q.aborted /\ n.exception = q.exception
        /\ n.count = q.count /\ n.result = q.result /\ n.call = q.call
        /\ n.wait = NoWait /\ n.sleep = FALSE
    BY <1>1 DEF Woken, FieldNames
  <2>2. th'[t] = n
    BY <1>2 DEF Put
  <2> HIDE DEF n
  <2>3. Sound(n, Passing(t)')
    BY <1>2, <2>1 DEF Sound
  <2>4. MayRun(n, Passing(t)')
    BY <1>2, <2>1 DEF Sound, MayRun
  <2>5. QED
    BY <2>2, <2>3, <2>4 DEF Fate
<1>3. CASE ~(q.status = "Ready" /\ ~q.suspended)
  BY <1>3 DEF Put, Fate
<1>4. QED
  BY <1>2, <1>3

LEMMA AdvanceFate ==
  ASSUME Typed, IInv, NEW t \in Thread, Fate(t), Advance(t)
  PROVE  Fate(t)'
<1> DEFINE r == th[t]
<1>1. r \in ThreadRecord
  BY DEF Typed
<1>2. /\ DOMAIN r = FieldNames /\ r.count \in Int
      /\ r.exception \in BOOLEAN /\ r.aborted \in BOOLEAN
  BY <1>1, FieldsThere
<1>3. r.status \in {"Ready", "Waiting"}
  BY DEF IInv, ListsAgree, Statuses, Alive, Advance
<1>4. Sound(r, FALSE) /\ MayRun(r, FALSE) /\ Passing(t)' = FALSE
  <2>1. Passing(t) = FALSE /\ Passing(t)' = FALSE
    BY DEF Advance, Passing
  <2>2. Sound(r, Passing(t)) /\ (t \in ready => MayRun(r, Passing(t)))
    BY DEF Fate
  <2>3. QED
    BY <2>1, <2>2 DEF Advance
<1>5. ASSUME NEW q, q.status = r.status, q.aborted = r.aborted, q.count = r.count,
             q.wait = r.wait, q.sleep = r.sleep, q.call = NoCall, q.exception => q.aborted,
             r.count > 0 => r.aborted, th'[t] = q
      PROVE  Fate(t)'
  <2>1. Sound(q, FALSE)
    BY <1>3, <1>4, <1>5 DEF Sound, MayRun, NoCall
  <2>2. MayRun(q, FALSE)
    BY <1>3, <1>4, <1>5 DEF Sound, MayRun, NoCall
  <2>3. QED
    BY ONLY <1>4, <1>5, <2>1, <2>2 DEF Fate
<1>6. CASE /\ ~r.exception /\ r.call # Exited
           /\ th'[t] = [r EXCEPT !.call = NoCall, !.result = INIT]
  <2> DEFINE q == [r EXCEPT !.call = NoCall, !.result = INIT]
  <2>1. /\ q.status = r.status /\ q.aborted = r.aborted /\ q.count = r.count
        /\ q.wait = r.wait /\ q.sleep = r.sleep /\ q.call = NoCall
        /\ q.exception = r.exception
    BY <1>2 DEF FieldNames
  <2>2. r.call.fn # "exited"
    BY <1>1, <1>6 DEF ThreadRecord, NoCall, Exited, Calling, Entering
  <2>3. r.count > 0 => r.aborted
    BY <1>2, <1>4, <1>6, <2>2 DEF Sound, MayRun
  <2> HIDE DEF q
  <2>4. th'[t] = q
    BY <1>6 DEF q
  <2>5. QED
    BY <1>5, <1>6, <2>1, <2>3, <2>4
<1>7. CASE /\ r.exception
           /\ th'[t] = [r EXCEPT !.exception = FALSE, !.call = NoCall, !.result = INIT]
  <2> DEFINE q == [r EXCEPT !.exception = FALSE, !.call = NoCall, !.result = INIT]
  <2>1. /\ q.status = r.status /\ q.aborted = r.aborted /\ q.count = r.count
        /\ q.wait = r.wait /\ q.sleep = r.sleep /\ q.call = NoCall
        /\ q.exception = FALSE
    BY <1>2 DEF FieldNames
  <2>2. r.aborted
    BY <1>4, <1>7 DEF Sound
  <2> HIDE DEF q
  <2>3. th'[t] = q
    BY <1>7 DEF q
  <2>4. QED
    BY <1>5, <2>1, <2>2, <2>3
<1>8. CASE r.aborted /\ r.call = NoCall /\ th'[t] = [r EXCEPT !.exception = TRUE]
  <2> DEFINE q == [r EXCEPT !.exception = TRUE]
  <2>1. /\ q.status = r.status /\ q.aborted = r.aborted /\ q.count = r.count
        /\ q.wait = r.wait /\ q.sleep = r.sleep /\ q.call = NoCall
    BY <1>2, <1>8 DEF FieldNames
  <2> HIDE DEF q
  <2>2. th'[t] = q
    BY <1>8 DEF q
  <2>3. QED
    BY <1>5, <1>8, <2>1, <2>2
<1>9. QED
  BY <1>6, <1>7, <1>8 DEF Advance

LEMMA MoveFate ==
  ASSUME Typed, IInv, NEW t \in Thread, th[t].count \in Nat, Fate(t), Move(t)
  PROVE  Fate(t)'
<1> DEFINE r == th[t]
<1>1. r \in ThreadRecord
  BY DEF Typed
<1>2. /\ DOMAIN r = FieldNames /\ r.count \in Int
      /\ r.suspended \in BOOLEAN /\ r.sleep \in BOOLEAN /\ r.exception \in BOOLEAN
      /\ r.aborted \in BOOLEAN
  BY <1>1, FieldsThere
<1>3. /\ t \in ready => r.status \in {"Ready", "Waiting"}
      /\ t \in Nodes(waiting) => r.status \in {"Ready", "Waiting"}
  BY DEF IInv, ListsAgree, Statuses, Alive
<1>4. Sound(r, FALSE) /\ (t \in ready => MayRun(r, FALSE)) /\ Passing(t)' = FALSE
  <2>1. Passing(t) = FALSE /\ Passing(t)' = FALSE
    BY DEF Move, Passing
  <2>2. Sound(r, Passing(t)) /\ (t \in ready => MayRun(r, Passing(t)))
    BY DEF Fate
  <2>3. QED
    BY <2>1, <2>2
<1>5. ASSUME NEW q \in ThreadRecord, Put(t, q), Sound(q, FALSE)
      PROVE  Fate(t)'
  <2>1. Sound(q, Passing(t)')
    BY <1>4, <1>5 DEF Sound
  <2>2. QED
    BY <1>5, <2>1, PutFate
<1>6. CASE MayCall(t) /\ Put(t, r)
  BY <1>1, <1>4, <1>5, <1>6
<1>7. CASE r.status = "Unstarted" /\ Put(t, [r EXCEPT !.status = "Ready"])
  <2> DEFINE q == [r EXCEPT !.status = "Ready"]
  <2>1. r = NewThread
    BY <1>4, <1>7 DEF Sound
  <2>2. /\ q.status = "Ready" /\ q.exception = FALSE /\ q.count = 0 /\ q.wait = NoWait
        /\ q.sleep = FALSE /\ q.call = NoCall
    BY <2>1 DEF NewThread
  <2>3. q \in ThreadRecord
    BY <1>1, Records
  <2> HIDE DEF q
  <2>4. Sound(q, FALSE)
    BY <2>2 DEF Sound, NoCall
  <2>5. QED
    BY <1>5, <1>7, <2>3, <2>4 DEF q
<1>8. CASE r.status \in Alive /\ Put(t, [r EXCEPT !.suspended = TRUE])
  <2> DEFINE q == [r EXCEPT !.suspended = TRUE]
  <2>1. /\ q.status = r.status /\ q.aborted = r.aborted /\ q.exception = r.exception
        /\ q.count = r.count /\ q.result = r.result /\ q.call = r.call
        /\ q.wait = r.wait /\ q.sleep = r.sleep
    BY <1>2 DEF FieldNames
  <2>2. q \in ThreadRecord
    BY <1>1, Records
  <2> HIDE DEF q
  <2>3. Sound(q, FALSE)
    BY <1>4, <1>8, <2>1 DEF Sound, Alive
  <2>4. QED
    BY <1>5, <1>8, <2>2, <2>3 DEF q
<1>9. CASE r.status \in Alive /\ Put(t, [r EXCEPT !.suspended = FALSE])
  <2> DEFINE q == [r EXCEPT !.suspended = FALSE]
  <2>1. /\ q.status = r.status /\ q.aborted = r.aborted /\ q.exception = r.exception
        /\ q.count = r.count /\ q.result = r.result /\ q.call = r.call
        /\ q.wait = r.wait /\ q.sleep = r.sleep
    BY <1>2 DEF FieldNames
  <2>2. q \in ThreadRecord
    BY <1>1, Records
  <2> HIDE DEF q
  <2>3. Sound(q, FALSE)
    BY <1>4, <1>9, <2>1 DEF Sound, Alive
  <2>4. QED
    BY <1>5, <1>9, <2>2, <2>3 DEF q
<1>10. CASE /\ r.status \in Alive
            /\ Put(t, [r EXCEPT !.exception = TRUE, !.aborted = TRUE,
                                !.status = "Ready", !.sleep = FALSE])
  <2> DEFINE q == [r EXCEPT !.exception = TRUE, !.aborted = TRUE,
                            !.status = "Ready", !.sleep = FALSE]
  <2>1. /\ q.status = "Ready" /\ q.aborted = TRUE /\ q.exception = TRUE
        /\ q.call = r.call /\ q.wait = r.wait /\ q.sleep = FALSE
    BY <1>2 DEF FieldNames
  <2>2. q \in ThreadRecord
    <3>1. [r EXCEPT !.exception = TRUE] \in ThreadRecord
      BY <1>1, Records
    <3>2. [r EXCEPT !.exception = TRUE, !.aborted = TRUE] \in ThreadRecord
      BY <3>1, Records
    <3>3. [r EXCEPT !.exception = TRUE, !.aborted = TRUE, !.status = "Ready"] \in ThreadRecord
      BY <3>2, Records
    <3>4. QED
      BY <3>3, Records
  <2> HIDE DEF q
  <2>3. Sound(q, FALSE)
    BY <1>4, <2>1 DEF Sound
  <2>4. QED
    BY <1>5, <1>10, <2>2, <2>3 DEF q
<1>11. ASSUME NEW finite \in BOOLEAN, MayCall(t),
              Put(t, [r EXCEPT !.status = "Waiting", !.sleep = finite,
                               !.call = Calling("Sleep")])
       PROVE  Fate(t)'
  <2> DEFINE q == [r EXCEPT !.status = "Waiting", !.sleep = finite, !.call = Calling("Sleep")]
  <2>1. /\ q.status = "Waiting" /\ q.aborted = r.aborted /\ q.exception = r.exception
        /\ q.count = r.count /\ q.result = r.result /\ q.call = Calling("Sleep")
        /\ q.wait = r.wait
    BY <1>2 DEF FieldNames
  <2>2. q \in ThreadRecord
    <3>1. [r EXCEPT !.status = "Waiting"] \in ThreadRecord
      BY <1>1, Records
    <3>2. [r EXCEPT !.status = "Waiting", !.sleep = finite] \in ThreadRecord
      BY <3>1, Records
    <3>3. QED
      BY <3>2, Records
  <2>3. /\ r.wait = NoWait /\ ~r.exception /\ (r.count > 0 => r.aborted)
    BY <1>3, <1>4, <1>11 DEF MayCall, MayRun, Sound, NoCall
  <2> HIDE DEF q
  <2>4. Sound(q, FALSE)
    BY <2>1, <2>3 DEF Sound, Calling
  <2>5. QED
    BY <1>5, <1>11, <2>2, <2>4 DEF q
<1>12. ASSUME NEW w \in Waits(WaitList), MayCall(t),
              Put(t, [r EXCEPT !.wait = w, !.status = "Waiting", !.result = INIT,
                               !.call = Calling("Wait")])
       PROVE  Fate(t)'
  <2> DEFINE q == [r EXCEPT !.wait = w, !.status = "Waiting", !.result = INIT,
                            !.call = Calling("Wait")]
  <2>1. /\ q.status = "Waiting" /\ q.aborted = r.aborted /\ q.exception = r.exception
        /\ q.count = r.count /\ q.result = INIT /\ q.call = Calling("Wait")
        /\ q.wait = w /\ q.sleep = r.sleep
    BY <1>2 DEF FieldNames
  <2>2. q \in ThreadRecord
    <3>1. w \in Waits({<<>>} \cup WaitList)
      BY DEF Waits
    <3>2. [r EXCEPT !.wait = w] \in ThreadRecord
      BY <1>1, <3>1, Records
    <3>3. [r EXCEPT !.wait = w, !.status = "Waiting"] \in ThreadRecord
      BY <3>2, Records
    <3>4. [r EXCEPT !.wait = w, !.status = "Waiting", !.result = INIT] \in ThreadRecord
      BY <3>3, Records
    <3>5. QED
      BY <3>4, Records
  <2>3. /\ ~r.sleep /\ ~r.exception /\ (r.count > 0 => r.aborted)
    BY <1>3, <1>4, <1>12 DEF MayCall, MayRun, Sound, NoCall
  <2>4. w # NoWait
    <3>1. w.handles \in WaitList
      BY DEF Waits
    <3>2. w.handles # <<>>
      BY <3>1
    <3>3. QED
      BY <3>2 DEF NoWait
  <2> HIDE DEF q
  <2>5. Sound(q, FALSE)
    BY <2>1, <2>3, <2>4 DEF Sound, Calling
  <2>6. QED
    BY <1>5, <1>12, <2>2, <2>5 DEF q
<1>13. ASSUME NEW o \in Object, MayCall(t),
              Put(t, [r EXCEPT !.count = @ + 1, !.status = "Waiting", !.call = Entering(o)])
       PROVE  Fate(t)'
  <2> DEFINE q == [r EXCEPT !.count = @ + 1, !.status = "Waiting", !.call = Entering(o)]
  <2>1. /\ q.status = "Waiting" /\ q.aborted = r.aborted /\ q.exception = r.exception
        /\ q.count = r.count + 1 /\ q.call = Entering(o)
        /\ q.wait = r.wait /\ q.sleep = r.sleep
    BY <1>2 DEF FieldNames
  <2>2. q \in ThreadRecord
    <3>1. [r EXCEPT !.count = @ + 1] \in ThreadRecord
      <4>1. r.count + 1 \in Int
        BY <1>2
      <4>2. QED
        BY <1>1, <4>1, Records
    <3>2. [r EXCEPT !.count = @ + 1, !.status = "Waiting"] \in ThreadRecord
      BY <3>1, Records
    <3>3. QED
      BY <3>2, Records
  <2>3. /\ r.wait = NoWait /\ ~r.sleep /\ ~r.exception
    BY <1>3, <1>4, <1>13 DEF MayCall, MayRun, Sound, NoCall
  <2>4. q.count # 0
    BY <2>1
  <2> HIDE DEF q
  <2>5. Sound(q, FALSE)
    BY <2>1, <2>3, <2>4 DEF Sound, Entering
  <2>6. QED
    BY <1>5, <1>13, <2>2, <2>5 DEF q
<1>14. ASSUME NEW v \in {HANDLE_ALL} \cup Waitable, t \in Nodes(waiting), r.wait # NoWait,
              Put(t, [r EXCEPT !.result = v, !.status = "Ready", !.sleep = FALSE])
       PROVE  Fate(t)'
  <2> DEFINE q == [r EXCEPT !.result = v, !.status = "Ready", !.sleep = FALSE]
  <2>1. /\ q.status = "Ready" /\ q.aborted = r.aborted /\ q.exception = r.exception
        /\ q.count = r.count /\ q.call = r.call
        /\ q.wait = r.wait /\ q.sleep = FALSE /\ q.result = v
    BY <1>2 DEF FieldNames
  <2>2. q \in ThreadRecord
    <3>1. [r EXCEPT !.result = v] \in ThreadRecord
      BY <1>1, Records
    <3>2. [r EXCEPT !.result = v, !.status = "Ready"] \in ThreadRecord
      BY <3>1, Records
    <3>3. QED
      BY <3>2, Records
  <2>3. v # INIT /\ r.call = Calling("Wait") /\ r.status \in {"Ready", "Waiting"}
    BY <1>3, <1>4, <1>14 DEF Sound, INIT, HANDLE_ALL, TIMEOUT
  <2> HIDE DEF q
  <2>4. Sound(q, FALSE)
    BY <1>4, <2>1, <2>3 DEF Sound, Calling
  <2>5. QED
    BY <1>5, <1>14, <2>2, <2>4 DEF q
<1>15. CASE r.sleep /\ Put(t, [r EXCEPT !.sleep = FALSE, !.status = "Ready"])
  <2> DEFINE q == [r EXCEPT !.sleep = FALSE, !.status = "Ready"]
  <2>1. /\ q.status = "Ready" /\ q.aborted = r.aborted /\ q.exception = r.exception
        /\ q.count = r.count /\ q.call = r.call
        /\ q.wait = r.wait /\ q.sleep = FALSE
    BY <1>2 DEF FieldNames
  <2>2. q \in ThreadRecord
    <3>1. [r EXCEPT !.sleep = FALSE] \in ThreadRecord
      BY <1>1, Records
    <3>2. QED
      BY <3>1, Records
  <2>3. r.call = Calling("Sleep") /\ r.status # "Terminated"
    BY <1>4, <1>15 DEF Sound
  <2> HIDE DEF q
  <2>4. Sound(q, FALSE)
    BY <1>4, <2>1, <2>3 DEF Sound, Calling
  <2>5. QED
    BY <1>5, <1>15, <2>2, <2>4 DEF q
<1>16. CASE /\ r.wait # NoWait /\ ~r.suspended
            /\ Put(t, [r EXCEPT !.result = TIMEOUT, !.status = "Ready", !.sleep = FALSE])
  <2> DEFINE q == [r EXCEPT !.result = TIMEOUT, !.status = "Ready", !.sleep = FALSE]
  <2>1. /\ q.status = "Ready" /\ q.aborted = r.aborted /\ q.exception = r.exception
        /\ q.count = r.count /\ q.call = r.call
        /\ q.wait = r.wait /\ q.sleep = FALSE /\ q.result = TIMEOUT
    BY <1>2 DEF FieldNames
  <2>2. q \in ThreadRecord
    <3>1. [r EXCEPT !.result = TIMEOUT] \in ThreadRecord
      BY <1>1, Records
    <3>2. [r EXCEPT !.result = TIMEOUT, !.status = "Ready"] \in ThreadRecord
      BY <3>1, Records
    <3>3. QED
      BY <3>2, Records
  <2>3. INIT # TIMEOUT /\ r.call = Calling("Wait") /\ r.status # "Terminated"
    BY <1>4, <1>16 DEF Sound, INIT, TIMEOUT
  <2> HIDE DEF q
  <2>4. Sound(q, FALSE)
    BY <1>4, <2>1, <2>3 DEF Sound, Calling
  <2>5. QED
    BY <1>5, <1>16, <2>2, <2>4 DEF q
<1>17. QED
  BY <1>6, <1>7, <1>8, <1>9, <1>10, <1>11, <1>12, <1>13, <1>14, <1>15, <1>16 DEF Move

LEMMA LessFate ==
  ASSUME Typed, IInv, NEW t \in Thread, th[t].count \in Nat, Fate(t), Less(t)
  PROVE  Fate(t)'
<1> DEFINE r == th[t]
           p == Passing(t)
<1>1. r \in ThreadRecord /\ r.count > 0
  BY DEF Typed, Less
<1>2. /\ DOMAIN r = FieldNames
      /\ r.status \in {"Unstarted", "Ready", "Waiting", "Terminated"}
  BY <1>1, FieldsThere
<1>3. p \in BOOLEAN /\ Passing(t)' = p
  BY DEF Less, Passing
<1>4. Sound(r, p) /\ (t \in ready => MayRun(r, p))
  BY DEF Fate
<1>5. /\ (r.status = "Terminated" \/ p) => r.wait = NoWait /\ ~r.sleep
      /\ r.status = "Terminated" => p \/ (r.call = Exited /\ ~r.exception)
      /\ r.status # "Unstarted"
      /\ r.sleep => r.call = Calling("Sleep")
      /\ r.wait # NoWait => r.call = Calling("Wait")
      /\ r.exception => r.aborted \/ p
      /\ r.call.fn \notin {"Enter", "exited"} => r.aborted \/ p
  <2>1. r.status # "Unstarted"
    BY <1>1, <1>4 DEF Sound, NewThread
  <2>2. QED
    BY <1>1, <1>4, <2>1 DEF Sound
<1>6. CASE r.count = 1
  <2> DEFINE q == [r EXCEPT !.count = 0, !.status = "Ready"]
  <2>1. /\ q.status = "Ready" /\ q.aborted = r.aborted /\ q.exception = r.exception
        /\ q.count = 0 /\ q.call = r.call /\ q.wait = r.wait /\ q.sleep = r.sleep
    BY <1>2 DEF FieldNames
  <2>2. q \in ThreadRecord
    <3>1. [r EXCEPT !.count = 0] \in ThreadRecord
      <4>1. 0 \in Int
        OBVIOUS
      <4>2. QED
        BY <1>1, <4>1, Records
    <3>2. QED
      BY <3>1, Records
  <2>3. Put(t, q)
    BY <1>6 DEF Less
  <2> HIDE DEF q, p
  <2>4. Sound(q, p)
    BY <1>5, <2>1 DEF Sound, Calling, Exited
  <2>5. QED
    BY <1>3, <2>2, <2>3, <2>4, PutFate
<1>7. CASE r.count # 1
  <2> DEFINE q == [r EXCEPT !.count = @ - 1, !.status = "Waiting"]
  <2>1. /\ q.status = "Waiting" /\ q.aborted = r.aborted /\ q.exception = r.exception
        /\ q.count = r.count - 1 /\ q.call = r.call /\ q.wait = r.wait /\ q.sleep = r.sleep
        /\ q.result = r.result
    BY <1>2 DEF FieldNames
  <2>2. q.count > 0
    BY <1>1, <1>7, <2>1
  <2>3. th'[t] = q /\ SameLists(t)
    BY <1>7 DEF Less
  <2>4. t \in ready' <=> t \in ready
    BY <2>3 DEF SameLists
  <2> HIDE DEF q, p
  <2>5. Sound(q, p)
    BY <1>5, <2>1, <2>2 DEF Sound, Calling, Exited
  <2>6. t \in ready => MayRun(q, p)
    <3>1. t \in ready /\ r.call.fn = "Enter" => r.exception
      BY <1>1, <1>4 DEF MayRun
    <3>2. QED
      BY <1>4, <2>1, <3>1 DEF MayRun
  <2>7. QED
    BY <1>3, <2>3, <2>4, <2>5, <2>6 DEF Fate
<1>8. QED
  BY <1>6, <1>7

LEMMA StopFate ==
  ASSUME Typed, NEW t \in Thread, Stop(t)
  PROVE  Fate(t)'
<1> DEFINE r == th[t]
           q == [r EXCEPT !.status = "Terminated", !.suspended = FALSE,
                          !.aborted = FALSE, !.wait = NoWait, !.sleep = FALSE]
<1>1. DOMAIN r = FieldNames
  BY FieldsThere DEF Typed
<1>2. q.status = "Terminated" /\ q.wait = NoWait /\ q.sleep = FALSE
  BY <1>1 DEF FieldNames
<1>3. Passing(t)' = TRUE
  BY DEF Passing, Stop
<1>4. th'[t] = q /\ t \notin ready'
  BY DEF Stop
<1> HIDE DEF q
<1>5. Sound(q, TRUE)
  BY <1>2 DEF Sound
<1>6. QED
  BY <1>3, <1>4, <1>5 DEF Fate

LEMMA BuriedFate ==
  ASSUME Typed, IInv, NEW t \in Thread, th[t].count \in Nat, Fate(t), Buried(t)
  PROVE  Fate(t)'
<1> DEFINE r == th[t]
<1>1. r \in ThreadRecord
  BY DEF Typed
<1>2. DOMAIN r = FieldNames
  BY <1>1, FieldsThere
<1>3. Passing(t) = TRUE /\ Passing(t)' = FALSE
  BY DEF Buried, Passing
<1>4. Sound(r, TRUE)
  BY <1>3 DEF Fate
<1>5. r.wait = NoWait /\ r.sleep = FALSE
  BY <1>1, <1>4, FieldsThere DEF Sound
<1>6. r.status # "Unstarted"
  <2>1. t = current /\ pc # "idle"
    BY DEF Buried, Passing
  <2>2. QED
    BY <2>1 DEF IInv, CurrentAlive, Alive
<1>7. ASSUME NEW left \in 0 .. r.count, th'[t] = [r EXCEPT !.count = left, !.exception = FALSE, !.call = Exited]
      PROVE  Fate(t)'
  <2> DEFINE q == [r EXCEPT !.count = left, !.exception = FALSE, !.call = Exited]
  <2>1. /\ q.status = r.status /\ q.exception = FALSE /\ q.call = Exited
        /\ q.wait = r.wait /\ q.sleep = r.sleep
    BY <1>2 DEF FieldNames
  <2>2. r.status \in {"Ready", "Waiting", "Terminated"}
    BY <1>1, <1>6, FieldsThere
  <2> HIDE DEF q
  <2>3. Sound(q, FALSE) /\ MayRun(q, FALSE)
    BY <1>5, <2>1, <2>2 DEF Sound, MayRun, Exited
  <2>4. th'[t] = q
    BY <1>7 DEF q
  <2>5. QED
    BY <1>3, <2>3, <2>4 DEF Fate
<1>8. ASSUME Put(t, [r EXCEPT !.count = 0, !.exception = FALSE, !.call = Exited,
                              !.status = "Ready"])
      PROVE  Fate(t)'
  <2> DEFINE q == [r EXCEPT !.count = 0, !.exception = FALSE, !.call = Exited,
                            !.status = "Ready"]
  <2>1. /\ q.status = "Ready" /\ q.exception = FALSE /\ q.call = Exited
        /\ q.wait = r.wait /\ q.sleep = r.sleep
    BY <1>2 DEF FieldNames
  <2>2. q \in ThreadRecord
    <3>1. [r EXCEPT !.count = 0] \in ThreadRecord
      <4>1. 0 \in Int
        OBVIOUS
      <4>2. QED
        BY <1>1, <4>1, Records
    <3>2. [r EXCEPT !.count = 0, !.exception = FALSE] \in ThreadRecord
      BY <3>1, Records
    <3>3. [r EXCEPT !.count = 0, !.exception = FALSE, !.call = Exited] \in ThreadRecord
      BY <3>2, Records
    <3>4. QED
      BY <3>3, Records
  <2>3. Put(t, q)
    BY <1>8
  <2> HIDE DEF q
  <2>4. Sound(q, FALSE)
    BY <1>5, <2>1 DEF Sound, MayRun, Exited
  <2>5. QED
    BY <1>3, <2>2, <2>3, <2>4, PutFate
<1>9. ASSUME NEW left \in 1 .. r.count - 1, SameLists(t),
              th'[t] = [r EXCEPT !.count = left, !.exception = FALSE, !.call = Exited,
                                 !.status = "Waiting"]
       PROVE  Fate(t)'
  <2> DEFINE q == [r EXCEPT !.count = left, !.exception = FALSE, !.call = Exited,
                            !.status = "Waiting"]
  <2>1. /\ q.status = "Waiting" /\ q.exception = FALSE /\ q.call = Exited
        /\ q.wait = r.wait /\ q.sleep = r.sleep
    BY <1>2 DEF FieldNames
  <2>2. th'[t] = q
    BY <1>9
  <2> HIDE DEF q
  <2>3. Sound(q, FALSE) /\ MayRun(q, FALSE)
    BY <1>5, <2>1 DEF Sound, MayRun, Exited
  <2>4. QED
    BY <1>3, <2>2, <2>3 DEF Fate
<1>10. CASE th'[t] = [r EXCEPT !.count = r.count, !.exception = FALSE, !.call = Exited]
  <2>1. r.count \in 0 .. r.count
    OBVIOUS
  <2>2. QED
    BY <1>7, <1>10, <2>1
<1>11. QED
  BY <1>8, <1>9, <1>10 DEF Buried

LEMMA UntouchedFate ==
  ASSUME NEW t \in Thread, Fate(t), Untouched(t)
  PROVE  Fate(t)'
<1>1. Passing(t)' = Passing(t) /\ th'[t] = th[t] /\ (t \in ready' <=> t \in ready)
  BY DEF Untouched, SameLists, Passing
<1>2. QED
  BY <1>1 DEF Fate

LEMMA FatesStep ==
  ASSUME Base, Fates, ThreadStep
  PROVE  Fates'
<1> SUFFICES ASSUME NEW t \in Thread PROVE Fate(t)'
  BY DEF Fates
<1>1. Typed /\ IInv /\ Fate(t) /\ Change(t)
  BY DEF Base, Fates, ThreadStep
<1>2. th[t].count \in Nat
  BY FS_CardinalityType DEF Base, CountsInv
<1>3. QED
  BY <1>1, <1>2, UntouchedFate, AdvanceFate, MoveFate, LessFate, StopFate, BuriedFate DEF Change

----------------------------------------------------------------------------
(* Only a thread in the waiting list has something it waits for.           *)
Parked == \A t \in Thread : t \notin Nodes(waiting) => th[t].wait = NoWait

LEMMA PutParked ==
  ASSUME NEW t, NEW q, "wait" \in DOMAIN q, Put(t, q), ~(t \in Nodes(waiting)')
  PROVE  th'[t].wait = NoWait
BY DEF Put, Woken

LEMMA ParkedStep ==
  ASSUME Base, Parked, ThreadStep
  PROVE  Parked'
<1> SUFFICES ASSUME NEW t \in Thread, ~(t \in Nodes(waiting)') PROVE th'[t].wait = NoWait
  BY DEF Parked
<1> DEFINE r == th[t]
<1>1. /\ t \notin Nodes(waiting) => r.wait = NoWait
      /\ Change(t) /\ "wait" \in DOMAIN r
  BY DEF Parked, Base, Typed, ThreadStep, ThreadRecord
<1>2. CASE Move(t)
  BY <1>1, <1>2, PutParked DEF Move
<1>3. CASE Less(t)
  <2>1. CASE Put(t, [r EXCEPT !.count = 0, !.status = "Ready"])
    BY <1>1, <2>1, PutParked
  <2>2. CASE th'[t] = [r EXCEPT !.count = @ - 1, !.status = "Waiting"] /\ SameLists(t)
    BY <1>1, <2>2 DEF SameLists
  <2>3. QED
    BY <1>3, <2>1, <2>2 DEF Less
<1>4. CASE Buried(t)
  <2> DEFINE s(left) == [r EXCEPT !.count = left, !.exception = FALSE, !.call = Exited]
  <2>1. CASE Put(t, [s(0) EXCEPT !.status = "Ready"])
    BY <1>1, <2>1, PutParked
  <2>2. CASE th'[t] = s(r.count) /\ SameLists(t)
    BY <1>1, <2>2 DEF SameLists
  <2>3. ASSUME NEW left, th'[t] = [s(left) EXCEPT !.status = "Waiting"], SameLists(t)
        PROVE  th'[t].wait = NoWait
    BY <1>1, <2>3 DEF SameLists
  <2>4. QED
    BY <1>4, <2>1, <2>2, <2>3 DEF Buried
<1>5. CASE Stop(t)
  <2>1. DOMAIN r = FieldNames
    BY FieldsThere DEF Base, Typed
  <2>2. QED
    BY <1>5, <2>1 DEF Stop, FieldNames
<1>6. CASE Advance(t)
  BY <1>1, <1>6 DEF Advance, SameLists
<1>7. CASE Untouched(t)
  BY <1>1, <1>7 DEF Untouched, SameLists
<1>8. QED
  BY <1>1, <1>2, <1>3, <1>4, <1>5, <1>6, <1>7 DEF Change

(* What the fates of the threads are worth. *)
LEMMA FatesGive ==
  ASSUME Base, Fates
  PROVE  StillAwaited /\ WaitSatisfied
<1>1. StillAwaited
  <2> SUFFICES ASSUME NEW t \in Nodes(waiting), th[t].status = "Waiting", th[t].count = 0
               PROVE  /\ th[t].call.fn # "Enter"
                      /\ th[t].call.fn = "Wait" => th[t].wait # NoWait
    BY DEF StillAwaited
  <2>1. t \in Thread
    BY ElementOfSeq DEF Base, EngineTyped, Nodes
  <2>2. QED
    BY <2>1 DEF Fates, Fate, Sound
<1>2. WaitSatisfied
  <2> SUFFICES ASSUME pc \in {"idle", "run"}, NEW t \in ready, th[t].call.fn = "Wait",
                      ~th[t].exception
               PROVE  th[t].result # INIT \/ th[t].aborted
    BY DEF WaitSatisfied
  <2>1. t \in Thread /\ Passing(t) = FALSE
    BY DEF Base, EngineTyped, Passing
  <2>2. MayRun(th[t], FALSE)
    BY <2>1 DEF Fates, Fate
  <2>3. QED
    BY <2>2 DEF MayRun
<1>3. QED
  BY <1>1, <1>2

(* Only a grant of a request, and the deletion of the last one, revive.    *)
LEMMA TerminatedStep ==
  ASSUME Base, Fates, ThreadStep, NEW t \in Thread,
         th[t].status = "Terminated", th'[t].status # "Terminated"
  PROVE  th[t].count > 0 /\ th'[t].count < th[t].count
<1> DEFINE r == th[t]
<1>1. Change(t) /\ r \in ThreadRecord /\ IInv
  BY DEF Base, Typed, ThreadStep
<1>2. DOMAIN r = FieldNames /\ r.count \in Nat
  BY <1>1, FieldsThere, FS_CardinalityType DEF Base, CountsInv
<1>3. t \notin ready /\ t \notin Nodes(waiting)
  BY <1>1 DEF IInv, ListsAgree
<1>4. r.wait = NoWait /\ ~r.sleep
  BY DEF Fates, Fate, Sound
<1>5. ~Move(t)
  BY <1>3, <1>4 DEF Move, MayCall, Alive
<1>6. CASE Less(t)
  <2>1. CASE r.count = 1
    <3>1. Put(t, [r EXCEPT !.count = 0, !.status = "Ready"])
      BY <1>6, <2>1 DEF Less
    <3>2. th'[t].count = 0
      BY <1>2, <3>1 DEF Put, Woken, FieldNames
    <3>3. QED
      BY <2>1, <3>2
  <2>2. CASE r.count # 1
    <3>1. th'[t] = [r EXCEPT !.count = @ - 1, !.status = "Waiting"]
      BY <1>6, <2>2 DEF Less
    <3>2. th'[t].count = r.count - 1
      BY <1>2, <3>1 DEF FieldNames
    <3>3. r.count > 0
      BY <1>6 DEF Less
    <3>4. QED
      BY <1>2, <3>2, <3>3
  <2>3. QED
    BY <2>1, <2>2
<1>7. CASE Buried(t)
  <2> DEFINE s(left) == [r EXCEPT !.count = left, !.exception = FALSE, !.call = Exited]
  <2>1. CASE th'[t] = s(r.count)
    BY <1>2, <2>1 DEF FieldNames
  <2>2. CASE r.count > 0 /\ Put(t, [s(0) EXCEPT !.status = "Ready"])
    <3>1. th'[t].count = 0
      BY <1>2, <2>2 DEF Put, Woken, FieldNames
    <3>2. QED
      BY <2>2, <3>1
  <2>3. ASSUME NEW left \in 1 .. r.count - 1, th'[t] = [s(left) EXCEPT !.status = "Waiting"]
        PROVE  r.count > 0 /\ th'[t].count < r.count
    <3>1. th'[t].count = left
      BY <1>2, <2>3 DEF FieldNames
    <3>2. QED
      BY <1>2, <3>1
  <2>4. QED
    BY <1>7, <2>1, <2>2, <2>3 DEF Buried
<1>8. ~Stop(t)
  BY <1>2 DEF Stop, FieldNames
<1>9. QED
  BY <1>1, <1>3, <1>5, <1>6, <1>7, <1>8 DEF Change, Untouched, Advance

LEMMA ReleaseStep ==
  ASSUME Base, Fates, SignalNext, NEW t \in Thread, cursor.at = t, th[t].wait # NoWait
  PROVE  th[t].result = INIT \/ th[t].suspended \/ th[t].aborted
<1>1. t \in Nodes(waiting)
  BY DEF Base, Cursors, SignalNext
<1>2. th[t].suspended \/ th[t].status = "Waiting"
  BY <1>1 DEF Base, IInv, ListsAgree
<1>3. QED
  BY <1>2 DEF Fates, Fate, Sound

----------------------------------------------------------------------------
(* The nodes of s that a loop has passed when it is at e.                  *)
Before(s, e) == {s[i] : i \in 1 .. PosOf(s, e) - 1}

LEMMA Placed ==
  ASSUME NEW T, NEW s \in Seq(T), Distinct(s), NEW p \in 1 .. Len(s)
  PROVE  PosOf(s, s[p]) = p
BY DEF PosOf, Distinct

LEMMA FirstNode ==
  ASSUME NEW T, NEW s \in Seq(T), Distinct(s)
  PROVE  \/ First(s) = Nobody /\ s = <<>>
         \/ First(s) \in Nodes(s) /\ Before(s, First(s)) = {}
<1>1. CASE s = <<>>
  BY <1>1 DEF First
<1>2. CASE s # <<>>
  <2>1. First(s) = s[1] /\ 1 \in 1 .. Len(s)
    BY <1>2 DEF First
  <2>2. PosOf(s, First(s)) = 1
    BY <2>1, Placed
  <2>3. 1 .. 1 - 1 = {}
    OBVIOUS
  <2>4. Before(s, First(s)) = {}
    BY <2>2, <2>3 DEF Before
  <2>5. QED
    BY <2>1, <2>4 DEF Nodes
<1>3. QED
  BY <1>1, <1>2

(* Where the loop is next, also when e has moved meanwhile.                *)
LEMMA NextNode ==
  ASSUME NEW T, NEW s \in Seq(T), Distinct(s), NEW e \in Nodes(s)
  PROVE  \/ /\ Successor(s, e) = Nobody
            /\ Nodes(s) \subseteq Before(s, e) \cup {e}
         \/ /\ Successor(s, e) \in Nodes(s) \ {e}
            /\ Before(s, Successor(s, e)) \subseteq Before(s, e) \cup {e}
            /\ Before(Unlink(s, e), Successor(s, e)) \subseteq Before(s, e)
            /\ Before(LinkAtBack(Unlink(s, e), e), Successor(s, e)) \subseteq Before(s, e)
<1> DEFINE p == PosOf(s, e)
           n == Successor(s, e)
           r == Unlink(s, e)
           q == LinkAtBack(r, e)
<1>1. p \in 1 .. Len(s) /\ s[p] = e /\ Len(s) \in Nat
  BY DEF PosOf, Nodes
<1>2. CASE p = Len(s)
  <2>1. n = Nobody
    BY <1>2 DEF Successor
  <2>2. ASSUME NEW x \in Nodes(s), x # e PROVE x \in Before(s, e)
    <3>1. PICK i \in 1 .. Len(s) : x = s[i]
      BY DEF Nodes
    <3>2. i \in 1 .. p - 1
      BY <1>1, <1>2, <2>2, <3>1
    <3>3. QED
      BY <3>1, <3>2 DEF Before
  <2>3. QED
    BY <2>1, <2>2
<1>3. CASE p # Len(s)
  <2>1. p + 1 \in 1 .. Len(s) /\ p < Len(s)
    BY <1>1, <1>3
  <2>2. n = s[p + 1]
    BY <2>1 DEF Successor
  <2>3. n # e /\ n \in Nodes(s)
    <3>1. p + 1 # p
      BY <1>1
    <3>2. QED
      BY <1>1, <2>1, <2>2, <3>1 DEF Distinct, Nodes
  <2>4. PosOf(s, n) = p + 1
    BY <2>1, <2>2, Placed
  <2> HIDE DEF p, n
  <2>5. Before(s, n) \subseteq Before(s, e) \cup {e}
    <3> SUFFICES ASSUME NEW i \in 1 .. PosOf(s, n) - 1 PROVE s[i] \in Before(s, e) \cup {e}
      BY DEF Before
    <3>1. i \in 1 .. p - 1 \/ i = p
      BY <1>1, <2>4
    <3>2. QED
      BY <1>1, <3>1 DEF Before, p
  <2>6. /\ r \in Seq(T) /\ Distinct(r) /\ Len(r) = Len(s) - 1
        /\ e \notin Nodes(r)
        /\ \A i \in 1 .. Len(s) - 1 : r[i] = IF i < p THEN s[i] ELSE s[i + 1]
    <3>1. r = RemoveAt(s, p)
      BY DEF Unlink, p
    <3>2. r \in Seq(T) /\ Distinct(r) /\ Nodes(r) = Nodes(s) \ {e}
      BY UnlinkNodes
    <3> HIDE DEF r
    <3>3. /\ Len(r) = Len(s) - 1
          /\ \A i \in 1 .. Len(s) - 1 : r[i] = IF i < p THEN s[i] ELSE s[i + 1]
      BY <1>1, <3>1, RemoveProperties
    <3>4. QED
      BY <3>2, <3>3
  <2>7. /\ q \in Seq(T) /\ Distinct(q) /\ Len(q) = Len(s)
        /\ \A i \in 1 .. Len(s) - 1 : q[i] = r[i]
    <3>1. q = Append(r, e)
      BY <2>6 DEF LinkAtBack, Unlink
    <3>2. s[p] \in T
      BY <1>1, ElementOfSeq
    <3>3. e \in T
      BY <1>1, <3>2
    <3> HIDE DEF r
    <3>4. q \in Seq(T) /\ Distinct(q)
      BY <2>6, <3>3, BackNodes
    <3> HIDE DEF q
    <3>5. Len(q) = Len(r) + 1 /\ \A i \in 1 .. Len(r) : q[i] = r[i]
      BY <2>6, <3>1, <3>3
    <3>6. QED
      BY <1>1, <2>6, <3>4, <3>5
  <2> HIDE DEF r, q
  <2>8. p \in 1 .. Len(s) - 1 /\ r[p] = n /\ q[p] = n
    BY <1>1, <2>1, <2>2, <2>6, <2>7
  <2>9. PosOf(r, n) = p /\ PosOf(q, n) = p
    <3>1. p \in 1 .. Len(r) /\ p \in 1 .. Len(q)
      BY <1>1, <2>6, <2>7, <2>8
    <3>2. QED
      BY <2>6, <2>7, <2>8, <3>1, Placed
  <2>10. \A i \in 1 .. p - 1 : r[i] = s[i] /\ q[i] = s[i]
    <3> SUFFICES ASSUME NEW i \in 1 .. p - 1 PROVE r[i] = s[i] /\ q[i] = s[i]
      OBVIOUS
    <3>1. i \in 1 .. Len(s) - 1 /\ i < p
      BY <1>1, <2>1
    <3>2. QED
      BY <2>6, <2>7, <3>1
  <2>11. Before(r, n) \subseteq Before(s, e) /\ Before(q, n) \subseteq Before(s, e)
    BY <2>9, <2>10 DEF Before, p
  <2>12. QED
    BY <2>3, <2>5, <2>11 DEF n, r, q
<1>4. QED
  BY <1>2, <1>3

----------------------------------------------------------------------------
(* Who owns the lock of o when the threads own the locks L.                *)
OneOwner(L) == \A t, u \in Thread : t # u => Nodes(L[t]) \cap Nodes(L[u]) = {}
OwnerIn(L, o) ==
  IF \E t \in Thread : o \in Nodes(L[t])
  THEN CHOOSE t \in Thread : o \in Nodes(L[t])
  ELSE Nobody

(* A lock is in the list of its owner and in no other; it is free, without *)
(* requests, when it has none.                                             *)
LocksInv ==
  /\ \A t \in Thread : Distinct(locks[t])
  /\ OneOwner(locks)
  /\ \A o \in Object : /\ depth[o] = 0 <=> Owner(o) = Nobody
                       /\ Owner(o) = Nobody => requests[o] = <<>>

LEMMA OwnerIs ==
  ASSUME NEW L, OneOwner(L), NEW o
  PROVE  /\ OwnerIn(L, o) \in Thread \cup {Nobody}
         /\ \A t \in Thread : o \in Nodes(L[t]) <=> OwnerIn(L, o) = t
<1>1. CASE \E t \in Thread : o \in Nodes(L[t])
  <2>1. PICK t \in Thread : t = OwnerIn(L, o) /\ o \in Nodes(L[t])
    BY <1>1 DEF OwnerIn
  <2>2. ASSUME NEW u \in Thread, o \in Nodes(L[u]) PROVE u = t
    BY <2>1, <2>2 DEF OneOwner
  <2>3. QED
    BY <2>1, <2>2
<1>2. CASE ~\E t \in Thread : o \in Nodes(L[t])
  BY <1>2 DEF OwnerIn
<1>3. QED
  BY <1>1, <1>2

LEMMA OwnerNow ==
  ASSUME LocksInv, NEW o
  PROVE  /\ Owner(o) \in Thread \cup {Nobody}
         /\ \A t \in Thread : o \in Nodes(locks[t]) <=> Owner(o) = t
<1>1. Owner(o) = OwnerIn(locks, o) /\ OneOwner(locks)
  BY DEF Owner, OwnerIn, LocksInv
<1>2. QED
  BY <1>1, OwnerIs

(* Thread h, or nobody, becomes the owner of the lock of o.                *)
Given(o, h) ==
  /\ h \in Thread \cup {Nobody}
  /\ \A t \in Thread :
       /\ Distinct(locks'[t])
       /\ Nodes(locks'[t]) = IF t = h THEN Nodes(locks[t]) \cup {o} ELSE Nodes(locks[t]) \ {o}

LEMMA GivenOwner ==
  ASSUME LocksInv, NEW o, NEW h, Given(o, h)
  PROVE  /\ OneOwner(locks') /\ Owner(o)' = h
         /\ \A p \in Object \ {o} : Owner(p)' = Owner(p)
<1>1. OneOwner(locks)
  BY DEF LocksInv
<1>2. OneOwner(locks')
  BY <1>1 DEF OneOwner, Given
<1>3. \A p : Owner(p)' = OwnerIn(locks', p) /\ Owner(p) = OwnerIn(locks, p)
  BY DEF Owner, OwnerIn
<1>4. Owner(o)' = h
  <2>1. CASE h \in Thread
    <3>1. o \in Nodes(locks'[h])
      BY <2>1 DEF Given
    <3>2. QED
      BY <1>2, <1>3, <2>1, <3>1, OwnerIs
  <2>2. CASE h = Nobody
    <3>1. \A t \in Thread : o \notin Nodes(locks'[t])
      BY <2>2 DEF Given
    <3>2. QED
      BY <1>3, <2>2, <3>1 DEF OwnerIn
  <2>3. QED
    BY <2>1, <2>2 DEF Given
<1>5. ASSUME NEW p \in Object \ {o} PROVE Owner(p)' = Owner(p)
  <2>1. \A t \in Thread : p \in Nodes(locks'[t]) <=> p \in Nodes(locks[t])
    BY DEF Given
  <2>2. /\ OwnerIn(locks', p) \in Thread \cup {Nobody}
        /\ OwnerIn(locks, p) \in Thread \cup {Nobody}
        /\ \A t \in Thread : OwnerIn(locks', p) = t <=> OwnerIn(locks, p) = t
    <3>1. /\ OwnerIn(locks, p) \in Thread \cup {Nobody}
          /\ \A t \in Thread : p \in Nodes(locks[t]) <=> OwnerIn(locks, p) = t
      BY <1>1, OwnerIs
    <3>2. /\ OwnerIn(locks', p) \in Thread \cup {Nobody}
          /\ \A t \in Thread : p \in Nodes(locks'[t]) <=> OwnerIn(locks', p) = t
      BY <1>2, OwnerIs
    <3>3. QED
      BY <2>1, <3>1, <3>2
  <2>3. OwnerIn(locks', p) = OwnerIn(locks, p)
    BY <2>2
  <2>4. QED
    BY <1>3, <2>3
<1>6. QED
  BY <1>2, <1>4, <1>5

LEMMA TakeLock ==
  ASSUME MonitorsTyped, LocksInv, NEW t \in Thread, NEW o \in Object, Owner(o) = Nobody,
         locks' = [locks EXCEPT ![t] = LinkAtBack(@, o)]
  PROVE  locks' \in [Thread -> Seq(Object)] /\ Given(o, t)
<1>1. \A u \in Thread : locks[u] \in Seq(Object) /\ Distinct(locks[u]) /\ o \notin Nodes(locks[u])
  <2>1. Nobody \notin Thread /\ \A u \in Thread : o \in Nodes(locks[u]) <=> Owner(o) = u
    BY OwnerNow
  <2>2. QED
    BY <2>1 DEF MonitorsTyped, LocksInv
<1> DEFINE l == LinkAtBack(locks[t], o)
<1>2. l \in Seq(Object) /\ Nodes(l) = Nodes(locks[t]) \cup {o} /\ Distinct(l)
  BY <1>1, BackNodes
<1>3. locks' = [locks EXCEPT ![t] = l]
  OBVIOUS
<1> HIDE DEF l
<1>4. locks' \in [Thread -> Seq(Object)]
  BY <1>2, <1>3 DEF MonitorsTyped
<1>5. locks'[t] = l /\ \A u \in Thread \ {t} : locks'[u] = locks[u]
  BY <1>3 DEF MonitorsTyped
<1>6. \A u \in Thread : Nodes(locks[u]) \ {o} = Nodes(locks[u])
  BY <1>1
<1>7. QED
  BY <1>1, <1>2, <1>4, <1>5, <1>6 DEF Given

(* Who gets the lock of o when its owner lets go.                          *)
Heir(o) == IF requests[o] = <<>> THEN Nobody ELSE Head(requests[o])

LEMMA HandOver ==
  ASSUME MonitorsTyped, LocksInv, NEW t \in Thread, NEW o \in Object, Owner(o) = t,
         ChangeOwner(t, o)
  PROVE  /\ locks' \in [Thread -> Seq(Object)] /\ Given(o, Heir(o))
         /\ Heir(o) = Nobody <=> requests[o] = <<>>
<1>1. \A u \in Thread : locks[u] \in Seq(Object) /\ Distinct(locks[u])
  BY DEF MonitorsTyped, LocksInv
<1>2. \A u \in Thread : o \in Nodes(locks[u]) <=> u = t
  BY OwnerNow
<1> DEFINE l == Unlink(locks[t], o)
           rest == [locks EXCEPT ![t] = l]
<1>3. l \in Seq(Object) /\ Nodes(l) = Nodes(locks[t]) \ {o} /\ Distinct(l)
  BY <1>1, UnlinkNodes
<1> HIDE DEF l
<1>4. /\ rest \in [Thread -> Seq(Object)]
      /\ \A u \in Thread : /\ Distinct(rest[u]) /\ Nodes(rest[u]) = Nodes(locks[u]) \ {o}
                           /\ o \notin Nodes(rest[u])
  BY <1>1, <1>2, <1>3 DEF MonitorsTyped
<1>5. CASE requests[o] = <<>>
  <2>1. locks' = rest
    BY <1>5 DEF ChangeOwner, l
  <2> HIDE DEF rest
  <2>2. QED
    BY <1>4, <1>5, <2>1 DEF Given, Heir
<1>6. CASE requests[o] # <<>>
  <2>1. Head(requests[o]) \in Thread
    BY <1>6 DEF MonitorsTyped
  <2>2. PICK h \in Thread : h = Head(requests[o])
    BY <2>1
  <2>3. locks' = [rest EXCEPT ![h] = LinkAtBack(@, o)]
    BY <1>6, <2>2 DEF ChangeOwner, l
  <2> HIDE DEF rest
  <2> DEFINE k == LinkAtBack(rest[h], o)
  <2>4. k \in Seq(Object) /\ Nodes(k) = Nodes(rest[h]) \cup {o} /\ Distinct(k)
    BY <1>4, BackNodes
  <2>5. locks' = [rest EXCEPT ![h] = k]
    BY <2>3
  <2> HIDE DEF k
  <2>6. locks' \in [Thread -> Seq(Object)] /\ locks'[h] = k
        /\ \A u \in Thread \ {h} : locks'[u] = rest[u]
    BY <1>4, <2>4, <2>5
  <2>7. Heir(o) = h
    BY <1>6, <2>2 DEF Heir
  <2>8. Given(o, h)
    BY <1>4, <2>4, <2>6 DEF Given
  <2>9. QED
    BY <1>6, <2>6, <2>7, <2>8
<1>7. QED
  BY <1>5, <1>6

----------------------------------------------------------------------------
(* The steps that do not change who holds or wants a lock.                 *)
Elsewhere ==
  /\ UNCHANGED <<locks, depth, requests>>
  /\ ~(pc = "release" /\ pc' = "idle")
  /\ \/ UNCHANGED entered
     \/ \E t \in Thread :
          entered' = [entered EXCEPT ![t] = [o \in Object |-> 0]]
     \/ \E t \in Thread, o \in Object :
          /\ t \in ready /\ pc = "idle" /\ th[t].call = Entering(o) /\ ~th[t].exception
          /\ th'[t].call = NoCall
          /\ entered' = [entered EXCEPT ![t][o] = @ + 1]

LEMMA MonitorSteps ==
  ASSUME Base, [Next]_vars
  PROVE  \/ Elsewhere
         \/ \E t \in Thread, o \in Object : MonitorEnter(t, o) \/ MonitorExit(t, o)
         \/ DestroyOwner \/ DeleteLockRequests
<1>1. th \in [Thread -> ThreadRecord]
  BY DEF Base, Typed
<1>2. ASSUME NEW t \in Thread, Dispatch(t) PROVE Elsewhere
  <2>1. UNCHANGED <<locks, depth, requests>> /\ pc = "idle" /\ pc' = "run" /\ t \in ready
    BY <1>2 DEF Dispatch
  <2>2. CASE UNCHANGED entered
    BY <2>1, <2>2 DEF Elsewhere
  <2>3. CASE ~UNCHANGED entered
    <3>1. /\ ~th[t].exception /\ th[t].call.fn = "Enter"
          /\ th' = [th EXCEPT ![t].call = NoCall, ![t].result = INIT]
          /\ entered' = [entered EXCEPT ![t][th[t].call.obj] = @ + 1]
      BY <1>2, <2>3 DEF Dispatch
    <3>2. th[t] \in ThreadRecord
      BY <1>1
    <3>3. PICK o \in Object : th[t].call = Entering(o)
      BY <3>1, <3>2 DEF ThreadRecord, NoCall, Exited, Calling
    <3>4. th[t].call.obj = o
      BY <3>3 DEF Entering
    <3>5. th'[t].call = NoCall
      <4>1. "call" \in DOMAIN th[t]
        BY <3>2 DEF ThreadRecord
      <4>2. th'[t] = [th[t] EXCEPT !.call = NoCall, !.result = INIT]
        BY <1>1, <3>1
      <4>3. QED
        BY <4>1, <4>2
    <3>6. entered' = [entered EXCEPT ![t][o] = @ + 1]
      BY <3>1, <3>4
    <3>7. QED
      BY <2>1, <3>1, <3>3, <3>5, <3>6 DEF Elsewhere
  <2>4. QED
    BY <2>2, <2>3
<1>3. ASSUME UNCHANGED <<locks, depth, requests>>, pc # "release",
             \/ UNCHANGED entered
             \/ \E t \in Thread : entered' = [entered EXCEPT ![t] = [o \in Object |-> 0]]
      PROVE  Elsewhere
  BY <1>3 DEF Elsewhere
<1>4. ASSUME NEW t \in Thread, CheckThreads(t) \/ Terminate(t) PROVE Elsewhere
  BY <1>3, <1>4 DEF CheckThreads, Terminate, monitors
<1>5. ASSUME NEW t \in Thread,
             Preempt(t) \/ Exit(t) \/ Catch(t) \/ Reraise(t) \/ Sleep(t) \/ Wait(t)
      PROVE  Elsewhere
  BY <1>3, <1>5
     DEF Preempt, Exit, Catch, Reraise, Sleep, Wait, Calls, Running, monitors
<1>6. ASSUME NEW t \in Thread, NEW u \in Thread,
             Start(t, u) \/ Suspend(t, u) \/ Resume(t, u) \/ Abort(t, u) \/ Join(t, u)
      PROVE  Elsewhere
  BY <1>3, <1>6 DEF Start, Suspend, Resume, Abort, Join, Calls, Running, monitors
<1>7. ASSUME NEW t \in Thread, NEW h \in Handle, Set(t, h) \/ Reset(t, h) PROVE Elsewhere
  BY <1>3, <1>7 DEF Set, Reset, Calls, Running, monitors
<1>8. CASE SignalNext \/ SignalEnd
  BY <1>3, <1>8 DEF SignalNext, SignalEnd, monitors
<1>9. CASE UNCHANGED vars
  BY <1>9 DEF vars, Elsewhere
<1>10. QED
  BY <1>2, <1>4, <1>5, <1>6, <1>7, <1>8, <1>9 DEF Next, Program, Native

(* What is left of the requests for o when the thread is gone that made    *)
(* those at the other places.                                              *)
Kept(o, t) == {i \in 1 .. Len(requests[o]) : requests[o][i] # t}

LEMMA Deleted ==
  ASSUME MonitorsTyped, DeleteLockRequests
  PROVE  \A o \in Object : \/ requests'[o] = requests[o]
                           \/ requests'[o] = Keep(requests[o], Kept(o, current))
BY DEF DeleteLockRequests, Kept

LEMMA KeptNodes ==
  ASSUME MonitorsTyped, NEW o \in Object, NEW t
  PROVE  /\ Keep(requests[o], Kept(o, t)) \in Seq(Thread)
         /\ Nodes(Keep(requests[o], Kept(o, t))) = Nodes(requests[o]) \ {t}
         /\ requests[o] = <<>> => Keep(requests[o], Kept(o, t)) = <<>>
<1> DEFINE s == requests[o]
           P == Kept(o, t)
<1>1. s \in Seq(Thread) /\ P \in SUBSET (1 .. Len(s)) /\ Len(s) \in Nat
  BY DEF MonitorsTyped, Kept
<1>2. \A i \in 1 .. Len(s) : i \in P <=> s[i] # t
  BY DEF Kept
<1> HIDE DEF s, P
<1>3. Keep(s, P) \in Seq(Thread) /\ Len(Keep(s, P)) = Cardinality(P)
  BY <1>1, KeepProperties
<1>4. Nodes(Keep(s, P)) = {s[i] : i \in P}
  BY <1>1, KeepNodes
<1>5. {s[i] : i \in P} = Nodes(s) \ {t}
  BY <1>1, <1>2 DEF Nodes
<1>6. ASSUME s = <<>> PROVE Keep(s, P) = <<>>
  <2>1. P = {}
    BY <1>1, <1>6
  <2>2. Len(Keep(s, P)) = 0
    BY <1>3, <2>1, FS_EmptySet
  <2>3. QED
    BY <1>3, <2>2, EmptySeq
<1>7. QED
  BY <1>3, <1>4, <1>5, <1>6 DEF s, P

LEMMA LocksStep ==
  ASSUME Base, LocksInv, [Next]_vars
  PROVE  LocksInv' /\ MonitorsTyped'
<1>1. MonitorsTyped /\ CountsInv /\ Cursors /\ IInv /\ LocksInv
  BY DEF Base
<1>2. ASSUME locks' = locks PROVE \A p : Owner(p)' = Owner(p)
  BY <1>2 DEF Owner, Nodes
<1>3. ASSUME NEW o \in Object, Owner(o) # Nobody PROVE depth[o] \in Nat \ {0}
  BY <1>1, <1>3 DEF LocksInv, MonitorsTyped
<1>4. CASE Elsewhere
  <2>1. LocksInv'
    BY <1>1, <1>2, <1>4 DEF Elsewhere, LocksInv
  <2>2. entered' \in [Thread -> [Object -> Nat]]
    <3>1. CASE UNCHANGED entered
      BY <1>1, <3>1 DEF MonitorsTyped
    <3>2. ASSUME NEW t \in Thread, entered' = [entered EXCEPT ![t] = [o \in Object |-> 0]]
          PROVE  entered' \in [Thread -> [Object -> Nat]]
      BY <1>1, <3>2 DEF MonitorsTyped
    <3>3. ASSUME NEW t \in Thread, NEW o \in Object,
                 entered' = [entered EXCEPT ![t][o] = @ + 1]
          PROVE  entered' \in [Thread -> [Object -> Nat]]
      BY <1>1, <3>3 DEF MonitorsTyped
    <3>4. QED
      BY <1>4, <3>1, <3>2, <3>3 DEF Elsewhere
  <2>3. QED
    BY <1>1, <1>4, <2>1, <2>2 DEF Elsewhere, MonitorsTyped
<1>5. ASSUME NEW t \in Thread, NEW o \in Object, MonitorEnter(t, o)
      PROVE  LocksInv' /\ MonitorsTyped'
  <2>1. CASE Owner(o) \in {Nobody, t}
    <3>1. /\ locks' = IF Owner(o) = t THEN locks ELSE [locks EXCEPT ![t] = LinkAtBack(@, o)]
          /\ depth' = [depth EXCEPT ![o] = @ + 1]
          /\ entered' = [entered EXCEPT ![t][o] = @ + 1]
          /\ requests' = requests
      BY <1>5, <2>1 DEF MonitorEnter
    <3>2. depth' \in [Object -> Nat] /\ entered' \in [Thread -> [Object -> Nat]]
          /\ depth'[o] # 0 /\ \A p \in Object \ {o} : depth'[p] = depth[p]
      BY <1>1, <3>1 DEF MonitorsTyped
    <3>3. CASE Owner(o) = t
      <4>1. locks' = locks
        BY <3>1, <3>3
      <4>2. \A p : Owner(p)' = Owner(p)
        BY <1>2, <4>1
      <4>3. Owner(o) # Nobody
        BY <3>3
      <4>4. LocksInv'
        BY <1>1, <3>1, <3>2, <4>1, <4>2, <4>3 DEF LocksInv
      <4>5. QED
        BY <1>1, <3>1, <3>2, <4>1, <4>4 DEF MonitorsTyped
    <3>4. CASE Owner(o) # t
      <4>1. locks' \in [Thread -> Seq(Object)] /\ Given(o, t)
        BY <1>1, <2>1, <3>1, <3>4, TakeLock
      <4>2. /\ OneOwner(locks') /\ Owner(o)' = t
            /\ \A p \in Object \ {o} : Owner(p)' = Owner(p)
        BY <1>1, <4>1, GivenOwner
      <4>3. t # Nobody
        OBVIOUS
      <4>4. \A p \in Object : /\ depth'[p] = 0 <=> Owner(p)' = Nobody
                              /\ Owner(p)' = Nobody => requests'[p] = <<>>
        <5>1. \A p \in Object \ {o} : /\ depth'[p] = 0 <=> Owner(p)' = Nobody
                                      /\ Owner(p)' = Nobody => requests'[p] = <<>>
          BY <1>1, <3>1, <3>2, <4>2 DEF LocksInv
        <5>2. depth'[o] # 0 /\ Owner(o)' # Nobody
          BY <3>2, <4>2, <4>3
        <5>3. QED
          BY <5>1, <5>2
      <4>5. LocksInv'
        BY <4>1, <4>2, <4>4 DEF LocksInv, Given
      <4>6. QED
        BY <1>1, <3>1, <3>2, <4>1, <4>5 DEF MonitorsTyped
    <3>5. QED
      BY <3>3, <3>4
  <2>2. CASE Owner(o) \notin {Nobody, t}
    <3>1. requests' = [requests EXCEPT ![o] = Append(@, t)] /\ UNCHANGED <<locks, depth, entered>>
      BY <1>5, <2>2 DEF MonitorEnter
    <3>2. requests' \in [Object -> Seq(Thread)]
          /\ \A p \in Object \ {o} : requests'[p] = requests[p]
      BY <1>1, <3>1 DEF MonitorsTyped
    <3>3. \A p : Owner(p)' = Owner(p)
      BY <1>2, <3>1
    <3>4. LocksInv'
      BY <1>1, <2>2, <3>1, <3>2, <3>3 DEF LocksInv
    <3>5. QED
      BY <1>1, <3>1, <3>2, <3>4 DEF MonitorsTyped
  <2>3. QED
    BY <2>1, <2>2
<1>6. ASSUME NEW t \in Thread, NEW o \in Object, Owner(o) = t, ChangeOwner(t, o),
             entered' \in [Thread -> [Object -> Nat]]
      PROVE  LocksInv' /\ MonitorsTyped'
  <2>1. /\ locks' \in [Thread -> Seq(Object)] /\ Given(o, Heir(o))
        /\ Heir(o) = Nobody <=> requests[o] = <<>>
    BY <1>1, <1>6, HandOver
  <2>2. /\ OneOwner(locks') /\ Owner(o)' = Heir(o)
        /\ \A p \in Object \ {o} : Owner(p)' = Owner(p)
    BY <1>1, <2>1, GivenOwner
  <2>3. /\ depth' = [depth EXCEPT ![o] = IF requests[o] = <<>> THEN 0 ELSE 1]
        /\ requests' = [requests EXCEPT ![o] = IF requests[o] = <<>> THEN <<>> ELSE Tail(@)]
    <3>1. CASE requests[o] = <<>>
      BY <1>1, <1>6, <3>1 DEF ChangeOwner, MonitorsTyped
    <3>2. CASE requests[o] # <<>>
      BY <1>6, <3>2 DEF ChangeOwner
    <3>3. QED
      BY <3>1, <3>2
  <2>4. /\ depth' \in [Object -> Nat] /\ requests' \in [Object -> Seq(Thread)]
        /\ depth'[o] = IF requests[o] = <<>> THEN 0 ELSE 1
        /\ requests[o] = <<>> => requests'[o] = <<>>
        /\ \A p \in Object \ {o} : depth'[p] = depth[p] /\ requests'[p] = requests[p]
    BY <1>1, <2>3 DEF MonitorsTyped
  <2>5. \A p \in Object : /\ depth'[p] = 0 <=> Owner(p)' = Nobody
                          /\ Owner(p)' = Nobody => requests'[p] = <<>>
    <3>1. \A p \in Object \ {o} : /\ depth'[p] = 0 <=> Owner(p)' = Nobody
                                  /\ Owner(p)' = Nobody => requests'[p] = <<>>
      BY <1>1, <2>2, <2>4 DEF LocksInv
    <3>2. /\ depth'[o] = 0 <=> Owner(o)' = Nobody
          /\ Owner(o)' = Nobody => requests'[o] = <<>>
      BY <2>1, <2>2, <2>4
    <3>3. QED
      BY <3>1, <3>2
  <2>6. LocksInv'
    BY <2>1, <2>2, <2>5 DEF LocksInv, Given
  <2>7. QED
    BY <1>6, <2>1, <2>4, <2>6 DEF MonitorsTyped
<1>7. ASSUME NEW t \in Thread, NEW o \in Object, MonitorExit(t, o)
      PROVE  LocksInv' /\ MonitorsTyped'
  <2>1. Owner(o) = t /\ entered' \in [Thread -> [Object -> Nat]]
    BY <1>1, <1>7 DEF MonitorExit, MonitorsTyped
  <2>2. CASE depth[o] > 1
    <3>1. depth' = [depth EXCEPT ![o] = @ - 1] /\ UNCHANGED <<locks, requests>>
      BY <1>7, <2>2 DEF MonitorExit
    <3>2. depth' \in [Object -> Nat] /\ depth'[o] # 0
          /\ \A p \in Object \ {o} : depth'[p] = depth[p]
      BY <1>1, <2>2, <3>1 DEF MonitorsTyped
    <3>3. \A p : Owner(p)' = Owner(p)
      BY <1>2, <3>1
    <3>4. Owner(o) # Nobody
      BY <2>1
    <3>5. LocksInv'
      BY <1>1, <3>1, <3>2, <3>3, <3>4 DEF LocksInv
    <3>6. QED
      BY <1>1, <2>1, <3>1, <3>2, <3>5 DEF MonitorsTyped
  <2>3. CASE ~(depth[o] > 1)
    <3>1. ChangeOwner(t, o)
      BY <1>7, <2>3 DEF MonitorExit
    <3>2. QED
      BY <1>6, <2>1, <3>1
  <2>4. QED
    BY <2>2, <2>3
<1>8. CASE DestroyOwner
  <2>1. /\ current \in Thread /\ cursor.at \in Nodes(locks[current])
        /\ ChangeOwner(current, cursor.at) /\ UNCHANGED entered
    BY <1>1, <1>8 DEF DestroyOwner, Cursors, IInv, CurrentAlive
  <2>2. PICK t \in Thread : t = current
    BY <2>1
  <2>3. PICK o : o = cursor.at
    OBVIOUS
  <2>4. o \in Object
    BY <1>1, <2>1, <2>2, <2>3, ElementOfSeq DEF MonitorsTyped, Nodes
  <2>5. Owner(o) = t /\ ChangeOwner(t, o)
    BY <1>1, <2>1, <2>2, <2>3, OwnerNow
  <2>6. QED
    BY <1>1, <1>6, <2>1, <2>4, <2>5 DEF MonitorsTyped
<1>9. CASE DeleteLockRequests
  <2>1. UNCHANGED <<locks, depth, entered>> /\ DOMAIN requests' = Object
    BY <1>9 DEF DeleteLockRequests
  <2>2. \A o \in Object : /\ requests'[o] \in Seq(Thread)
                          /\ requests[o] = <<>> => requests'[o] = <<>>
    <3> SUFFICES ASSUME NEW o \in Object
                 PROVE  requests'[o] \in Seq(Thread) /\ (requests[o] = <<>> => requests'[o] = <<>>)
      OBVIOUS
    <3> DEFINE k == Keep(requests[o], Kept(o, current))
    <3>1. k \in Seq(Thread) /\ (requests[o] = <<>> => k = <<>>)
      BY <1>1, KeptNodes
    <3>2. requests'[o] = requests[o] \/ requests'[o] = k
      BY <1>1, <1>9, Deleted
    <3> HIDE DEF k
    <3>3. requests[o] \in Seq(Thread)
      BY <1>1 DEF MonitorsTyped
    <3>4. QED
      BY <3>1, <3>2, <3>3
  <2>3. requests' \in [Object -> Seq(Thread)]
    <3>1. requests' = [o \in Object |-> requests'[o]]
      BY <1>9 DEF DeleteLockRequests
    <3>2. QED
      BY <2>2, <3>1
  <2>4. \A p : Owner(p)' = Owner(p)
    BY <1>2, <2>1
  <2>5. LocksInv'
    BY <1>1, <2>1, <2>2, <2>4 DEF LocksInv
  <2>6. QED
    BY <1>1, <2>1, <2>3, <2>5 DEF MonitorsTyped
<1>10. QED
  BY <1>4, <1>5, <1>7, <1>8, <1>9, MonitorSteps

----------------------------------------------------------------------------
(* Sets of requests, given by their places in the queue of each object.    *)
Pairs(A) == UNION {{<<o, i>> : i \in A[o]} : o \in Object}
PlacesOf(R, t) == [o \in Object |-> Places(R[o], t)]

LEMMA InPairs ==
  ASSUME NEW A, NEW x
  PROVE  x \in Pairs(A) <=> \E o \in Object : \E i \in A[o] : x = <<o, i>>
BY DEF Pairs

LEMMA RequestsArePlaces ==
  ASSUME NEW t
  PROVE  /\ RequestsOf(t) = Pairs(PlacesOf(requests, t))
         /\ RequestsOf(t)' = Pairs(PlacesOf(requests', t))
<1>1. ASSUME NEW R
      PROVE  {r \in UNION {{<<o, i>> : i \in 1 .. Len(R[o])} : o \in Object} : R[r[1]][r[2]] = t}
               = Pairs(PlacesOf(R, t))
  <2> DEFINE S == {r \in UNION {{<<o, i>> : i \in 1 .. Len(R[o])} : o \in Object} :
                     R[r[1]][r[2]] = t}
  <2>1. ASSUME NEW x \in S PROVE x \in Pairs(PlacesOf(R, t))
    <3>0. PICK o \in Object : \E i \in 1 .. Len(R[o]) : x = <<o, i>>
      OBVIOUS
    <3>1. PICK i \in 1 .. Len(R[o]) : x = <<o, i>>
      BY <3>0
    <3>2. R[o][i] = t
      BY <3>1
    <3>3. i \in PlacesOf(R, t)[o]
      BY <3>2 DEF PlacesOf, Places
    <3>4. QED
      BY <3>1, <3>3, InPairs
  <2>2. ASSUME NEW x \in Pairs(PlacesOf(R, t)) PROVE x \in S
    <3>1. PICK o \in Object : \E i \in PlacesOf(R, t)[o] : x = <<o, i>>
      BY InPairs
    <3>2. PICK i \in PlacesOf(R, t)[o] : x = <<o, i>>
      BY <3>1
    <3>3. i \in 1 .. Len(R[o]) /\ R[o][i] = t
      BY DEF PlacesOf, Places
    <3>4. QED
      BY <3>2, <3>3
  <2>3. QED
    BY <2>1, <2>2
<1>2. QED
  BY <1>1 DEF RequestsOf, Requests, RequestOf

LEMMA PairsBijection ==
  ASSUME NEW A, NEW B, \A o \in Object : ExistsBijection(A[o], B[o])
  PROVE  ExistsBijection(Pairs(A), Pairs(B))
<1> DEFINE F == [o \in Object |-> CHOOSE f : f \in Bijection(A[o], B[o])]
           g == [x \in Pairs(A) |-> <<x[1], F[x[1]][x[2]]>>]
<1>1. \A o \in Object : F[o] \in Bijection(A[o], B[o])
  BY DEF ExistsBijection
<1> HIDE DEF F
<1>2. \A o \in Object : /\ F[o] \in [A[o] -> B[o]]
                        /\ \A i, j \in A[o] : F[o][i] = F[o][j] => i = j
                        /\ \A k \in B[o] : \E i \in A[o] : F[o][i] = k
  BY <1>1 DEF Bijection, Injection, Surjection, IsInjective
<1>3. ASSUME NEW o \in Object, NEW i \in A[o]
      PROVE  /\ <<o, i>> \in Pairs(A) /\ g[<<o, i>>] = <<o, F[o][i]>>
             /\ F[o][i] \in B[o] /\ <<o, F[o][i]>> \in Pairs(B)
  <2>1. <<o, i>> \in Pairs(A)
    BY InPairs
  <2>2. F[o][i] \in B[o]
    BY <1>2
  <2>3. <<o, F[o][i]>> \in Pairs(B)
    BY <2>2, InPairs
  <2>4. QED
    BY <2>1, <2>2, <2>3
<1>4. \A x \in Pairs(A) : \E o \in Object : \E i \in A[o] : x = <<o, i>>
  BY InPairs
<1>5. \A y \in Pairs(B) : \E o \in Object : \E k \in B[o] : y = <<o, k>>
  BY InPairs
<1>6. \A x \in Pairs(A) : g[x] \in Pairs(B)
  <2> SUFFICES ASSUME NEW x \in Pairs(A) PROVE g[x] \in Pairs(B)
    OBVIOUS
  <2>1. PICK o \in Object : \E i \in A[o] : x = <<o, i>>
    BY <1>4
  <2>2. PICK i \in A[o] : x = <<o, i>>
    BY <2>1
  <2> HIDE DEF g
  <2>3. g[<<o, i>>] = <<o, F[o][i]>> /\ <<o, F[o][i]>> \in Pairs(B)
    BY <1>3
  <2>4. g[x] = <<o, F[o][i]>>
    BY <2>2, <2>3
  <2>5. QED
    BY <2>3, <2>4
<1>7. g = [x \in Pairs(A) |-> g[x]] /\ DOMAIN g = Pairs(A)
  OBVIOUS
<1> HIDE DEF g
<1>8. g \in [Pairs(A) -> Pairs(B)]
  BY <1>6, <1>7
<1>9. ASSUME NEW x \in Pairs(A), NEW y \in Pairs(A), g[x] = g[y] PROVE x = y
  <2>1. PICK o \in Object : \E i \in A[o] : x = <<o, i>>
    BY <1>4
  <2>2. PICK i \in A[o] : x = <<o, i>>
    BY <2>1
  <2>3. PICK p \in Object : \E j \in A[p] : y = <<p, j>>
    BY <1>4
  <2>4. PICK j \in A[p] : y = <<p, j>>
    BY <2>3
  <2>5. <<o, F[o][i]>> = <<p, F[p][j]>>
    BY <1>3, <1>9, <2>2, <2>4
  <2>6. o = p /\ F[o][i] = F[p][j]
    BY <2>5
  <2>7. i \in A[o] /\ j \in A[o] /\ F[o][i] = F[o][j]
    BY <2>6
  <2>8. i = j
    BY <1>2, <2>7
  <2>9. QED
    BY <2>2, <2>4, <2>6, <2>8
<1>10. ASSUME NEW y \in Pairs(B) PROVE \E x \in Pairs(A) : g[x] = y
  <2>1. PICK o \in Object : \E k \in B[o] : y = <<o, k>>
    BY <1>5
  <2>2. PICK k \in B[o] : y = <<o, k>>
    BY <2>1
  <2>3. PICK i \in A[o] : F[o][i] = k
    BY <1>2
  <2>4. QED
    BY <1>3, <2>2, <2>3
<1>11. g \in Bijection(Pairs(A), Pairs(B))
  <2>1. g \in Injection(Pairs(A), Pairs(B))
    BY <1>8, <1>9 DEF Injection, IsInjective
  <2>2. g \in Surjection(Pairs(A), Pairs(B))
    BY <1>8, <1>10 DEF Surjection
  <2>3. QED
    BY <2>1, <2>2 DEF Bijection
<1>12. QED
  BY <1>11 DEF ExistsBijection

(* When the first node leaves, the others move up one place.               *)
LEMMA TailPlaces ==
  ASSUME NEW T, NEW s \in Seq(T), s # <<>>, NEW e
  PROVE  ExistsBijection(Places(s, e) \ {1}, Places(Tail(s), e))
<1> DEFINE A == Places(s, e) \ {1}
           B == Places(Tail(s), e)
           g == [i \in A |-> i - 1]
<1>1. /\ Len(s) \in Nat \ {0} /\ Len(Tail(s)) = Len(s) - 1
      /\ \A i \in 1 .. Len(s) - 1 : Tail(s)[i] = s[i + 1]
  BY HeadTailProperties
<1>2. A = {i \in 2 .. Len(s) : s[i] = e}
  BY <1>1 DEF Places
<1>3. B = {i \in 1 .. Len(s) - 1 : s[i + 1] = e}
  BY <1>1 DEF Places
<1> HIDE DEF A, B
<1>4. \A i \in A : i \in Nat /\ i - 1 \in B
  BY <1>1, <1>2, <1>3
<1>5. g \in [A -> B]
  BY <1>4
<1>6. \A i, j \in A : g[i] = g[j] => i = j
  BY <1>4
<1>7. \A k \in B : \E i \in A : g[i] = k
  <2> SUFFICES ASSUME NEW k \in B PROVE \E i \in A : g[i] = k
    OBVIOUS
  <2>1. k + 1 \in A /\ (k + 1) - 1 = k
    BY <1>1, <1>2, <1>3
  <2>2. QED
    BY <2>1
<1> HIDE DEF g
<1>8. g \in Bijection(A, B)
  <2>1. g \in Injection(A, B)
    BY <1>5, <1>6 DEF Injection, IsInjective
  <2>2. g \in Surjection(A, B)
    BY <1>5, <1>7 DEF Surjection
  <2>3. QED
    BY <2>1, <2>2 DEF Bijection
<1>9. QED
  BY <1>8 DEF ExistsBijection, A, B

----------------------------------------------------------------------------
(* What the moves of a thread have in common: the fields q it is put into a  *)
(* list with, r being those it had.                                        *)
Moved(r, q, t) ==
  /\ DOMAIN q = FieldNames
  /\ q.status = r.status \/ q.status \in Alive
  /\ r.status = "Terminated" => q.status = r.status \/ r.sleep \/ r.wait # NoWait
  /\ r.exception => q.exception
  /\ \/ q.wait = r.wait /\ (q.result = INIT => r.result = INIT)
     \/ ~Satisfied(q.wait, signaled)
  /\ \/ q.count = r.count /\ q.call \in {r.call, Calling("Sleep"), Calling("Wait")}
     \/ /\ q.count = r.count + 1 /\ r.count < MaxRequests
        /\ \E o \in Object : /\ q.call = Entering(o)
                             /\ requests' = [requests EXCEPT ![o] = Append(@, t)]

LEMMA Moves ==
  ASSUME Base, NEW t \in Thread, Move(t)
  PROVE  \E q : Put(t, q) /\ Moved(th[t], q, t)
<1> DEFINE r == th[t]
<1>1. /\ r \in ThreadRecord /\ DOMAIN r = FieldNames /\ r.exception \in BOOLEAN
      /\ INIT \notin {TIMEOUT, HANDLE_ALL} \cup Waitable
  BY FieldsThere DEF Base, Typed, INIT, TIMEOUT, HANDLE_ALL
<1>2. ASSUME MayCall(t) PROVE r.exception = FALSE /\ r.status # "Terminated"
  BY <1>1, <1>2 DEF MayCall, Base, IInv, ListsAgree
<1>3. ASSUME t \in Nodes(waiting) PROVE r.status # "Terminated"
  BY <1>3 DEF Base, IInv, ListsAgree
<1>4. Put(t, r) => \E q : Put(t, q) /\ Moved(r, q, t)
  BY <1>1 DEF Moved
<1>5. ASSUME r.status = "Unstarted", Put(t, [r EXCEPT !.status = "Ready"])
      PROVE  \E q : Put(t, q) /\ Moved(r, q, t)
  <2> DEFINE q == [r EXCEPT !.status = "Ready"]
  <2>1. Moved(r, q, t)
    BY <1>1, <1>2, <1>3, <1>5 DEF Moved, FieldNames, Alive
  <2>2. Put(t, q)
    BY <1>5
  <2> HIDE DEF q
  <2>3. QED
    BY <2>1, <2>2
<1>6. ASSUME r.status \in Alive, Put(t, [r EXCEPT !.suspended = TRUE])
      PROVE  \E q : Put(t, q) /\ Moved(r, q, t)
  <2> DEFINE q == [r EXCEPT !.suspended = TRUE]
  <2>1. Moved(r, q, t)
    BY <1>1, <1>2, <1>3, <1>6 DEF Moved, FieldNames, Alive
  <2>2. Put(t, q)
    BY <1>6
  <2> HIDE DEF q
  <2>3. QED
    BY <2>1, <2>2
<1>7. ASSUME r.status \in Alive, Put(t, [r EXCEPT !.suspended = FALSE])
      PROVE  \E q : Put(t, q) /\ Moved(r, q, t)
  <2> DEFINE q == [r EXCEPT !.suspended = FALSE]
  <2>1. Moved(r, q, t)
    BY <1>1, <1>2, <1>3, <1>7 DEF Moved, FieldNames, Alive
  <2>2. Put(t, q)
    BY <1>7
  <2> HIDE DEF q
  <2>3. QED
    BY <2>1, <2>2
<1>8. ASSUME r.status \in Alive,
              Put(t, [r EXCEPT !.exception = TRUE, !.aborted = TRUE, !.status = "Ready",
                             !.sleep = FALSE])
      PROVE  \E q : Put(t, q) /\ Moved(r, q, t)
  <2> DEFINE q == [r EXCEPT !.exception = TRUE, !.aborted = TRUE, !.status = "Ready",
                          !.sleep = FALSE]
  <2>1. Moved(r, q, t)
    BY <1>1, <1>2, <1>3, <1>8 DEF Moved, FieldNames, Alive
  <2>2. Put(t, q)
    BY <1>8
  <2> HIDE DEF q
  <2>3. QED
    BY <2>1, <2>2
<1>9. ASSUME MayCall(t), NEW f,
              Put(t, [r EXCEPT !.status = "Waiting", !.sleep = f, !.call = Calling("Sleep")])
      PROVE  \E q : Put(t, q) /\ Moved(r, q, t)
  <2> DEFINE q == [r EXCEPT !.status = "Waiting", !.sleep = f, !.call = Calling("Sleep")]
  <2>1. Moved(r, q, t)
    BY <1>1, <1>2, <1>3, <1>9 DEF Moved, FieldNames, Alive
  <2>2. Put(t, q)
    BY <1>9
  <2> HIDE DEF q
  <2>3. QED
    BY <2>1, <2>2
<1>10. ASSUME MayCall(t), NEW w, ~Satisfied(w, signaled),
              Put(t, [r EXCEPT !.wait = w, !.status = "Waiting", !.result = INIT,
                             !.call = Calling("Wait")])
      PROVE  \E q : Put(t, q) /\ Moved(r, q, t)
  <2> DEFINE q == [r EXCEPT !.wait = w, !.status = "Waiting", !.result = INIT,
                          !.call = Calling("Wait")]
  <2>1. Moved(r, q, t)
    BY <1>1, <1>2, <1>3, <1>10 DEF Moved, FieldNames, Alive
  <2>2. Put(t, q)
    BY <1>10
  <2> HIDE DEF q
  <2>3. QED
    BY <2>1, <2>2
<1>11. ASSUME MayCall(t), NEW o \in Object, r.count < MaxRequests,
              requests' = [requests EXCEPT ![o] = Append(@, t)],
              Put(t, [r EXCEPT !.count = @ + 1, !.status = "Waiting", !.call = Entering(o)])
      PROVE  \E q : Put(t, q) /\ Moved(r, q, t)
  <2> DEFINE q == [r EXCEPT !.count = @ + 1, !.status = "Waiting", !.call = Entering(o)]
  <2>1. Moved(r, q, t)
    BY <1>1, <1>2, <1>3, <1>11 DEF Moved, FieldNames, Alive
  <2>2. Put(t, q)
    BY <1>11
  <2> HIDE DEF q
  <2>3. QED
    BY <2>1, <2>2
<1>12. ASSUME t \in Nodes(waiting), NEW v \in {HANDLE_ALL} \cup Waitable,
              Put(t, [r EXCEPT !.result = v, !.status = "Ready", !.sleep = FALSE])
      PROVE  \E q : Put(t, q) /\ Moved(r, q, t)
  <2> DEFINE q == [r EXCEPT !.result = v, !.status = "Ready", !.sleep = FALSE]
  <2>1. Moved(r, q, t)
    BY <1>1, <1>2, <1>3, <1>12 DEF Moved, FieldNames, Alive
  <2>2. Put(t, q)
    BY <1>12
  <2> HIDE DEF q
  <2>3. QED
    BY <2>1, <2>2
<1>13. ASSUME r.sleep, Put(t, [r EXCEPT !.sleep = FALSE, !.status = "Ready"])
      PROVE  \E q : Put(t, q) /\ Moved(r, q, t)
  <2> DEFINE q == [r EXCEPT !.sleep = FALSE, !.status = "Ready"]
  <2>1. Moved(r, q, t)
    BY <1>1, <1>2, <1>3, <1>13 DEF Moved, FieldNames, Alive
  <2>2. Put(t, q)
    BY <1>13
  <2> HIDE DEF q
  <2>3. QED
    BY <2>1, <2>2
<1>14. ASSUME r.wait # NoWait,
              Put(t, [r EXCEPT !.result = TIMEOUT, !.status = "Ready", !.sleep = FALSE])
      PROVE  \E q : Put(t, q) /\ Moved(r, q, t)
  <2> DEFINE q == [r EXCEPT !.result = TIMEOUT, !.status = "Ready", !.sleep = FALSE]
  <2>1. Moved(r, q, t)
    BY <1>1, <1>2, <1>3, <1>14 DEF Moved, FieldNames, Alive
  <2>2. Put(t, q)
    BY <1>14
  <2> HIDE DEF q
  <2>3. QED
    BY <2>1, <2>2
<1>15. QED
  BY <1>4, <1>5, <1>6, <1>7, <1>8, <1>9, <1>10, <1>11, <1>12, <1>13, <1>14 DEF Move
----------------------------------------------------------------------------
(* m_lockRequestsCount after PutInProperList.                              *)
LEMMA PutCount ==
  ASSUME NEW s, DOMAIN s = Thread, NEW t \in Thread, NEW r, "count" \in DOMAIN r,
         PutInProperList(s, t, r)
  PROVE  th'[t].count = r.count /\ \A u \in Thread \ {t} : th'[u] = s[u]
<1>1. th' = [s EXCEPT ![t] = IF r.status = "Ready" /\ ~r.suspended THEN Woken(r) ELSE r]
  BY DEF PutInProperList
<1>2. Woken(r).count = r.count
  BY DEF Woken
<1>3. QED
  BY <1>1, <1>2

(* No count changes where no queue does, except when a dead thread is      *)
(* buried.                                                                 *)
LEMMA SameCount ==
  ASSUME Base, NEW t \in Thread, Change(t), requests' = requests,
         ~(pc = "release" /\ pc' = "idle")
  PROVE  th'[t].count = th[t].count
<1> DEFINE r == th[t]
<1>1. "count" \in DOMAIN r
  BY DEF Base, Typed, ThreadRecord
<1>2. requests \in [Object -> Seq(Thread)]
  BY DEF Base, MonitorsTyped
<1>3. ASSUME NEW q, "count" \in DOMAIN q, Put(t, q) PROVE th'[t].count = q.count
  BY <1>3 DEF Put, Woken
<1>4. ~Less(t)
  <2> SUFFICES ASSUME NEW o \in Object, requests[o] # <<>>,
                      requests = [requests EXCEPT ![o] = Tail(@)]
               PROVE  FALSE
    BY DEF Less
  <2>1. requests[o] = Tail(requests[o])
    BY <1>2
  <2>2. requests[o] \in Seq(Thread)
    BY <1>2
  <2>3. Len(Tail(requests[o])) = Len(requests[o]) - 1 /\ Len(requests[o]) \in Nat
    BY <2>2, HeadTailProperties
  <2> DEFINE n == Len(requests[o])
  <2>4. n = n - 1
    BY <2>1, <2>3
  <2>5. n \in Nat
    BY <2>3
  <2> HIDE DEF n
  <2>6. QED
    BY <2>4, <2>5
<1>5. ASSUME NEW o \in Object, requests = [requests EXCEPT ![o] = Append(@, t)] PROVE FALSE
  <2>1. requests[o] = Append(requests[o], t) /\ requests[o] \in Seq(Thread)
    BY <1>2, <1>5
  <2>2. Len(Append(requests[o], t)) = Len(requests[o]) + 1 /\ Len(requests[o]) \in Nat
    BY <2>1, AppendProperties
  <2>3. QED
    BY <2>1, <2>2
<1>6. CASE Move(t)
  <2>1. PICK q : Put(t, q) /\ Moved(r, q, t)
    BY <1>6, Moves
  <2>2. q.count = r.count /\ "count" \in DOMAIN q
    BY <1>5, <2>1 DEF Moved, FieldNames
  <2>3. QED
    BY <1>3, <2>1, <2>2
<1>7. CASE Untouched(t) \/ Advance(t) \/ Stop(t)
  <2>1. ASSUME NEW a, NEW b, th'[t] = [r EXCEPT !.exception = a, !.call = b, !.result = INIT]
        PROVE  th'[t].count = r.count
    BY <1>1, <2>1
  <2>2. CASE Advance(t)
    <3>1. CASE th'[t] = [r EXCEPT !.call = NoCall, !.result = INIT]
      BY <1>1, <3>1
    <3>2. CASE th'[t] = [r EXCEPT !.exception = TRUE]
      BY <1>1, <3>2
    <3>3. QED
      BY <2>1, <2>2, <3>1, <3>2 DEF Advance
  <2>3. CASE Stop(t)
    BY <1>1, <2>3 DEF Stop
  <2>4. CASE Untouched(t)
    BY <2>4 DEF Untouched
  <2>5. QED
    BY <1>7, <2>2, <2>3, <2>4
<1>8. QED
  BY <1>4, <1>6, <1>7 DEF Change, Buried

(* The requests of t are counted when a bijection takes the places A to    *)
(* those it now has.                                                       *)
LEMMA Recount ==
  ASSUME NEW t, NEW A, IsFiniteSet(Pairs(A)),
         \A o \in Object : ExistsBijection(A[o], Places(requests'[o], t))
  PROVE  IsFiniteSet(RequestsOf(t)') /\ Cardinality(RequestsOf(t)') = Cardinality(Pairs(A))
<1> DEFINE B == PlacesOf(requests', t)
<1>1. RequestsOf(t)' = Pairs(B)
  BY RequestsArePlaces
<1>2. \A o \in Object : ExistsBijection(A[o], B[o])
  BY DEF PlacesOf
<1> HIDE DEF B
<1>3. ExistsBijection(Pairs(A), Pairs(B))
  BY <1>2, PairsBijection
<1>4. QED
  BY <1>1, <1>3, FS_Bijection

(* Nothing changes for a thread whose requests stay. *)
LEMMA SameRequests ==
  ASSUME CountsInv, NEW t \in Thread, th'[t].count = th[t].count,
         \A o \in Object : ExistsBijection(Places(requests[o], t), Places(requests'[o], t))
  PROVE  IsFiniteSet(RequestsOf(t)') /\ th'[t].count = Cardinality(RequestsOf(t)')
<1> DEFINE A == PlacesOf(requests, t)
<1>1. RequestsOf(t) = Pairs(A)
  BY RequestsArePlaces
<1>2. \A o \in Object : ExistsBijection(A[o], Places(requests'[o], t))
  BY DEF PlacesOf
<1>3. IsFiniteSet(Pairs(A)) /\ th[t].count = Cardinality(Pairs(A))
  BY <1>1 DEF CountsInv
<1> HIDE DEF A
<1>4. QED
  BY <1>2, <1>3, Recount

(* LockObject links a request. *)
LEMMA AskCounted ==
  ASSUME Base, NEW t \in Thread, NEW o \in Object, NEW r, "count" \in DOMAIN r,
         r.count = th[t].count + 1, PutInProperList(th, t, r),
         requests' = [requests EXCEPT ![o] = Append(@, t)]
  PROVE  CountsInv'
<1> DEFINE s == requests[o]
<1>1. /\ requests \in [Object -> Seq(Thread)] /\ s \in Seq(Thread) /\ Len(s) \in Nat
      /\ DOMAIN th = Thread /\ CountsInv
  BY DEF Base, MonitorsTyped, Typed
<1>2. th'[t].count = th[t].count + 1 /\ \A u \in Thread \ {t} : th'[u] = th[u]
  BY <1>1, PutCount
<1>3. requests'[o] = Append(s, t) /\ \A p \in Object \ {o} : requests'[p] = requests[p]
  BY <1>1
<1>4. /\ Len(Append(s, t)) = Len(s) + 1 /\ Append(s, t)[Len(s) + 1] = t
      /\ \A i \in 1 .. Len(s) : Append(s, t)[i] = s[i]
  BY <1>1, AppendProperties
<1> HIDE DEF s
<1>5. ASSUME NEW u, u # t PROVE Places(Append(s, t), u) = Places(s, u)
  BY <1>1, <1>4, <1>5 DEF Places
<1>6. Places(Append(s, t), t) = Places(s, t) \cup {Len(s) + 1}
  BY <1>1, <1>4 DEF Places
<1>7. ASSUME NEW u \in Thread \ {t}
      PROVE  IsFiniteSet(RequestsOf(u)') /\ th'[u].count = Cardinality(RequestsOf(u)')
  <2>1. ASSUME NEW p \in Object
        PROVE  ExistsBijection(Places(requests[p], u), Places(requests'[p], u))
    <3>1. Places(requests'[p], u) = Places(requests[p], u)
      <4>1. CASE p = o
        BY <1>3, <1>5, <4>1 DEF s
      <4>2. CASE p # o
        BY <1>3, <4>2
      <4>3. QED
        BY <4>1, <4>2
    <3>2. QED
      BY <3>1, Fun_ExistsBijReflexive
  <2>2. QED
    BY <1>1, <1>2, <2>1, SameRequests
<1>8. IsFiniteSet(RequestsOf(t)') /\ th'[t].count = Cardinality(RequestsOf(t)')
  <2> DEFINE A == PlacesOf(requests, t)
             B == PlacesOf(requests', t)
  <2>1. RequestsOf(t) = Pairs(A) /\ RequestsOf(t)' = Pairs(B)
    BY RequestsArePlaces
  <2>2. A[o] = Places(s, t) /\ B[o] = Places(s, t) \cup {Len(s) + 1}
    BY <1>3, <1>6 DEF PlacesOf, s
  <2>3. \A p \in Object \ {o} : A[p] = B[p]
    BY <1>3 DEF PlacesOf
  <2>4. Len(s) + 1 \notin Places(s, t)
    BY <1>1 DEF Places
  <2> HIDE DEF A, B
  <2>5. Pairs(B) = Pairs(A) \cup {<<o, Len(s) + 1>>}
    <3>1. ASSUME NEW x \in Pairs(B) PROVE x \in Pairs(A) \cup {<<o, Len(s) + 1>>}
      <4>1. PICK p \in Object : \E i \in B[p] : x = <<p, i>>
        BY InPairs
      <4>2. PICK i \in B[p] : x = <<p, i>>
        BY <4>1
      <4>3. i \in A[p] \/ (p = o /\ i = Len(s) + 1)
        BY <2>2, <2>3
      <4>4. QED
        BY <4>2, <4>3, InPairs
    <3>2. ASSUME NEW x \in Pairs(A) PROVE x \in Pairs(B)
      <4>1. PICK p \in Object : \E i \in A[p] : x = <<p, i>>
        BY InPairs
      <4>2. PICK i \in A[p] : x = <<p, i>>
        BY <4>1
      <4>3. i \in B[p]
        BY <2>2, <2>3
      <4>4. QED
        BY <4>2, <4>3, InPairs
    <3>3. <<o, Len(s) + 1>> \in Pairs(B)
      <4>1. Len(s) + 1 \in B[o]
        BY <2>2
      <4>2. QED
        BY <4>1, InPairs
    <3>4. QED
      BY <3>1, <3>2, <3>3
  <2>6. <<o, Len(s) + 1>> \notin Pairs(A)
    <3> SUFFICES ASSUME <<o, Len(s) + 1>> \in Pairs(A) PROVE FALSE
      OBVIOUS
    <3>1. PICK p \in Object : \E i \in A[p] : <<o, Len(s) + 1>> = <<p, i>>
      BY InPairs
    <3>2. QED
      BY <2>2, <2>4, <3>1
  <2>7. IsFiniteSet(Pairs(A)) /\ th[t].count = Cardinality(Pairs(A))
    BY <1>1, <2>1 DEF CountsInv
  <2>8. /\ IsFiniteSet(Pairs(B)) /\ Cardinality(Pairs(B)) = Cardinality(Pairs(A)) + 1
    <3>1. PICK x : x = <<o, Len(s) + 1>>
      OBVIOUS
    <3>2. Pairs(B) = Pairs(A) \cup {x} /\ x \notin Pairs(A)
      BY <2>5, <2>6, <3>1
    <3>3. QED
      BY <2>7, <3>2, FS_AddElement
  <2>9. QED
    BY <1>2, <2>1, <2>7, <2>8
<1>9. QED
  BY <1>7, <1>8 DEF CountsInv

----------------------------------------------------------------------------
(* ChangeOwner takes a request from the queue.                             *)
LEMMA GrantCounted ==
  ASSUME Base, NEW o \in Object, requests[o] # <<>>,
         NEW t \in Thread, t = Head(requests[o]), OneRequestLess(t),
         UNCHANGED <<current, pc>>, pc # "signal",
         requests' = [requests EXCEPT ![o] = Tail(@)]
  PROVE  CountsInv'
<1> DEFINE s == requests[o]
<1>1. /\ requests \in [Object -> Seq(Thread)] /\ s \in Seq(Thread) /\ Len(s) \in Nat \ {0}
      /\ CountsInv /\ s # <<>> /\ s[1] = t /\ th[t] \in ThreadRecord /\ "count" \in DOMAIN th[t]
  <2>1. /\ requests \in [Object -> Seq(Thread)] /\ CountsInv
        /\ th[t] \in ThreadRecord
    BY DEF Base, MonitorsTyped, Typed
  <2>2. "count" \in DOMAIN th[t]
    BY <2>1 DEF ThreadRecord
  <2>3. s \in Seq(Thread)
    BY <2>1
  <2>4. Len(s) \in Nat /\ Len(s) # 0
    BY <2>3, EmptySeq
  <2>5. Head(s) = s[1]
    BY <2>3
  <2>6. QED
    BY <2>1, <2>2, <2>3, <2>4, <2>5
<1>2. Less(t) /\ \A u \in Thread \ {t} : th'[u] = th[u]
  BY GrantStep
<1>3. requests'[o] = Tail(s) /\ \A p \in Object \ {o} : requests'[p] = requests[p]
  BY <1>1
<1>4. th'[t].count = th[t].count - 1
  <2>1. CASE th[t].count = 1
    <3> DEFINE q == [th[t] EXCEPT !.count = 0, !.status = "Ready"]
    <3>1. Put(t, q)
      BY <1>2, <2>1 DEF Less
    <3>2. "count" \in DOMAIN q /\ q.count = 0
      BY <1>1
    <3> HIDE DEF q
    <3>3. th'[t].count = 0
      BY <3>1, <3>2 DEF Put, Woken
    <3>4. QED
      BY <2>1, <3>3
  <2>2. CASE th[t].count # 1
    <3>1. th'[t] = [th[t] EXCEPT !.count = @ - 1, !.status = "Waiting"]
      BY <1>2, <2>2 DEF Less
    <3>2. QED
      BY <1>1, <3>1
  <2>3. QED
    BY <2>1, <2>2
<1>5. ASSUME NEW u
      PROVE  ExistsBijection(Places(s, u) \ {1}, Places(Tail(s), u))
  BY <1>1, TailPlaces
<1> HIDE DEF s
<1>6. ASSUME NEW u \in Thread \ {t}
      PROVE  IsFiniteSet(RequestsOf(u)') /\ th'[u].count = Cardinality(RequestsOf(u)')
  <2>1. ASSUME NEW p \in Object
        PROVE  ExistsBijection(Places(requests[p], u), Places(requests'[p], u))
    <3>1. CASE p = o
      <4>1. Places(s, u) \ {1} = Places(s, u)
        BY <1>1 DEF Places
      <4>2. QED
        BY <1>3, <1>5, <3>1, <4>1 DEF s
    <3>2. CASE p # o
      BY <1>3, <3>2, Fun_ExistsBijReflexive
    <3>3. QED
      BY <3>1, <3>2
  <2>2. QED
    BY <1>1, <1>2, <2>1, SameRequests
<1>7. IsFiniteSet(RequestsOf(t)') /\ th'[t].count = Cardinality(RequestsOf(t)')
  <2> DEFINE B == PlacesOf(requests, t)
             A == [p \in Object |-> IF p = o THEN B[o] \ {1} ELSE B[p]]
  <2>1. RequestsOf(t) = Pairs(B)
    BY RequestsArePlaces
  <2>2. \A p \in Object : ExistsBijection(A[p], Places(requests'[p], t))
    <3> SUFFICES ASSUME NEW p \in Object
                 PROVE  ExistsBijection(A[p], Places(requests'[p], t))
      OBVIOUS
    <3>1. CASE p = o
      <4>1. A[p] = Places(s, t) \ {1}
        BY <3>1 DEF PlacesOf, s
      <4>2. QED
        BY <1>3, <1>5, <3>1, <4>1
    <3>2. CASE p # o
      <4>1. A[p] = Places(requests'[p], t)
        BY <1>3, <3>2 DEF PlacesOf
      <4>2. QED
        BY <4>1, Fun_ExistsBijReflexive
    <3>3. QED
      BY <3>1, <3>2
  <2>3. 1 \in B[o]
    BY <1>1 DEF PlacesOf, Places, s
  <2>4. A[o] = B[o] \ {1} /\ \A p \in Object \ {o} : A[p] = B[p]
    OBVIOUS
  <2> HIDE DEF A, B
  <2>5. PICK x : x = <<o, 1>>
    OBVIOUS
  <2>6. x \in Pairs(B)
    BY <2>3, <2>5, InPairs
  <2>7. Pairs(A) = Pairs(B) \ {x}
    <3>1. ASSUME NEW y \in Pairs(A) PROVE y \in Pairs(B) \ {x}
      <4>1. PICK p \in Object : \E i \in A[p] : y = <<p, i>>
        BY InPairs
      <4>2. PICK i \in A[p] : y = <<p, i>>
        BY <4>1
      <4>3. i \in B[p] /\ (p = o => i # 1)
        BY <2>4
      <4>4. y \in Pairs(B)
        BY <4>2, <4>3, InPairs
      <4>5. y # x
        BY <2>5, <4>2, <4>3
      <4>6. QED
        BY <4>4, <4>5
    <3>2. ASSUME NEW y \in Pairs(B) \ {x} PROVE y \in Pairs(A)
      <4>1. PICK p \in Object : \E i \in B[p] : y = <<p, i>>
        BY InPairs
      <4>2. PICK i \in B[p] : y = <<p, i>>
        BY <4>1
      <4>3. i \in A[p]
        BY <2>4, <2>5, <4>2
      <4>4. QED
        BY <4>2, <4>3, InPairs
    <3>3. QED
      BY <3>1, <3>2
  <2>8. IsFiniteSet(Pairs(B)) /\ th[t].count = Cardinality(Pairs(B))
    BY <1>1, <2>1 DEF CountsInv
  <2>9. IsFiniteSet(Pairs(A)) /\ Cardinality(Pairs(A)) = Cardinality(Pairs(B)) - 1
    BY <2>6, <2>7, <2>8, FS_RemoveElement
  <2>10. IsFiniteSet(RequestsOf(t)') /\ Cardinality(RequestsOf(t)') = Cardinality(Pairs(A))
    BY <2>2, <2>9, Recount
  <2>11. QED
    BY <1>4, <2>8, <2>9, <2>10
<1>8. QED
  BY <1>6, <1>7 DEF CountsInv

LEMMA SameThreadsCounted ==
  ASSUME CountsInv, UNCHANGED requests, \A u \in Thread : th'[u].count = th[u].count
  PROVE  CountsInv'
<1>1. \A u : RequestsOf(u)' = RequestsOf(u)
  BY DEF RequestsOf, Requests, RequestOf
<1>2. QED
  BY <1>1 DEF CountsInv

LEMMA ChangeOwnerCounted ==
  ASSUME Base, NEW t, NEW o \in Object, ChangeOwner(t, o), UNCHANGED <<current, pc>>,
         pc # "signal"
  PROVE  CountsInv'
<1>1. CASE requests[o] = <<>>
  BY <1>1, SameThreadsCounted DEF ChangeOwner, Base
<1>2. CASE requests[o] # <<>>
  <2>1. requests[o] \in Seq(Thread)
    BY DEF Base, MonitorsTyped
  <2>2. Head(requests[o]) \in Thread
    BY <1>2, <2>1
  <2>3. PICK h \in Thread : h = Head(requests[o])
    BY <2>2
  <2>4. OneRequestLess(h) /\ requests' = [requests EXCEPT ![o] = Tail(@)]
    BY <1>2, <2>3 DEF ChangeOwner
  <2>5. QED
    BY <1>2, <2>3, <2>4, GrantCounted
<1>3. QED
  BY <1>1, <1>2

----------------------------------------------------------------------------
(* DestroyInstance takes all requests of the dead thread from the queues it  *)
(* finds.                                                                  *)
LEMMA DeleteCounted ==
  ASSUME Base, DeleteLockRequests
  PROVE  CountsInv'
<1>1. /\ requests \in [Object -> Seq(Thread)] /\ CountsInv /\ pc = "release"
      /\ th \in [Thread -> ThreadRecord] /\ DOMAIN th = Thread
  BY DEF Base, MonitorsTyped, Typed, DeleteLockRequests
<1>2. PICK t \in Thread : t = current
  BY <1>1 DEF Base, IInv, CurrentAlive
<1> DEFINE searched == IF th[t].call = Exited THEN {}
                       ELSE {o \in Object : Owner(o) \in ready \cup Nodes(waiting)}
           found == {r \in Requests : r[1] \in searched /\ RequestOf(r) = t}
           left == th[t].count - Cardinality(found)
           s == [th EXCEPT ![t].count = left, ![t].exception = FALSE,
                           ![t].call = Exited]
           q == [th[t] EXCEPT !.count = left, !.exception = FALSE, !.call = Exited]
           K(o) == Keep(requests[o], Kept(o, t))
<1>3. \A o \in Object : requests'[o] = IF o \in searched THEN K(o) ELSE requests[o]
  BY <1>2 DEF DeleteLockRequests, Kept
<1>4. IF found = {} THEN th' = s
      ELSE IF left = 0 THEN Restart(s, t, FALSE)
      ELSE th' = [s EXCEPT ![t].status = "Waiting"]
  BY <1>2 DEF DeleteLockRequests
<1>5. /\ "count" \in DOMAIN th[t] /\ "count" \in DOMAIN q /\ q.count = left
  <2>1. DOMAIN th[t] = FieldNames
    BY <1>1, FieldsThere
  <2>2. QED
    BY <2>1 DEF FieldNames
<1>6. DOMAIN s = Thread /\ s[t] = q /\ \A u \in Thread \ {t} : s[u] = th[u]
  BY <1>1
<1> HIDE DEF s, q, left, found
<1>7. th'[t].count = left /\ \A u \in Thread \ {t} : th'[u] = th[u]
  <2>1. CASE th' = s
    BY <1>5, <1>6, <2>1
  <2>2. CASE th' = [s EXCEPT ![t].status = "Waiting"]
    BY <1>5, <1>6, <2>2
  <2>3. CASE Restart(s, t, FALSE)
    <3> DEFINE r == [s[t] EXCEPT !.status = "Ready", !.sleep = @ /\ ~FALSE]
    <3>1. PutInProperList(s, t, r)
      BY <2>3 DEF Restart
    <3>2. "count" \in DOMAIN r /\ r.count = left
      BY <1>5, <1>6
    <3> HIDE DEF r
    <3>3. QED
      BY <1>6, <3>1, <3>2, PutCount
  <2>4. QED
    BY <1>4, <2>1, <2>2, <2>3
<1> HIDE DEF searched
<1>8. ASSUME NEW u \in Thread \ {t}
      PROVE  IsFiniteSet(RequestsOf(u)') /\ th'[u].count = Cardinality(RequestsOf(u)')
  <2>1. ASSUME NEW o \in Object
        PROVE  ExistsBijection(Places(requests[o], u), Places(requests'[o], u))
    <3>1. requests[o] \in Seq(Thread) /\ Kept(o, t) \in SUBSET (1 .. Len(requests[o]))
      BY <1>1 DEF Kept
    <3>2. Places(requests[o], u) \subseteq Kept(o, t)
      BY DEF Places, Kept
    <3>3. ExistsBijection(Places(K(o), u), Places(requests[o], u))
      BY <3>1, <3>2, KeepPlaces
    <3>4. ExistsBijection(Places(requests[o], u), Places(K(o), u))
      BY <3>3, Fun_ExistsBijSymmetric
    <3>5. ExistsBijection(Places(requests[o], u), Places(requests[o], u))
      BY Fun_ExistsBijReflexive
    <3>6. QED
      BY <1>3, <3>4, <3>5
  <2>2. QED
    BY <1>1, <1>7, <2>1, SameRequests
<1>9. IsFiniteSet(RequestsOf(t)') /\ th'[t].count = Cardinality(RequestsOf(t)')
  <2> DEFINE B == PlacesOf(requests, t)
             A == [o \in Object |-> IF o \in searched THEN {} ELSE B[o]]
  <2>1. RequestsOf(t) = Pairs(B)
    BY RequestsArePlaces
  <2>2. \A o \in Object : A[o] = Places(requests'[o], t)
    <3> SUFFICES ASSUME NEW o \in Object PROVE A[o] = Places(requests'[o], t)
      OBVIOUS
    <3>1. CASE o \in searched
      <4>1. t \notin Nodes(K(o))
        BY <1>1, KeptNodes DEF Base
      <4>2. Places(K(o), t) = {}
        BY <4>1 DEF Places, Nodes
      <4>3. QED
        BY <1>3, <3>1, <4>2
    <3>2. CASE o \notin searched
      BY <1>3, <3>2 DEF PlacesOf
    <3>3. QED
      BY <3>1, <3>2
  <2>3. \A o \in Object : ExistsBijection(A[o], Places(requests'[o], t))
    BY <2>2, Fun_ExistsBijReflexive
  <2>4. \A o \in Object : A[o] = IF o \in searched THEN {} ELSE B[o]
    OBVIOUS
  <2>5. found = {x \in Pairs(B) : x[1] \in searched}
    BY <2>1 DEF found, RequestsOf
  <2> HIDE DEF A, B
  <2>6. Pairs(A) = Pairs(B) \ found
    <3>1. ASSUME NEW y \in Pairs(A) PROVE y \in Pairs(B) \ found
      <4>1. PICK o \in Object : \E i \in A[o] : y = <<o, i>>
        BY InPairs
      <4>2. PICK i \in A[o] : y = <<o, i>>
        BY <4>1
      <4>3. i \in B[o] /\ o \notin searched /\ y[1] = o
        BY <2>4, <4>2
      <4>4. y \in Pairs(B)
        BY <4>2, <4>3, InPairs
      <4>5. QED
        BY <2>5, <4>3, <4>4
    <3>2. ASSUME NEW y \in Pairs(B) \ found PROVE y \in Pairs(A)
      <4>1. PICK o \in Object : \E i \in B[o] : y = <<o, i>>
        BY InPairs
      <4>2. PICK i \in B[o] : y = <<o, i>>
        BY <4>1
      <4>3. y[1] = o /\ o \notin searched
        BY <2>5, <4>2
      <4>4. i \in A[o]
        BY <2>4, <4>3
      <4>5. QED
        BY <4>2, <4>4, InPairs
    <3>3. QED
      BY <3>1, <3>2
  <2>7. IsFiniteSet(Pairs(B)) /\ th[t].count = Cardinality(Pairs(B))
    BY <1>1, <2>1 DEF CountsInv
  <2>8. IsFiniteSet(Pairs(A)) /\ Cardinality(Pairs(A)) = Cardinality(Pairs(B)) - Cardinality(found)
    <3>1. Pairs(B) \cap found = found
      BY <2>5
    <3>2. /\ IsFiniteSet(Pairs(B) \ found)
          /\ Cardinality(Pairs(B) \ found)
               = Cardinality(Pairs(B)) - Cardinality(Pairs(B) \cap found)
      BY <2>7, FS_Difference
    <3>3. Cardinality(Pairs(B) \cap found) = Cardinality(found)
      BY <3>1, Zenon
    <3>4. QED
      BY <2>6, <3>2, <3>3
  <2>9. IsFiniteSet(RequestsOf(t)') /\ Cardinality(RequestsOf(t)') = Cardinality(Pairs(A))
    BY <2>3, <2>8, Recount
  <2>10. QED
    BY <1>7, <2>7, <2>8, <2>9 DEF left
<1>10. QED
  BY <1>8, <1>9 DEF CountsInv

(* The counts stay in step with the queues. *)
LEMMA CountsStep ==
  ASSUME Base, LocksInv, [Next]_vars
  PROVE  CountsInv'
<1>1. CountsInv /\ ThreadStep
  BY ThreadSteps DEF Base
<1>2. CASE Elsewhere
  BY <1>1, <1>2, SameCount, SameThreadsCounted DEF Elsewhere, ThreadStep
<1>3. ASSUME NEW t \in Thread, NEW o \in Object, MonitorEnter(t, o) PROVE CountsInv'
  <2>1. CASE Owner(o) \in {Nobody, t}
    BY <1>1, <1>3, <2>1, SameThreadsCounted DEF MonitorEnter
  <2>2. CASE Owner(o) \notin {Nobody, t}
    <3> DEFINE r == [th[t] EXCEPT !.count = @ + 1, !.status = "Waiting",
                                  !.call = Entering(o)]
    <3>1. /\ requests' = [requests EXCEPT ![o] = Append(@, t)]
          /\ PutInProperList(th, t, r)
      BY <1>3, <2>2 DEF MonitorEnter, Leave, Calls, Running
    <3>2. "count" \in DOMAIN th[t]
      BY DEF Base, Typed, ThreadRecord
    <3>3. "count" \in DOMAIN r /\ r.count = th[t].count + 1
      BY <3>2
    <3> HIDE DEF r
    <3>4. QED
      BY <3>1, <3>3, AskCounted
  <2>3. QED
    BY <2>1, <2>2
<1>4. ASSUME NEW t \in Thread, NEW o \in Object, MonitorExit(t, o) PROVE CountsInv'
  <2>1. CASE depth[o] > 1
    BY <1>1, <1>4, <2>1, SameThreadsCounted DEF MonitorExit
  <2>2. CASE ~(depth[o] > 1)
    BY <1>4, <2>2, ChangeOwnerCounted DEF MonitorExit, Calls, Running
  <2>3. QED
    BY <2>1, <2>2
<1>5. CASE DestroyOwner
  <2>1. cursor.at \in Nodes(locks[current]) /\ current \in Thread
    BY <1>5 DEF DestroyOwner, Base, Cursors, IInv, CurrentAlive
  <2>2. cursor.at \in Object
    BY <2>1, ElementOfSeq DEF Base, MonitorsTyped, Nodes
  <2>3. PICK o \in Object : o = cursor.at
    BY <2>2
  <2>4. QED
    BY <1>5, <2>3, ChangeOwnerCounted DEF DestroyOwner
<1>6. QED
  BY <1>2, <1>3, <1>4, <1>5, MonitorSteps, DeleteCounted

----------------------------------------------------------------------------
(* The lists of the engine hold threads.                                   *)
LEMMA ListOf ==
  ASSUME NEW s, NEW T, IsList(s), Nodes(s) \subseteq T
  PROVE  s \in Seq(T)
<1>1. Len(s) \in Nat /\ s \in [1 .. Len(s) -> Nodes(s)]
  BY LenProperties DEF IsList
<1>2. s \in [1 .. Len(s) -> T]
  BY <1>1
<1>3. QED
  BY <1>1, <1>2, SeqDef

LEMMA ThreadNodes ==
  ASSUME EngineTyped
  PROVE  Nodes(waiting) \subseteq Thread
BY ElementOfSeq DEF EngineTyped, Nodes

LEMMA PutTyped ==
  ASSUME Base, NEW s, NEW t \in Thread, NEW r, PutInProperList(s, t, r)
  PROVE  /\ ready' \subseteq Thread /\ waiting' \in Seq(Thread)
         /\ \A u \in Thread \ {t} : u \in ready => u \in ready'
         /\ r.status = "Ready" /\ ~r.suspended => t \in ready'
         /\ waiting' \in {Unlink(waiting, t), LinkAtBack(Unlink(waiting, t), t)}
         /\ Nodes(waiting) \ {t} \subseteq Nodes(waiting)'
<1>1. IsList(waiting) /\ Distinct(waiting) /\ Nodes(waiting) \subseteq Thread /\ EngineTyped
  BY ThreadNodes DEF Base, IInv, ListsAgree
<1>2. /\ IsList(Unlink(waiting, t)) /\ Distinct(Unlink(waiting, t))
      /\ Nodes(Unlink(waiting, t)) = Nodes(waiting) \ {t}
  BY <1>1, Unlinked
<1>3. /\ IsList(LinkAtBack(Unlink(waiting, t), t))
      /\ Nodes(LinkAtBack(Unlink(waiting, t), t)) = Nodes(waiting) \cup {t}
  BY <1>2, LinkedAtBack
<1>4. waiting' \in {Unlink(waiting, t), LinkAtBack(Unlink(waiting, t), t)}
  BY DEF PutInProperList
<1>5. IsList(waiting') /\ Nodes(waiting') \subseteq Thread /\ Nodes(waiting) \ {t} \subseteq Nodes(waiting')
  BY <1>1, <1>2, <1>3, <1>4
<1>6. waiting' \in Seq(Thread)
  BY <1>5, ListOf
<1>7. /\ ready' \in {ready \cup {t}, ready \ {t}}
      /\ r.status = "Ready" /\ ~r.suspended => t \in ready'
  BY DEF PutInProperList
<1>8. Nodes(waiting)' = Nodes(waiting')
  BY DEF Nodes
<1>9. QED
  BY <1>1, <1>4, <1>5, <1>6, <1>7, <1>8 DEF EngineTyped

(* A grant takes no thread out of the ready list. *)
LEMMA LessTyped ==
  ASSUME Base, NEW t \in Thread, OneRequestLess(t)
  PROVE  ready' \subseteq Thread /\ waiting' \in Seq(Thread) /\ ready \subseteq ready'
<1> DEFINE s == [th EXCEPT ![t].count = @ - 1]
<1>1. CASE UNCHANGED <<ready, waiting>>
  BY <1>1 DEF Base, EngineTyped
<1>2. CASE Restart(s, t, FALSE)
  <2> DEFINE r == [s[t] EXCEPT !.status = "Ready", !.sleep = @ /\ ~FALSE]
  <2>1. PutInProperList(s, t, r)
    BY <1>2 DEF Restart
  <2>2. r.status = "Ready" /\ r.suspended = th[t].suspended
    <3>1. th \in [Thread -> ThreadRecord] /\ th[t] \in ThreadRecord
      BY DEF Base, Typed
    <3>2. s[t] = [th[t] EXCEPT !.count = @ - 1]
      BY <3>1
    <3>3. DOMAIN th[t] = FieldNames
      BY <3>1, FieldsThere
    <3> HIDE DEF s
    <3>4. QED
      BY <3>2, <3>3 DEF FieldNames
  <2> HIDE DEF r, s
  <2>3. t \in ready => t \in ready'
    <3>1. t \in ready => ~th[t].suspended
      BY DEF Base, IInv, ListsAgree
    <3>2. QED
      BY <2>1, <2>2, <3>1, PutTyped
  <2>4. ready \subseteq Thread
    BY DEF Base, EngineTyped
  <2>5. QED
    BY <2>1, <2>3, <2>4, PutTyped
<1>3. QED
  BY <1>1, <1>2 DEF OneRequestLess

LEMMA ChangeOwnerTyped ==
  ASSUME Base, NEW t, NEW o \in Object, ChangeOwner(t, o)
  PROVE  ready' \subseteq Thread /\ waiting' \in Seq(Thread) /\ ready \subseteq ready'
<1>1. CASE requests[o] = <<>>
  BY <1>1 DEF ChangeOwner, Base, EngineTyped
<1>2. CASE requests[o] # <<>>
  <2>1. requests[o] \in Seq(Thread)
    BY DEF Base, MonitorsTyped
  <2>2. Head(requests[o]) \in Thread
    BY <1>2, <2>1
  <2>3. PICK h \in Thread : h = Head(requests[o])
    BY <2>2
  <2>4. OneRequestLess(h)
    BY <1>2, <2>3 DEF ChangeOwner
  <2>5. QED
    BY <2>4, LessTyped
<1>3. QED
  BY <1>1, <1>2

(* The steps of the engine, by what they do to the cursor.                 *)
LEMMA LeaveEngine ==
  ASSUME Base, NEW t \in Thread, Running(t), NEW r, Leave(r), signaled' \subseteq signaled
  PROVE  EngineTyped' /\ Cursors'
<1>1. PutInProperList(th, t, r) /\ current' = Nobody /\ pc' = "idle" /\ UNCHANGED cursor
  BY DEF Leave, Running
<1>2. ready' \subseteq Thread /\ waiting' \in Seq(Thread)
  BY <1>1, PutTyped
<1>3. QED
  BY <1>1, <1>2 DEF Base, EngineTyped, Cursors

LEMMA PutEngine ==
  ASSUME Base, NEW t \in Thread, Running(t), NEW u \in Thread \ {t}, NEW s, NEW r,
         PutInProperList(s, u, r), UNCHANGED <<current, pc, cursor>>,
         signaled' \subseteq signaled
  PROVE  EngineTyped' /\ Cursors'
<1>1. ready' \subseteq Thread /\ waiting' \in Seq(Thread) /\ (t \in ready => t \in ready')
  BY PutTyped
<1>2. t \in ready /\ pc = "run" /\ current = t
  BY DEF Running, Base, Cursors
<1>3. QED
  BY <1>1, <1>2 DEF Base, EngineTyped, Cursors

LEMMA StayEngine ==
  ASSUME Base, ready' \subseteq Thread, ready \subseteq ready', waiting' \in Seq(Thread),
         UNCHANGED <<current, pc, cursor>>, signaled' \subseteq signaled,
         pc \in {"idle", "run"}
  PROVE  EngineTyped' /\ Cursors'
BY DEF Base, EngineTyped, Cursors

(* SubThread::DestroyInstance begins. *)
LEMMA DestroyEngine ==
  ASSUME Base, LocksInv, NEW t \in Thread, DestroyInstance(t), UNCHANGED <<locks, signaled>>,
         current' = t, ready' \subseteq Thread, waiting' \in Seq(Thread)
  PROVE  EngineTyped' /\ Cursors'
<1>1. locks[t] \in Seq(Object) /\ Distinct(locks[t])
  BY DEF Base, MonitorsTyped, LocksInv
<1>2. First(locks[t]) = Nobody \/ First(locks[t]) \in Nodes(locks[t])
  BY <1>1, FirstNode
<1>3. Nodes(locks[t]) \subseteq Object
  BY <1>1, ElementOfSeq DEF Nodes
<1>4. /\ pc' = "release" /\ cursor'.handle = Nobody
      /\ cursor' = [handle |-> Nobody, at |-> cursor'.at]
      /\ cursor'.at = Nobody \/ cursor'.at \in Nodes(locks[t])
  BY <1>2 DEF DestroyInstance
<1>5. Nodes(locks[current])' = Nodes(locks[t])
  BY DEF Nodes
<1>6. Cursors'
  BY <1>4, <1>5 DEF Cursors
<1>7. signaled' \subseteq Waitable
  BY DEF Base, EngineTyped
<1>8. QED
  BY <1>3, <1>4, <1>6, <1>7 DEF EngineTyped

LEMMA PassivateEngine ==
  ASSUME Base, LocksInv, NEW t \in Thread, Passivate(t), UNCHANGED locks
  PROVE  EngineTyped' /\ Cursors'
<1>1. IsList(waiting) /\ Distinct(waiting) /\ Nodes(waiting) \subseteq Thread /\ EngineTyped
  BY ThreadNodes DEF Base, IInv, ListsAgree
<1> DEFINE l == Unlink(waiting, t)
<1>2. IsList(l) /\ Distinct(l) /\ Nodes(l) = Nodes(waiting) \ {t}
  BY <1>1, Unlinked
<1>3. l \in Seq(Thread)
  BY <1>1, <1>2, ListOf
<1>4. waiting' = l /\ ready' = ready \ {t} /\ current' = t
  BY DEF Passivate
<1> HIDE DEF l
<1>5. CASE t \in Joinable
  <2>1. SignalObject(t, l)
    BY <1>5 DEF Passivate, l
  <2>2. First(l) = Nobody \/ First(l) \in Nodes(l)
    BY <1>2, <1>3, FirstNode
  <2>3. th'[current'].status = "Terminated"
    <3>1. DOMAIN th = Thread /\ DOMAIN th[t] = FieldNames
      BY FieldsThere DEF Base, Typed
    <3>2. QED
      BY <1>4, <3>1 DEF Passivate, FieldNames
  <2>4. /\ pc' = "signal" /\ cursor' = [handle |-> t, at |-> First(l)]
        /\ signaled' = signaled \cup {t}
    BY <2>1 DEF SignalObject
  <2>5. Nodes(waiting)' = Nodes(l)
    BY <1>4 DEF Nodes
  <2>6. t \in Waitable
    BY <1>5 DEF Waitable
  <2>7. Cursors'
    BY <2>2, <2>3, <2>4, <2>5, <2>6 DEF Cursors
  <2>8. QED
    BY <1>1, <1>2, <1>3, <1>4, <2>2, <2>4, <2>6, <2>7 DEF EngineTyped
<1>6. CASE t \notin Joinable
  BY <1>1, <1>3, <1>4, <1>6, DestroyEngine DEF Passivate, EngineTyped
<1>7. QED
  BY <1>5, <1>6

----------------------------------------------------------------------------
LEMMA ProgramEngine ==
  ASSUME Base, LocksInv, NEW t \in Thread, Program(t)
  PROVE  EngineTyped' /\ Cursors'
<1>1. /\ Running(t) /\ pc = "run" /\ current = t /\ t \in ready /\ ~th[t].suspended
      /\ th[t].status \in Alive /\ EngineTyped /\ Cursors
  <2>1. /\ Running(t) /\ pc = "run" /\ current = t /\ EngineTyped /\ Cursors /\ IInv
    BY DEF Program, Preempt, Exit, Catch, Reraise, Sleep, Wait, Start, Suspend, Resume, Abort,
           Join, MonitorEnter, MonitorExit, Set, Reset, Calls, Running, Base
  <2>2. t \in ready
    BY <2>1 DEF Cursors
  <2>3. QED
    BY <2>1, <2>2 DEF IInv, ListsAgree, CurrentAlive
<1>2. ASSUME UNCHANGED <<ready, waiting, current, pc, cursor>>, signaled' \subseteq signaled
      PROVE  EngineTyped' /\ Cursors'
  BY <1>1, <1>2, StayEngine DEF EngineTyped
<1>3. CASE Preempt(t)
  BY <1>1, <1>3, LeaveEngine DEF Preempt
<1>4. CASE Exit(t)
  BY <1>4, PassivateEngine DEF Exit
<1>5. CASE Catch(t) \/ Reraise(t)
  BY <1>2, <1>5 DEF Catch, Reraise, engine
<1>6. CASE Sleep(t)
  BY <1>1, <1>6, LeaveEngine DEF Sleep
<1>7. ASSUME NEW w, WaitForSignal(t, w) PROVE EngineTyped' /\ Cursors'
  <2>1. CASE UNCHANGED <<th, engine>> /\ signaled' = signaled \ Consumed(w)
    BY <1>2, <2>1 DEF engine
  <2>2. ASSUME NEW r, Leave(r), UNCHANGED signaled PROVE EngineTyped' /\ Cursors'
    BY <1>1, <2>2, LeaveEngine
  <2>3. QED
    BY <1>7, <2>1, <2>2 DEF WaitForSignal
<1>8. CASE Wait(t)
  BY <1>7, <1>8 DEF Wait
<1>9. ASSUME NEW u \in Thread, Join(t, u) PROVE EngineTyped' /\ Cursors'
  BY <1>7, <1>9 DEF Join
<1>10. ASSUME NEW u \in Thread \ {t}, NEW s, NEW r, PutInProperList(s, u, r),
              UNCHANGED <<current, pc, cursor>>, signaled' \subseteq signaled
       PROVE  EngineTyped' /\ Cursors'
  BY <1>1, <1>10, PutEngine
<1>11. ASSUME NEW u \in Thread, Start(t, u) PROVE EngineTyped' /\ Cursors'
  <2>1. u # t
    BY <1>1, <1>11 DEF Start, Alive
  <2>2. QED
    BY <1>10, <1>11, <2>1 DEF Start
<1>12. ASSUME NEW u \in Thread, Suspend(t, u) PROVE EngineTyped' /\ Cursors'
  <2>1. CASE u = t
    BY <1>1, <1>12, <2>1, LeaveEngine DEF Suspend
  <2>2. CASE u # t
    BY <1>10, <1>12, <2>2 DEF Suspend
  <2>3. QED
    BY <2>1, <2>2
<1>13. ASSUME NEW u \in Thread, Resume(t, u) PROVE EngineTyped' /\ Cursors'
  <2>1. u # t
    BY <1>1, <1>13 DEF Resume
  <2>2. QED
    BY <1>10, <1>13, <2>1 DEF Resume
<1>14. ASSUME NEW u \in Thread, Abort(t, u) PROVE EngineTyped' /\ Cursors'
  BY <1>10, <1>14 DEF Abort, Restart
<1>15. ASSUME NEW o \in Object, MonitorEnter(t, o) PROVE EngineTyped' /\ Cursors'
  <2>1. CASE Owner(o) \in {Nobody, t}
    BY <1>2, <1>15, <2>1 DEF MonitorEnter, engine
  <2>2. CASE Owner(o) \notin {Nobody, t}
    BY <1>1, <1>15, <2>2, LeaveEngine DEF MonitorEnter
  <2>3. QED
    BY <2>1, <2>2
<1>16. ASSUME NEW o \in Object, MonitorExit(t, o) PROVE EngineTyped' /\ Cursors'
  <2>1. CASE depth[o] > 1
    BY <1>2, <1>16, <2>1 DEF MonitorExit
  <2>2. CASE ChangeOwner(t, o)
    BY <1>1, <1>16, <2>2, ChangeOwnerTyped, StayEngine DEF MonitorExit
  <2>3. QED
    BY <1>16, <2>1, <2>2 DEF MonitorExit
<1>17. ASSUME NEW h \in Handle, Set(t, h) PROVE EngineTyped' /\ Cursors'
  <2>1. SignalObject(h, waiting) /\ UNCHANGED <<th, ready, waiting, current>> /\ Calls(t)
    BY <1>17 DEF Set
  <2>2. waiting \in Seq(Thread) /\ Distinct(waiting)
    BY <1>1 DEF EngineTyped, Base, IInv, ListsAgree
  <2>3. First(waiting) = Nobody \/ First(waiting) \in Nodes(waiting)
    BY <2>2, FirstNode
  <2>4. /\ pc' = "signal" /\ cursor' = [handle |-> h, at |-> First(waiting)]
        /\ signaled' = signaled \cup {h}
    BY <2>1 DEF SignalObject
  <2>5. Nodes(waiting)' = Nodes(waiting) /\ h \in Waitable /\ Nodes(waiting) \subseteq Thread
    BY <1>1, <2>1, ThreadNodes DEF Nodes, Waitable
  <2>6. MayCall(current)'
    BY <1>1, <2>1 DEF MayCall, Calls
  <2>7. Cursors'
    BY <2>3, <2>4, <2>5, <2>6 DEF Cursors
  <2>8. QED
    BY <1>1, <2>1, <2>3, <2>4, <2>5, <2>7 DEF EngineTyped
<1>18. ASSUME NEW h \in Handle, Reset(t, h) PROVE EngineTyped' /\ Cursors'
  BY <1>2, <1>18 DEF Reset, engine
<1>19. QED
  BY <1>3, <1>4, <1>5, <1>6, <1>8, <1>9, <1>11, <1>12, <1>13, <1>14, <1>15, <1>16,
     <1>17, <1>18 DEF Program

LEMMA SignalNextEngine ==
  ASSUME Base, SignalNext
  PROVE  EngineTyped' /\ Cursors'
<1>1. /\ cursor.at \in Nodes(waiting) /\ pc = "signal" /\ Nodes(waiting) \subseteq Thread
      /\ EngineTyped /\ IInv /\ waiting \in Seq(Thread) /\ Distinct(waiting)
      /\ UNCHANGED <<current, pc>> /\ cursor.handle \in Waitable
  BY ThreadNodes DEF SignalNext, Base, Cursors, IInv, ListsAgree, EngineTyped
<1>2. PICK t \in Thread : t = cursor.at
  BY <1>1
<1> DEFINE w == th[t].wait
           n == Successor(waiting, t)
<1>3. n = Nobody \/ n \in Nodes(waiting) \ {t}
  BY <1>1, <1>2, NextNode
<1>4. /\ cursor' = [cursor EXCEPT !.at = cursor'.at] /\ cursor'.at \in {n, Nobody}
      /\ cursor'.handle = cursor.handle
  BY <1>1, <1>2 DEF SignalNext, EngineTyped
<1>5. PICK c \in Thread : c = current
  BY <1>1 DEF IInv, CurrentAlive
<1>6. c # t /\ (th[c].status = "Terminated" \/ MayCall(c))
  <2>1. th[c].status = "Terminated" \/ MayCall(c)
    BY <1>1, <1>5 DEF Base, Cursors
  <2>2. QED
    BY <1>1, <1>2, <1>5, <2>1 DEF MayCall, IInv, ListsAgree
<1>7. /\ ready' \subseteq Thread /\ waiting' \in Seq(Thread) /\ signaled' \subseteq signaled
      /\ c \in ready => c \in ready'
      /\ th'[c] = th[c] /\ Nodes(waiting) \ {t} \subseteq Nodes(waiting)'
  <2>1. CASE /\ signaled' = signaled \ Consumed(w)
             /\ Restart([th EXCEPT ![t].result = Result(w)], t, TRUE)
    <3> DEFINE s == [th EXCEPT ![t].result = Result(w)]
               r == [s[t] EXCEPT !.status = "Ready", !.sleep = @ /\ ~TRUE]
    <3>1. PutInProperList(s, t, r)
      BY <2>1 DEF Restart
    <3>2. DOMAIN s = Thread /\ s[c] = th[c]
      BY <1>6 DEF Base, Typed
    <3> HIDE DEF r, s
    <3>3. th'[c] = s[c]
      BY <1>6, <3>1, <3>2 DEF PutInProperList
    <3>4. QED
      BY <1>6, <2>1, <3>1, <3>2, <3>3, PutTyped
  <2>2. CASE UNCHANGED <<th, ready, waiting, signaled>>
    BY <1>1, <2>2 DEF EngineTyped, Nodes
  <2>3. QED
    BY <1>2, <2>1, <2>2 DEF SignalNext
<1> HIDE DEF n
<1>8. cursor'.at = Nobody \/ cursor'.at \in Nodes(waiting)'
  BY <1>3, <1>4, <1>7
<1>9. Cursors'
  <2>1. th[c]'.status = "Terminated" \/ MayCall(c)'
    BY <1>6, <1>7 DEF MayCall
  <2>2. current' = c
    BY <1>1, <1>5
  <2>3. th'[current'].status = "Terminated" \/ MayCall(current)'
    BY <2>1, <2>2 DEF MayCall
  <2>4. QED
    BY <1>1, <1>4, <1>8, <2>3 DEF Cursors
<1>10. cursor' \in [handle : Waitable \cup {Nobody}, at : Thread \cup Object \cup {Nobody}]
  BY <1>1, <1>3, <1>4 DEF EngineTyped
<1>11. QED
  BY <1>1, <1>7, <1>9, <1>10 DEF EngineTyped

LEMMA DestroyOwnerEngine ==
  ASSUME Base, LocksInv, DestroyOwner
  PROVE  EngineTyped' /\ Cursors'
<1>1. /\ pc = "release" /\ cursor.at \in Nodes(locks[current]) /\ MonitorsTyped /\ EngineTyped
      /\ UNCHANGED <<current, pc, signaled>>
  BY DEF DestroyOwner, Base, Cursors
<1>2. PICK t \in Thread : t = current
  BY <1>1 DEF Base, IInv, CurrentAlive
<1>3. locks[t] \in Seq(Object) /\ Distinct(locks[t]) /\ Nodes(locks[t]) \subseteq Object
  <2>1. locks[t] \in Seq(Object)
    BY <1>1 DEF MonitorsTyped
  <2>2. QED
    BY <2>1, ElementOfSeq DEF LocksInv, Nodes
<1>4. PICK o \in Object : o = cursor.at /\ o \in Nodes(locks[t])
  BY <1>1, <1>2, <1>3
<1>5. ChangeOwner(t, o) /\ cursor' = [cursor EXCEPT !.at = Successor(locks[t], o)]
  BY <1>2, <1>4 DEF DestroyOwner
<1>6. Owner(o) = t
  BY <1>4, OwnerNow
<1>7. Given(o, Heir(o))
  BY <1>1, <1>5, <1>6, HandOver
<1>8. Nodes(locks[t]) \ {o} \subseteq Nodes(locks'[t])
  BY <1>7 DEF Given
<1>9. Successor(locks[t], o) = Nobody \/ Successor(locks[t], o) \in Nodes(locks[t]) \ {o}
  BY <1>3, <1>4, NextNode
<1>10. ready' \subseteq Thread /\ waiting' \in Seq(Thread)
  BY <1>5, ChangeOwnerTyped
<1>11. Nodes(locks[current])' = Nodes(locks'[t])
  BY <1>1, <1>2 DEF Nodes
<1>12. cursor'.at = Successor(locks[t], o) /\ cursor' = [cursor EXCEPT !.at = cursor'.at]
  BY <1>1, <1>5 DEF EngineTyped
<1>13. Cursors'
  BY <1>1, <1>8, <1>9, <1>11, <1>12 DEF Cursors
<1>14. QED
  BY <1>1, <1>3, <1>9, <1>10, <1>12, <1>13 DEF EngineTyped

----------------------------------------------------------------------------
LEMMA DeleteEngine ==
  ASSUME Base, DeleteLockRequests
  PROVE  EngineTyped' /\ Cursors'
<1>1. /\ current' = Nobody /\ pc' = "idle" /\ UNCHANGED <<cursor, signaled>>
      /\ EngineTyped /\ pc = "release"
  BY DEF DeleteLockRequests, Base
<1>2. PICK t \in Thread : t = current
  BY <1>1 DEF Base, IInv, CurrentAlive
<1>3. UNCHANGED <<ready, waiting>> \/ \E s : Restart(s, t, FALSE)
  BY <1>2 DEF DeleteLockRequests
<1>4. ready' \subseteq Thread /\ waiting' \in Seq(Thread)
  <2>1. ASSUME NEW s, Restart(s, t, FALSE) PROVE ready' \subseteq Thread /\ waiting' \in Seq(Thread)
    BY <2>1, PutTyped DEF Restart
  <2>2. CASE UNCHANGED <<ready, waiting>>
    BY <1>1, <2>2 DEF EngineTyped
  <2>3. QED
    BY <1>3, <2>1, <2>2
<1>5. QED
  BY <1>1, <1>4 DEF EngineTyped, Cursors

LEMMA EngineStep ==
  ASSUME Base, LocksInv, [Next]_vars
  PROVE  EngineTyped' /\ Cursors'
<1>1. EngineTyped /\ Cursors /\ IInv
  BY DEF Base
<1>2. ASSUME NEW t \in Thread, Dispatch(t) PROVE EngineTyped' /\ Cursors'
  BY <1>1, <1>2 DEF Dispatch, EngineTyped, Cursors
<1>3. ASSUME NEW t \in Thread, CheckThreads(t) PROVE EngineTyped' /\ Cursors'
  <2>1. \E s, d : Restart(s, t, d)
    BY <1>3 DEF CheckThreads
  <2>2. ready' \subseteq Thread /\ waiting' \in Seq(Thread)
    BY <2>1, PutTyped DEF Restart
  <2>3. QED
    BY <1>1, <1>3, <2>2 DEF CheckThreads, EngineTyped, Cursors
<1>4. ASSUME NEW t \in Thread, Terminate(t) PROVE EngineTyped' /\ Cursors'
  BY <1>4, PassivateEngine DEF Terminate
<1>5. CASE SignalEnd
  <2>1. /\ pc = "signal" /\ UNCHANGED <<th, ready, waiting, current, signaled, locks>>
    BY <1>5 DEF SignalEnd, monitors
  <2>2. PICK t \in Thread : t = current
    BY <1>1, <2>1 DEF IInv, CurrentAlive
  <2>3. CASE th[t].status = "Terminated"
    <3>1. DestroyInstance(t)
      BY <1>5, <2>2, <2>3 DEF SignalEnd
    <3>2. QED
      BY <1>1, <2>1, <2>2, <3>1, DestroyEngine DEF EngineTyped
  <2>4. CASE th[t].status # "Terminated"
    <3>1. pc' = "run" /\ cursor' = [cursor EXCEPT !.handle = Nobody]
      BY <1>5, <2>2, <2>4 DEF SignalEnd
    <3>2. t \in ready
      BY <1>1, <2>1, <2>2, <2>4 DEF Cursors, MayCall
    <3>3. QED
      BY <1>1, <2>1, <2>2, <3>1, <3>2 DEF EngineTyped, Cursors
  <2>5. QED
    BY <2>3, <2>4
<1>6. CASE UNCHANGED vars
  <2>1. UNCHANGED <<th, ready, waiting, current, pc, cursor, signaled, locks>>
    BY <1>6 DEF vars
  <2>2. \A u : Nodes(waiting)' = Nodes(waiting) /\ Nodes(locks[u])' = Nodes(locks[u])
    BY <2>1 DEF Nodes
  <2>3. QED
    BY <1>1, <2>1, <2>2 DEF EngineTyped, Cursors, MayCall, Nodes
<1>7. QED
  BY <1>2, <1>3, <1>4, <1>5, <1>6, ProgramEngine, SignalNextEngine, DestroyOwnerEngine,
     DeleteEngine DEF Next, Native

(* Base and LocksInv are inductive together. *)
LEMMA BaseStep ==
  ASSUME Base, LocksInv, [Next]_vars
  PROVE  Base' /\ LocksInv'
<1>1. IInv'
  BY NextKeeps DEF Base
<1>2. Typed'
  BY ThreadSteps DEF ThreadStep
<1>3. QED
  BY <1>1, <1>2, LocksStep, CountsStep, EngineStep DEF Base

LEMMA BaseInit == Init => Base /\ LocksInv /\ Fates /\ Parked
<1> SUFFICES ASSUME Init PROVE Base /\ LocksInv /\ Fates /\ Parked
  OBVIOUS
<1>1. PICK t \in Thread :
        /\ th = [[u \in Thread |-> NewThread] EXCEPT ![t].status = "Ready"]
        /\ ready = {t} /\ waiting = <<>>
        /\ current = Nobody /\ pc = "idle"
        /\ cursor = [handle |-> Nobody, at |-> Nobody]
        /\ signaled = {}
        /\ locks = [u \in Thread |-> <<>>]
        /\ depth = [o \in Object |-> 0]
        /\ requests = [o \in Object |-> <<>>]
        /\ entered = [u \in Thread |-> [o \in Object |-> 0]]
  BY DEF Init
<1>2. NewThread \in ThreadRecord
  <2>1. NoWait \in Waits({<<>>} \cup WaitList)
    BY DEF NoWait, Waits
  <2>2. QED
    BY <2>1 DEF NewThread, ThreadRecord
<1>3. \A u \in Thread : th[u] = IF u = t THEN [NewThread EXCEPT !.status = "Ready"] ELSE NewThread
  BY <1>1
<1>4. Typed
  <2>1. [NewThread EXCEPT !.status = "Ready"] \in ThreadRecord
    BY <1>2, Records
  <2>2. QED
    BY <1>1, <1>2, <2>1 DEF Typed
<1>5. Nodes(waiting) = {} /\ \A o \in Object : Len(requests[o]) = 0
  BY <1>1 DEF Nodes
<1>6. EngineTyped /\ Cursors
  BY <1>1 DEF EngineTyped, Cursors
<1>7. MonitorsTyped
  BY <1>1 DEF MonitorsTyped
<1>8. CountsInv
  <2>1. \A u \in Thread : RequestsOf(u) = {}
    BY <1>5 DEF RequestsOf, Requests
  <2>2. \A u \in Thread : th[u].count = 0
    BY <1>3 DEF NewThread
  <2>3. QED
    BY <2>1, <2>2, FS_EmptySet DEF CountsInv
<1>9. LocksInv
  <2>1. \A u \in Thread : locks[u] = <<>> /\ Nodes(locks[u]) = {}
    BY <1>1 DEF Nodes
  <2>2. \A o \in Object : Owner(o) = Nobody
    BY <2>1 DEF Owner
  <2>3. \A o \in Object : depth[o] = 0 /\ requests[o] = <<>>
    BY <1>1
  <2>4. \A u \in Thread : Distinct(locks[u])
    BY <2>1 DEF Distinct
  <2>5. OneOwner(locks)
    BY <2>1 DEF OneOwner
  <2>6. QED
    BY <2>2, <2>3, <2>4, <2>5 DEF LocksInv
<1>10. \A u \in Thread : ~Passing(u)
  BY <1>1 DEF Passing
<1>11. Fates
  <2>1. \A u \in Thread : Passing(u) = FALSE
    BY <1>10 DEF Passing
  <2>2. Sound(NewThread, FALSE) /\ MayRun(NewThread, FALSE)
    BY DEF Sound, MayRun, NewThread, NoWait, NoCall, Calling
  <2>3. /\ Sound([NewThread EXCEPT !.status = "Ready"], FALSE)
        /\ MayRun([NewThread EXCEPT !.status = "Ready"], FALSE)
    BY DEF Sound, MayRun, NewThread, NoWait, NoCall, Calling
  <2>4. QED
    BY <1>3, <2>1, <2>2, <2>3 DEF Fates, Fate
<1>12. Parked
  BY <1>3 DEF Parked, NewThread
<1>13. QED
  BY <1>4, <1>6, <1>7, <1>8, <1>9, <1>11, <1>12, InitHolds DEF Base

----------------------------------------------------------------------------
(* A thread that has no program to run, and one that is in Enter for the   *)
(* lock of o and will come out of it.                                      *)
Dead(t) ==
  \/ th[t].status \in {"Unstarted", "Terminated"}
  \/ th[t].call = Exited
  \/ Passing(t)

Enters(t, o) == /\ th[t].call = Entering(o) /\ ~th[t].exception
                /\ th[t].status # "Terminated" /\ ~Passing(t)

(* A thread without a program is inside no lock; one that is in Enter has a  *)
(* request in the queue or the lock, once more than its program knows.     *)
Silent == \A t \in Thread, o \in Object : Dead(t) => entered[t][o] = 0

Granted ==
  \A t \in Thread, o \in Object :
    Enters(t, o) => \/ t \in Nodes(requests[o])
                    \/ Owner(o) = t /\ depth[o] > entered[t][o]

Held == MutualExclusion /\ Silent /\ Granted

LEMMA CallsDiffer ==
  ASSUME NEW o
  PROVE  /\ Entering(o) # NoCall /\ Entering(o) # Exited
         /\ Entering(o) # Calling("Sleep") /\ Entering(o) # Calling("Wait")
         /\ NoCall # Exited /\ Calling("Sleep") # Exited /\ Calling("Wait") # Exited
         /\ Entering(o).fn = "Enter"
BY DEF Entering, NoCall, Exited, Calling

(* The fields that matter here, after PutInProperList.                     *)
LEMMA PutFields ==
  ASSUME NEW t, NEW q, Put(t, q), {"status", "call", "exception"} \subseteq DOMAIN q
  PROVE  /\ th'[t].status = q.status /\ th'[t].call = q.call
         /\ th'[t].exception = q.exception
BY DEF Put, Woken

(* A thread dies in Passivate only.                                        *)
LEMMA DeadBefore ==
  ASSUME Base, NEW t \in Thread, Change(t), Dead(t)'
  PROVE  Dead(t) \/ \A o \in Object : entered'[t][o] = 0
<1> DEFINE r == th[t]
<1>1. r \in ThreadRecord /\ DOMAIN r = FieldNames
  BY FieldsThere DEF Base, Typed
<1>2. \/ th'[t].status \in {"Unstarted", "Terminated"}
      \/ th'[t].call = Exited
      \/ Passing(t)'
  BY DEF Dead
<1>3. ASSUME NEW q, Put(t, q), DOMAIN q = FieldNames, ~Passing(t)',
             q.status = r.status \/ q.status \in Alive,
             q.call = r.call \/ q.call # Exited
      PROVE  Dead(t)
  <2>1. th'[t].status = q.status /\ th'[t].call = q.call
    BY <1>3, PutFields DEF FieldNames
  <2>2. QED
    BY <1>2, <1>3, <2>1 DEF Dead, Alive
<1>4. CASE Untouched(t)
  BY <1>2, <1>4 DEF Untouched, Dead
<1>5. CASE Advance(t)
  <2>1. ~Passing(t)' /\ (th'[t].status = r.status)
    BY <1>1, <1>5 DEF Advance, FieldNames
  <2>2. th'[t].call # Exited
    BY <1>1, <1>5, CallsDiffer DEF Advance, FieldNames
  <2>3. QED
    BY <1>2, <2>1, <2>2 DEF Dead
<1>6. CASE Move(t)
  <2>1. ~Passing(t)'
    BY <1>6 DEF Move
  <2>2. PICK q : Put(t, q) /\ Moved(r, q, t)
    BY <1>6, Moves
  <2>3. /\ DOMAIN q = FieldNames
        /\ q.status = r.status \/ q.status \in Alive
        /\ q.call = r.call \/ q.call # Exited
    BY <2>2, CallsDiffer DEF Moved
  <2>4. QED
    BY <1>3, <2>1, <2>2, <2>3
<1>7. CASE Less(t)
  <2>1. Passing(t)' <=> Passing(t)
    BY <1>7 DEF Less
  <2>2. th'[t].call = r.call /\ th'[t].status \in Alive
    <3>1. CASE Put(t, [r EXCEPT !.count = 0, !.status = "Ready"])
      <4> DEFINE q == [r EXCEPT !.count = 0, !.status = "Ready"]
      <4>1. DOMAIN q = FieldNames /\ q.status = "Ready" /\ q.call = r.call
        BY <1>1 DEF FieldNames
      <4> HIDE DEF q
      <4>2. QED
        BY <3>1, <4>1, PutFields DEF FieldNames, Alive, q
    <3>2. CASE th'[t] = [r EXCEPT !.count = @ - 1, !.status = "Waiting"]
      BY <1>1, <3>2 DEF FieldNames, Alive
    <3>3. QED
      BY <1>7, <3>1, <3>2 DEF Less
  <2>3. QED
    BY <1>2, <2>1, <2>2 DEF Dead, Alive
<1>8. CASE Stop(t)
  BY <1>8 DEF Stop
<1>9. CASE Buried(t)
  BY <1>9 DEF Buried, Dead
<1>10. QED
  BY <1>4, <1>5, <1>6, <1>7, <1>8, <1>9 DEF Change

(* A thread gets into Enter with a request only.                           *)
LEMMA EntersBefore ==
  ASSUME Base, Fates, NEW t \in Thread, Change(t), NEW o \in Object, Enters(t, o)'
  PROVE  Enters(t, o) \/ t \in Nodes(requests'[o])
<1> DEFINE r == th[t]
<1>1. /\ r \in ThreadRecord /\ DOMAIN r = FieldNames /\ Fate(t)
      /\ requests \in [Object -> Seq(Thread)]
  BY FieldsThere DEF Base, Typed, Fates, MonitorsTyped
<1>2. /\ th'[t].call = Entering(o) /\ ~th'[t].exception
      /\ th'[t].status # "Terminated" /\ ~Passing(t)'
  BY DEF Enters
<1>3. CASE Untouched(t)
  BY <1>2, <1>3 DEF Untouched, Enters
<1>4. CASE Advance(t)
  <2>1. CASE th'[t] = [r EXCEPT !.exception = TRUE]
    BY <1>1, <1>2, <2>1 DEF FieldNames
  <2>2. CASE th'[t].call = NoCall
    BY <1>2, <2>2, CallsDiffer
  <2>3. QED
    BY <1>1, <1>4, <2>1, <2>2 DEF Advance, FieldNames
<1>5. CASE Move(t)
  <2>1. PICK q : Put(t, q) /\ Moved(r, q, t)
    BY <1>5, Moves
  <2>2. /\ th'[t].status = q.status /\ th'[t].call = q.call
        /\ th'[t].exception = q.exception
    BY <2>1, PutFields DEF Moved, FieldNames
  <2>3. q.call = Entering(o) /\ ~r.exception /\ ~Passing(t)
    BY <1>2, <1>5, <2>1, <2>2 DEF Moved, Move
  <2>4. CASE q.call = r.call
    <3>1. r.sleep \/ r.wait # NoWait => r.call # Entering(o)
      BY <1>1, CallsDiffer DEF Fate, Sound
    <3>2. r.status # "Terminated"
      BY <1>2, <2>1, <2>2, <2>3, <2>4, <3>1 DEF Moved
    <3>3. QED
      BY <2>3, <2>4, <3>2 DEF Enters
  <2>5. CASE \E p \in Object : /\ q.call = Entering(p)
                              /\ requests' = [requests EXCEPT ![p] = Append(@, t)]
    <3>1. PICK p \in Object : /\ q.call = Entering(p)
                             /\ requests' = [requests EXCEPT ![p] = Append(@, t)]
      BY <2>5
    <3>2. p = o
      BY <2>3, <3>1 DEF Entering
    <3>3. requests'[o] = Append(requests[o], t) /\ requests[o] \in Seq(Thread)
      BY <1>1, <3>1, <3>2
    <3>4. /\ Len(Append(requests[o], t)) = Len(requests[o]) + 1
          /\ Append(requests[o], t)[Len(requests[o]) + 1] = t /\ Len(requests[o]) \in Nat
      BY <3>3, AppendProperties
    <3> HIDE DEF Nodes
    <3>5. Len(requests[o]) + 1 \in 1 .. Len(requests'[o])
      BY <3>3, <3>4
    <3>6. QED
      BY <3>3, <3>4, <3>5 DEF Nodes
  <2>6. QED
    BY <2>1, <2>3, <2>4, <2>5, CallsDiffer DEF Moved
<1>6. CASE Less(t)
  <2>1. Passing(t)' <=> Passing(t)
    BY <1>6 DEF Less
  <2>2. th'[t].call = r.call /\ th'[t].exception = r.exception
    <3>1. CASE Put(t, [r EXCEPT !.count = 0, !.status = "Ready"])
      <4> DEFINE q == [r EXCEPT !.count = 0, !.status = "Ready"]
      <4>1. DOMAIN q = FieldNames /\ q.exception = r.exception /\ q.call = r.call
        BY <1>1 DEF FieldNames
      <4> HIDE DEF q
      <4>2. QED
        BY <3>1, <4>1, PutFields DEF FieldNames, q
    <3>2. CASE th'[t] = [r EXCEPT !.count = @ - 1, !.status = "Waiting"]
      BY <1>1, <3>2 DEF FieldNames
    <3>3. QED
      BY <1>6, <3>1, <3>2 DEF Less
  <2>3. r.status # "Terminated"
    BY <1>1, <1>2, <2>1, <2>2, CallsDiffer DEF Fate, Sound
  <2>4. QED
    BY <1>2, <2>1, <2>2, <2>3 DEF Enters
<1>7. CASE Stop(t)
  BY <1>2, <1>7 DEF Stop
<1>8. CASE Buried(t)
  <2> DEFINE s(left) == [r EXCEPT !.count = left, !.exception = FALSE, !.call = Exited]
  <2>1. ASSUME NEW left, th'[t] = s(left) \/ th'[t] = [s(left) EXCEPT !.status = "Waiting"]
        PROVE  th'[t].call = Exited
    BY <1>1, <2>1 DEF FieldNames
  <2>2. ASSUME Put(t, [s(0) EXCEPT !.status = "Ready"]) PROVE th'[t].call = Exited
    <3> DEFINE q == [s(0) EXCEPT !.status = "Ready"]
    <3>1. DOMAIN q = FieldNames /\ q.call = Exited
      BY <1>1 DEF FieldNames
    <3> HIDE DEF q
    <3>2. QED
      BY <2>2, <3>1, PutFields DEF FieldNames, q
  <2>3. th'[t].call = Exited
    BY <1>8, <2>1, <2>2 DEF Buried
  <2>4. QED
    BY <1>2, <2>3, CallsDiffer
<1>9. QED
  BY <1>3, <1>4, <1>5, <1>6, <1>7, <1>8 DEF Change

----------------------------------------------------------------------------
(* What a step leaves of the three facts about each thread.                *)
LEMMA HeldBefore ==
  ASSUME Base, Fates, Held, ThreadStep, NEW t \in Thread
  PROVE  /\ Dead(t)' => \/ \A o \in Object : entered'[t][o] = 0
                        \/ \A o \in Object : entered[t][o] = 0
         /\ \A o \in Object : Enters(t, o)' =>
              \/ t \in Nodes(requests'[o])
              \/ /\ Enters(t, o)
                 /\ t \in Nodes(requests[o]) \/ (Owner(o) = t /\ depth[o] > entered[t][o])
<1>1. Change(t)
  BY DEF ThreadStep
<1>2. QED
  BY <1>1, DeadBefore, EntersBefore DEF Held, Silent, Granted

LEMMA NodesNow ==
  ASSUME NEW o \in Object
  PROVE  Nodes(requests[o])' = Nodes(requests'[o])
BY DEF Nodes

(* Where neither owners nor depths nor requests change, nobody may have    *)
(* gone deeper.                                                            *)
LEMMA SameHeld ==
  ASSUME Base, Fates, LocksInv, Held, ThreadStep, UNCHANGED <<locks, depth, requests>>,
         \A t \in Thread, o \in Object : entered'[t][o] \in {0, entered[t][o]}
  PROVE  Held'
<1>1. \A o \in Object : Owner(o)' = Owner(o)
  BY DEF Owner, Nodes
<1>2. /\ depth \in [Object -> Nat] /\ entered \in [Thread -> [Object -> Nat]]
      /\ \A t \in Thread, o \in Object : entered[t][o] \in Nat
  BY DEF Base, MonitorsTyped
<1>3. MutualExclusion'
  BY <1>1, <1>2 DEF Held, MutualExclusion
<1>4. Silent'
  BY <1>2, HeldBefore DEF Silent
<1>5. Granted'
  <2> SUFFICES ASSUME NEW t \in Thread, NEW o \in Object, Enters(t, o)'
               PROVE  t \in Nodes(requests'[o]) \/ (Owner(o)' = t /\ depth'[o] > entered'[t][o])
    BY NodesNow DEF Granted
  <2>1. \/ t \in Nodes(requests'[o])
        \/ t \in Nodes(requests[o]) \/ (Owner(o) = t /\ depth[o] > entered[t][o])
    BY HeldBefore
  <2>2. depth[o] \in Nat /\ entered[t][o] \in Nat /\ entered'[t][o] \in {0, entered[t][o]}
    BY <1>2
  <2>3. depth[o] > entered[t][o] => depth'[o] > entered'[t][o]
    BY <2>2
  <2>4. QED
    BY <1>1, <2>1, <2>3
<1>6. QED
  BY <1>3, <1>4, <1>5 DEF Held

(* Enter returns: the thread has got the lock, since it has no request left. *)
LEMMA ReturnHeld ==
  ASSUME Base, Fates, LocksInv, Held, ThreadStep, UNCHANGED <<locks, depth, requests>>,
         NEW t \in Thread, NEW o \in Object, t \in ready, pc = "idle",
         th[t].call = Entering(o), ~th[t].exception, th'[t].call = NoCall,
         entered' = [entered EXCEPT ![t][o] = @ + 1]
  PROVE  Held'
<1>1. \A p \in Object : Owner(p)' = Owner(p)
  BY DEF Owner, Nodes
<1>2. /\ depth \in [Object -> Nat] /\ entered \in [Thread -> [Object -> Nat]]
      /\ requests \in [Object -> Seq(Thread)] /\ CountsInv
      /\ \A u \in Thread, p \in Object : entered[u][p] \in Nat
  BY DEF Base, MonitorsTyped
<1>3. ~Passing(t) /\ th[t].status \notin {"Unstarted", "Terminated"}
  BY DEF Passing, Base, IInv, ListsAgree
<1>4. th[t].count = 0
  BY CallsDiffer DEF Fates, Fate, MayRun
<1>5. t \notin Nodes(requests[o])
  <2> SUFFICES ASSUME NEW i \in 1 .. Len(requests[o]), requests[o][i] = t PROVE FALSE
    BY DEF Nodes
  <2>1. <<o, i>> \in RequestsOf(t)
    BY DEF RequestsOf, Requests, RequestOf
  <2>2. QED
    BY <1>2, <1>4, <2>1, FS_EmptySet DEF CountsInv
<1>6. Owner(o) = t /\ depth[o] > entered[t][o]
  BY <1>3, <1>5 DEF Held, Granted, Enters
<1>7. /\ entered'[t][o] = entered[t][o] + 1
      /\ \A u \in Thread, p \in Object : u # t \/ p # o => entered'[u][p] = entered[u][p]
  BY <1>2
<1>8. MutualExclusion'
  <2> SUFFICES ASSUME NEW u \in Thread, NEW p \in Object, entered'[u][p] > 0
               PROVE  Owner(p)' = u /\ depth'[p] >= entered'[u][p]
    BY DEF MutualExclusion
  <2>1. CASE u = t /\ p = o
    BY <1>1, <1>2, <1>6, <1>7, <2>1
  <2>2. CASE u # t \/ p # o
    <3>1. entered[u][p] > 0 /\ entered'[u][p] = entered[u][p]
      BY <1>7, <2>2
    <3>2. QED
      BY <1>1, <3>1 DEF Held, MutualExclusion
  <2>3. QED
    BY <2>1, <2>2
<1>9. ~Dead(t)'
  <2>1. ~Dead(t)
    BY <1>3, CallsDiffer DEF Dead
  <2>2. entered'[t][o] # 0
    BY <1>2, <1>7
  <2>3. Change(t)
    BY DEF ThreadStep
  <2>4. QED
    BY <2>1, <2>2, <2>3, DeadBefore
<1>10. Silent'
  <2> SUFFICES ASSUME NEW u \in Thread, NEW p \in Object, Dead(u)' PROVE entered'[u][p] = 0
    BY DEF Silent
  <2>1. u # t
    BY <1>9
  <2>2. entered'[u][p] = entered[u][p]
    BY <1>7, <2>1
  <2>3. QED
    BY <2>2, HeldBefore
<1>11. Granted'
  <2> SUFFICES ASSUME NEW u \in Thread, NEW p \in Object, Enters(u, p)'
               PROVE  u \in Nodes(requests'[p]) \/ (Owner(p)' = u /\ depth'[p] > entered'[u][p])
    BY NodesNow DEF Granted
  <2>1. u # t
    BY CallsDiffer DEF Enters
  <2>2. entered'[u][p] = entered[u][p]
    BY <1>7, <2>1
  <2>3. QED
    BY <1>1, <2>2, HeldBefore
<1>12. QED
  BY <1>8, <1>10, <1>11 DEF Held

(* Enter of a lock that is free or the thread's own.                       *)
LEMMA TakeHeld ==
  ASSUME Base, Fates, LocksInv, Held, ThreadStep, NEW t \in Thread, NEW o \in Object,
         MonitorEnter(t, o), Owner(o) \in {Nobody, t}
  PROVE  Held'
<1>1. /\ Calls(t) /\ requests' = requests /\ depth' = [depth EXCEPT ![o] = @ + 1]
      /\ locks' = IF Owner(o) = t THEN locks
                  ELSE [locks EXCEPT ![t] = LinkAtBack(@, o)]
      /\ entered' = [entered EXCEPT ![t][o] = @ + 1]
      /\ UNCHANGED <<th, engine>>
  BY DEF MonitorEnter
<1>2. /\ depth \in [Object -> Nat] /\ entered \in [Thread -> [Object -> Nat]]
      /\ \A u \in Thread, p \in Object : entered[u][p] \in Nat /\ depth[p] \in Nat
      /\ MonitorsTyped /\ Nobody \notin Thread
  BY DEF Base, MonitorsTyped
<1>3. Owner(o)' = t /\ \A p \in Object \ {o} : Owner(p)' = Owner(p)
  <2>1. CASE Owner(o) = t
    BY <1>1, <2>1 DEF Owner, Nodes
  <2>2. CASE Owner(o) = Nobody
    <3>1. locks' = [locks EXCEPT ![t] = LinkAtBack(@, o)]
      BY <1>1, <1>2, <2>2
    <3>2. QED
      BY <1>2, <2>2, <3>1, TakeLock, GivenOwner
  <2>3. QED
    BY <2>1, <2>2
<1>4. /\ entered'[t][o] = entered[t][o] + 1 /\ depth'[o] = depth[o] + 1
      /\ \A u \in Thread, p \in Object : u # t \/ p # o => entered'[u][p] = entered[u][p]
      /\ \A p \in Object \ {o} : depth'[p] = depth[p]
  BY <1>1, <1>2
<1>5. \A u \in Thread \ {t} : entered[u][o] = 0
  BY <1>2 DEF Held, MutualExclusion
<1>6. depth[o] >= entered[t][o]
  BY <1>2 DEF Held, MutualExclusion
<1>7. MutualExclusion'
  <2> SUFFICES ASSUME NEW u \in Thread, NEW p \in Object, entered'[u][p] > 0
               PROVE  Owner(p)' = u /\ depth'[p] >= entered'[u][p]
    BY DEF MutualExclusion
  <2>1. CASE p = o
    <3>1. CASE u = t
      BY <1>2, <1>3, <1>4, <1>6, <2>1, <3>1
    <3>2. CASE u # t
      BY <1>4, <1>5, <2>1, <3>2
    <3>3. QED
      BY <3>1, <3>2
  <2>2. CASE p # o
    BY <1>3, <1>4, <2>2 DEF Held, MutualExclusion
  <2>3. QED
    BY <2>1, <2>2
<1>8. \A u \in Thread : Dead(u)' <=> Dead(u)
  BY <1>1 DEF Dead, Passing, engine
<1>9. ~Dead(t)
  <2>1. th[t].status \in Alive /\ pc = "run" /\ th[t].call = NoCall
    BY <1>1 DEF Base, IInv, CurrentAlive, Calls, Running
  <2>2. QED
    BY <2>1, CallsDiffer DEF Dead, Passing, Alive
<1>10. Silent'
  <2> SUFFICES ASSUME NEW u \in Thread, NEW p \in Object, Dead(u) PROVE entered'[u][p] = 0
    BY <1>8 DEF Silent
  <2>1. u # t
    BY <1>9
  <2>2. QED
    BY <1>4, <2>1 DEF Held, Silent
<1>11. Granted'
  <2> SUFFICES ASSUME NEW u \in Thread, NEW p \in Object, Enters(u, p)'
               PROVE  u \in Nodes(requests'[p]) \/ (Owner(p)' = u /\ depth'[p] > entered'[u][p])
    BY NodesNow DEF Granted
  <2>1. u # t
    BY <1>1, CallsDiffer DEF Enters, Calls
  <2>2. u \in Nodes(requests'[p]) \/ (Owner(p) = u /\ depth[p] > entered[u][p])
    BY <1>1, HeldBefore
  <2>3. Owner(p) = u => p # o
    BY <1>2, <2>1
  <2>4. QED
    BY <1>3, <1>4, <2>1, <2>2, <2>3
<1>12. QED
  BY <1>7, <1>10, <1>11 DEF Held

----------------------------------------------------------------------------
(* Enter of a lock that another thread has.                                *)
LEMMA AskHeld ==
  ASSUME Base, Fates, LocksInv, Held, ThreadStep, NEW t \in Thread, NEW o \in Object,
         UNCHANGED <<locks, depth, entered>>,
         requests' = [requests EXCEPT ![o] = Append(@, t)]
  PROVE  Held'
<1>1. \A p \in Object : Owner(p)' = Owner(p)
  BY DEF Owner, Nodes
<1>2. requests \in [Object -> Seq(Thread)]
  BY DEF Base, MonitorsTyped
<1>3. \A p \in Object : Nodes(requests[p]) \subseteq Nodes(requests'[p])
  <2> SUFFICES ASSUME NEW p \in Object
               PROVE  Nodes(requests[p]) \subseteq Nodes(requests'[p])
    OBVIOUS
  <2>1. CASE p = o
    <3>1. requests'[p] = Append(requests[p], t) /\ requests[p] \in Seq(Thread)
      BY <1>2, <2>1
    <3>2. /\ Len(Append(requests[p], t)) = Len(requests[p]) + 1 /\ Len(requests[p]) \in Nat
          /\ \A i \in 1 .. Len(requests[p]) : Append(requests[p], t)[i] = requests[p][i]
      BY <3>1, AppendProperties
    <3>3. QED
      BY <3>1, <3>2 DEF Nodes
  <2>2. CASE p # o
    BY <1>2, <2>2 DEF Nodes
  <2>3. QED
    BY <2>1, <2>2
<1>4. MutualExclusion'
  BY <1>1 DEF Held, MutualExclusion
<1>5. Silent'
  BY HeldBefore DEF Silent
<1>6. Granted'
  <2> SUFFICES ASSUME NEW u \in Thread, NEW p \in Object, Enters(u, p)'
               PROVE  u \in Nodes(requests'[p]) \/ (Owner(p)' = u /\ depth'[p] > entered'[u][p])
    BY NodesNow DEF Granted
  <2>1. \/ u \in Nodes(requests'[p])
        \/ u \in Nodes(requests[p]) \/ (Owner(p) = u /\ depth[p] > entered[u][p])
    BY HeldBefore
  <2>2. QED
    BY <1>1, <1>3, <2>1
<1>7. QED
  BY <1>4, <1>5, <1>6 DEF Held

(* Exit from a lock that was entered more than once.                       *)
LEMMA ExitHeld ==
  ASSUME Base, Fates, LocksInv, Held, ThreadStep, NEW t \in Thread, NEW o \in Object,
         MonitorExit(t, o), depth[o] > 1
  PROVE  Held'
<1>1. /\ Calls(t) /\ Owner(o) = t /\ UNCHANGED <<locks, requests>>
      /\ depth' = [depth EXCEPT ![o] = @ - 1]
      /\ entered' = [entered EXCEPT ![t][o] = IF @ = 0 THEN 0 ELSE @ - 1]
  BY DEF MonitorExit
<1>2. /\ depth \in [Object -> Nat] /\ entered \in [Thread -> [Object -> Nat]]
      /\ \A u \in Thread, p \in Object : entered[u][p] \in Nat /\ depth[p] \in Nat
  BY DEF Base, MonitorsTyped
<1>3. \A p \in Object : Owner(p)' = Owner(p)
  BY <1>1 DEF Owner, Nodes
<1>4. /\ entered'[t][o] = (IF entered[t][o] = 0 THEN 0 ELSE entered[t][o] - 1)
      /\ depth'[o] = depth[o] - 1
      /\ \A u \in Thread, p \in Object : u # t \/ p # o => entered'[u][p] = entered[u][p]
      /\ \A p \in Object \ {o} : depth'[p] = depth[p]
  BY <1>1, <1>2
<1>5. MutualExclusion'
  <2> SUFFICES ASSUME NEW u \in Thread, NEW p \in Object, entered'[u][p] > 0
               PROVE  Owner(p)' = u /\ depth'[p] >= entered'[u][p]
    BY DEF MutualExclusion
  <2>1. CASE p = o /\ u = t
    <3>1. entered[u][p] > 0 /\ entered'[u][p] = entered[u][p] - 1
      BY <1>2, <1>4, <2>1
    <3>2. Owner(p) = u /\ depth[p] >= entered[u][p]
      BY <3>1 DEF Held, MutualExclusion
    <3>3. QED
      BY <1>2, <1>3, <1>4, <2>1, <3>1, <3>2
  <2>2. CASE p = o /\ u # t
    <3>1. entered[u][p] > 0
      BY <1>4, <2>2
    <3>2. QED
      BY <1>1, <2>2, <3>1 DEF Held, MutualExclusion
  <2>3. CASE p # o
    BY <1>3, <1>4, <2>3 DEF Held, MutualExclusion
  <2>4. QED
    BY <2>1, <2>2, <2>3
<1>6. Silent'
  <2> SUFFICES ASSUME NEW u \in Thread, NEW p \in Object, Dead(u)' PROVE entered'[u][p] = 0
    BY DEF Silent
  <2>1. entered'[u][p] = 0 \/ entered[u][p] = 0
    BY HeldBefore
  <2>2. QED
    BY <1>4, <2>1
<1>7. Granted'
  <2> SUFFICES ASSUME NEW u \in Thread, NEW p \in Object, Enters(u, p)'
               PROVE  u \in Nodes(requests'[p]) \/ (Owner(p)' = u /\ depth'[p] > entered'[u][p])
    BY NodesNow DEF Granted
  <2>1. \/ u \in Nodes(requests'[p])
        \/ /\ Enters(u, p)
           /\ u \in Nodes(requests[p]) \/ (Owner(p) = u /\ depth[p] > entered[u][p])
    BY HeldBefore
  <2>2. Enters(u, p) => u # t
    BY <1>1, CallsDiffer DEF Enters, Calls
  <2>3. ASSUME u # t, Owner(p) = u PROVE p # o
    BY <1>1, <2>3
  <2>4. QED
    BY <1>1, <1>3, <1>4, <2>1, <2>2, <2>3
<1>8. QED
  BY <1>5, <1>6, <1>7 DEF Held

(* The lock is handed over: whoever had it is not inside any more, and the *)
(* heir has it once more than its program knows.                           *)
LEMMA PassHeld ==
  ASSUME Base, Fates, LocksInv, Held, ThreadStep, NEW t \in Thread, NEW o \in Object,
         Owner(o) = t, ChangeOwner(t, o), ~Enters(t, o), entered'[t][o] = 0,
         \A u \in Thread, p \in Object : u # t \/ p # o => entered'[u][p] = entered[u][p]
  PROVE  Held'
<1>1. /\ depth \in [Object -> Nat] /\ entered \in [Thread -> [Object -> Nat]]
      /\ requests \in [Object -> Seq(Thread)]
      /\ \A u \in Thread, p \in Object : entered[u][p] \in Nat /\ depth[p] \in Nat
      /\ MonitorsTyped
  BY DEF Base, MonitorsTyped
<1>2. /\ Owner(o)' = Heir(o) /\ \A p \in Object \ {o} : Owner(p)' = Owner(p)
  BY <1>1, HandOver, GivenOwner
<1>3. /\ \A p \in Object \ {o} : requests'[p] = requests[p] /\ depth'[p] = depth[p]
      /\ requests[o] # <<>> => requests'[o] = Tail(requests[o]) /\ depth'[o] = 1
  BY <1>1 DEF ChangeOwner
<1>4. \A u \in Thread : entered'[u][o] = 0
  <2> SUFFICES ASSUME NEW u \in Thread, u # t PROVE entered[u][o] = 0
    OBVIOUS
  <2>1. QED
    BY <1>1 DEF Held, MutualExclusion
<1>5. \A u \in Nodes(requests[o]) : u = Heir(o) \/ u \in Nodes(requests'[o])
  <2> SUFFICES ASSUME NEW i \in 1 .. Len(requests[o])
               PROVE  requests[o][i] = Heir(o) \/ requests[o][i] \in Nodes(requests'[o])
    BY DEF Nodes
  <2>1. requests[o] \in Seq(Thread)
    BY <1>1
  <2>2. Len(requests[o]) \in Nat \ {0} /\ requests[o] # <<>>
    BY <2>1
  <2>3. /\ Len(Tail(requests[o])) = Len(requests[o]) - 1
        /\ \A k \in 1 .. Len(requests[o]) - 1 : Tail(requests[o])[k] = requests[o][k + 1]
    BY <2>1, <2>2, HeadTailProperties
  <2>4. CASE i = 1
    <3>1. Heir(o) = Head(requests[o])
      BY <2>2 DEF Heir
    <3>2. Head(requests[o]) = requests[o][1]
      BY <2>1
    <3>3. QED
      BY <2>4, <3>1, <3>2
  <2>5. CASE i # 1
    <3>1. i - 1 \in 1 .. Len(requests[o]) - 1 /\ (i - 1) + 1 = i
      BY <2>2, <2>5
    <3>2. Tail(requests[o])[i - 1] = requests[o][i]
      BY <2>3, <3>1
    <3>3. i - 1 \in 1 .. Len(requests'[o]) /\ requests'[o] = Tail(requests[o])
      BY <1>3, <2>2, <2>3, <3>1
    <3>4. PICK k \in 1 .. Len(requests'[o]) : k = i - 1
      BY <3>3
    <3>5. requests'[o][k] = requests[o][i]
      BY <3>2, <3>3, <3>4
    <3>6. QED
      BY <3>5 DEF Nodes
  <2>6. QED
    BY <2>4, <2>5
<1>6. MutualExclusion'
  <2> SUFFICES ASSUME NEW u \in Thread, NEW p \in Object, entered'[u][p] > 0
               PROVE  Owner(p)' = u /\ depth'[p] >= entered'[u][p]
    BY DEF MutualExclusion
  <2>1. p # o
    BY <1>4
  <2>2. QED
    BY <1>2, <1>3, <2>1 DEF Held, MutualExclusion
<1>7. Silent'
  <2> SUFFICES ASSUME NEW u \in Thread, NEW p \in Object, Dead(u)' PROVE entered'[u][p] = 0
    BY DEF Silent
  <2>1. entered'[u][p] = 0 \/ entered[u][p] = 0
    BY HeldBefore
  <2>2. QED
    BY <1>4, <2>1
<1>8. Granted'
  <2> SUFFICES ASSUME NEW u \in Thread, NEW p \in Object, Enters(u, p)'
               PROVE  u \in Nodes(requests'[p]) \/ (Owner(p)' = u /\ depth'[p] > entered'[u][p])
    BY NodesNow DEF Granted
  <2>1. \/ u \in Nodes(requests'[p])
        \/ /\ Enters(u, p)
           /\ u \in Nodes(requests[p]) \/ (Owner(p) = u /\ depth[p] > entered[u][p])
    BY HeldBefore
  <2>2. CASE p = o
    <3>1. u \in Nodes(requests'[o]) \/ (u = Heir(o) /\ requests[o] # <<>>)
      <4>1. Owner(o) = u => ~Enters(u, o)
        OBVIOUS
      <4>2. u \in Nodes(requests[o]) => requests[o] # <<>>
        BY DEF Nodes
      <4>3. QED
        BY <1>5, <2>1, <2>2, <4>1, <4>2
    <3>2. QED
      BY <1>2, <1>3, <1>4, <2>2, <3>1
  <2>3. CASE p # o
    BY <1>2, <1>3, <2>1, <2>3
  <2>4. QED
    BY <2>2, <2>3
<1>9. QED
  BY <1>6, <1>7, <1>8 DEF Held

----------------------------------------------------------------------------
LEMMA HeldStep ==
  ASSUME Base, Fates, LocksInv, Held, [Next]_vars
  PROVE  Held'
<1>1. ThreadStep
  BY ThreadSteps
<1>2. /\ entered \in [Thread -> [Object -> Nat]] /\ depth \in [Object -> Nat]
      /\ requests \in [Object -> Seq(Thread)]
  BY DEF Base, MonitorsTyped
<1>3. CASE Elsewhere
  <2>1. UNCHANGED <<locks, depth, requests>>
    BY <1>3 DEF Elsewhere
  <2>2. CASE UNCHANGED entered
    BY <1>1, <2>1, <2>2, SameHeld
  <2>3. ASSUME NEW t \in Thread, entered' = [entered EXCEPT ![t] = [o \in Object |-> 0]]
        PROVE  Held'
    <3>1. \A u \in Thread, o \in Object : entered'[u][o] \in {0, entered[u][o]}
      BY <1>2, <2>3
    <3>2. QED
      BY <1>1, <2>1, <3>1, SameHeld
  <2>4. ASSUME NEW t \in Thread, NEW o \in Object, t \in ready, pc = "idle",
               th[t].call = Entering(o), ~th[t].exception, th'[t].call = NoCall,
               entered' = [entered EXCEPT ![t][o] = @ + 1]
        PROVE  Held'
    BY <1>1, <2>1, <2>4, ReturnHeld
  <2>5. QED
    BY <1>3, <2>2, <2>3, <2>4 DEF Elsewhere
<1>4. ASSUME NEW t \in Thread, NEW o \in Object, MonitorEnter(t, o) PROVE Held'
  <2>1. CASE Owner(o) \in {Nobody, t}
    BY <1>1, <1>4, <2>1, TakeHeld
  <2>2. CASE Owner(o) \notin {Nobody, t}
    BY <1>1, <1>4, <2>2, AskHeld DEF MonitorEnter
  <2>3. QED
    BY <2>1, <2>2
<1>5. ASSUME NEW t \in Thread, NEW o \in Object, MonitorExit(t, o) PROVE Held'
  <2>1. CASE depth[o] > 1
    BY <1>1, <1>5, <2>1, ExitHeld
  <2>2. CASE ~(depth[o] > 1)
    <3>1. /\ Calls(t) /\ Owner(o) = t /\ ChangeOwner(t, o)
          /\ entered' = [entered EXCEPT ![t][o] = IF @ = 0 THEN 0 ELSE @ - 1]
      BY <1>5, <2>2 DEF MonitorExit
    <3>2. depth[o] \in Nat /\ entered[t][o] \in Nat
      BY <1>2
    <3>3. ~(entered[t][o] > 1)
      BY <2>2, <3>2 DEF Held, MutualExclusion
    <3>4. /\ entered'[t][o] = 0
          /\ \A u \in Thread, p \in Object : u # t \/ p # o => entered'[u][p] = entered[u][p]
      BY <1>2, <3>1, <3>2, <3>3
    <3>5. ~Enters(t, o)
      BY <3>1, CallsDiffer DEF Enters, Calls
    <3>6. QED
      BY <1>1, <3>1, <3>4, <3>5, PassHeld
  <2>3. QED
    BY <2>1, <2>2
<1>6. CASE DestroyOwner
  <2>1. /\ pc = "release" /\ cursor.at \in Nodes(locks[current]) /\ UNCHANGED entered
    BY <1>6 DEF DestroyOwner, Base, Cursors
  <2>2. PICK t \in Thread : t = current
    BY <2>1 DEF Base, IInv, CurrentAlive
  <2>3. cursor.at \in Object
    BY <2>1, <2>2, ElementOfSeq DEF Base, MonitorsTyped, Nodes
  <2>4. PICK o \in Object : o = cursor.at
    BY <2>3
  <2>5. Owner(o) = t /\ ChangeOwner(t, o)
    BY <1>6, <2>1, <2>2, <2>4, OwnerNow DEF DestroyOwner
  <2>6. Passing(t)
    BY <2>1, <2>2 DEF Passing
  <2>7. entered[t][o] = 0 /\ ~Enters(t, o)
    BY <2>6 DEF Held, Silent, Dead, Enters
  <2>8. QED
    BY <1>1, <2>1, <2>5, <2>7, PassHeld
<1>7. CASE DeleteLockRequests
  <2>1. /\ UNCHANGED <<locks, depth, entered>> /\ pc = "release" /\ MonitorsTyped
    BY <1>7 DEF DeleteLockRequests, Base
  <2>2. PICK t \in Thread : t = current
    BY <2>1 DEF Base, IInv, CurrentAlive
  <2>3. \A o \in Object : Owner(o)' = Owner(o)
    BY <2>1 DEF Owner, Nodes
  <2>4. \A o \in Object : Nodes(requests[o]) \ {t} \subseteq Nodes(requests'[o])
    <3> SUFFICES ASSUME NEW o \in Object
                 PROVE  Nodes(requests[o]) \ {t} \subseteq Nodes(requests'[o])
      OBVIOUS
    <3>1. requests'[o] = requests[o] \/ requests'[o] = Keep(requests[o], Kept(o, t))
      BY <1>7, <2>1, <2>2, Deleted
    <3>2. Nodes(Keep(requests[o], Kept(o, t))) = Nodes(requests[o]) \ {t}
      BY <2>1, KeptNodes
    <3>3. QED
      BY <3>1, <3>2
  <2>5. \A o \in Object : ~Enters(t, o)
    BY <2>1, <2>2 DEF Enters, Passing
  <2>6. MutualExclusion'
    BY <2>1, <2>3 DEF Held, MutualExclusion
  <2>7. Silent'
    BY <1>1, <2>1, HeldBefore DEF Silent
  <2>8. Granted'
    <3> SUFFICES ASSUME NEW u \in Thread, NEW p \in Object, Enters(u, p)'
                 PROVE  u \in Nodes(requests'[p]) \/ (Owner(p)' = u /\ depth'[p] > entered'[u][p])
      BY NodesNow DEF Granted
    <3>1. \/ u \in Nodes(requests'[p])
          \/ /\ Enters(u, p)
             /\ u \in Nodes(requests[p]) \/ (Owner(p) = u /\ depth[p] > entered[u][p])
      BY <1>1, HeldBefore
    <3>2. Enters(u, p) => u # t
      BY <2>5
    <3>3. QED
      BY <2>1, <2>3, <2>4, <3>1, <3>2
  <2>9. QED
    BY <2>6, <2>7, <2>8 DEF Held
<1>8. QED
  BY <1>3, <1>4, <1>5, <1>6, <1>7, MonitorSteps

LEMMA HeldInit == Init => Held
<1> SUFFICES ASSUME Init PROVE Held
  OBVIOUS
<1>1. \A t \in Thread, o \in Object : entered[t][o] = 0
  BY DEF Init
<1>2. \A t \in Thread : th[t].call = NoCall
  <2>1. PICK t \in Thread : th = [[u \in Thread |-> NewThread] EXCEPT ![t].status = "Ready"]
    BY DEF Init
  <2>2. QED
    BY <2>1 DEF NewThread
<1>3. \A t \in Thread, o \in Object : ~Enters(t, o)
  BY <1>2, CallsDiffer DEF Enters
<1>4. QED
  BY <1>1, <1>3 DEF Held, MutualExclusion, Silent, Granted

----------------------------------------------------------------------------
(* A thread with fields r does not wait for what the signals S would give. *)
Unmet(r, S) == r.wait # NoWait /\ r.result = INIT => ~Satisfied(r.wait, S)

(* The loop of SignalObject has dealt with the threads it has passed, and  *)
(* only the new signal can be what the others wait for.                    *)
Signals ==
  /\ pc # "signal" => \A t \in Thread : Unmet(th[t], signaled)
  /\ pc = "signal" =>
       /\ \A t \in Thread : Unmet(th[t], signaled \ {cursor.handle})
       /\ \A t \in Thread : cursor.at = Nobody \/ t \in Before(waiting, cursor.at)
                              => Unmet(th[t], signaled)

LEMMA FewerSignals ==
  ASSUME NEW r, NEW S, NEW R \in SUBSET S, Unmet(r, S)
  PROVE  Unmet(r, R)
BY DEF Unmet, Satisfied

(* A thread begins to wait only for what is not there.                     *)
LEMMA WaitBefore ==
  ASSUME Base, Parked, NEW t \in Thread, Change(t), NEW S \in SUBSET signaled,
         Unmet(th[t], S)
  PROVE  Unmet(th'[t], S)
<1> DEFINE r == th[t]
<1>1. r \in ThreadRecord /\ DOMAIN r = FieldNames
  BY FieldsThere DEF Base, Typed
<1>2. ASSUME th'[t].wait = NoWait \/ (th'[t].wait = r.wait /\ (th'[t].result = INIT => r.result = INIT))
      PROVE  Unmet(th'[t], S)
  BY <1>2 DEF Unmet
<1>3. ASSUME NEW q, Put(t, q), DOMAIN q = FieldNames
      PROVE  /\ th'[t].wait = NoWait \/ th'[t].wait = q.wait
             /\ th'[t].result = q.result
  BY <1>3 DEF Put, Woken, FieldNames
<1>4. CASE Untouched(t)
  BY <1>2, <1>4 DEF Untouched
<1>5. CASE Advance(t)
  <2>1. r.wait = NoWait
    BY <1>5 DEF Advance, Parked, Base, IInv, ListsAgree
  <2>2. th'[t].wait = r.wait
    BY <1>1, <1>5 DEF Advance, FieldNames
  <2>3. QED
    BY <1>2, <2>1, <2>2
<1>6. CASE Move(t)
  <2>1. PICK q : Put(t, q) /\ Moved(r, q, t)
    BY <1>6, Moves
  <2>2. /\ th'[t].wait = NoWait \/ th'[t].wait = q.wait
        /\ th'[t].result = q.result
    BY <1>3, <2>1 DEF Moved
  <2>3. CASE q.wait = r.wait /\ (q.result = INIT => r.result = INIT)
    BY <1>2, <2>2, <2>3
  <2>4. CASE ~Satisfied(q.wait, signaled)
    <3>1. CASE th'[t].wait = NoWait
      BY <1>2, <3>1
    <3>2. CASE th'[t].wait = q.wait
      <4>1. Unmet(th'[t], signaled)
        BY <2>4, <3>2 DEF Unmet
      <4>2. QED
        BY <4>1, FewerSignals
    <3>3. QED
      BY <2>2, <3>1, <3>2
  <2>5. QED
    BY <2>1, <2>3, <2>4 DEF Moved
<1>7. CASE Less(t)
  <2>1. CASE Put(t, [r EXCEPT !.count = 0, !.status = "Ready"])
    <3> DEFINE q == [r EXCEPT !.count = 0, !.status = "Ready"]
    <3>1. DOMAIN q = FieldNames /\ q.wait = r.wait /\ q.result = r.result
      BY <1>1 DEF FieldNames
    <3>2. Put(t, q)
      BY <2>1
    <3> HIDE DEF q
    <3>3. QED
      BY <1>2, <1>3, <3>1, <3>2
  <2>2. CASE th'[t] = [r EXCEPT !.count = @ - 1, !.status = "Waiting"]
    <3>1. th'[t].wait = r.wait /\ th'[t].result = r.result
      BY <1>1, <2>2 DEF FieldNames
    <3>2. QED
      BY <1>2, <3>1
  <2>3. QED
    BY <1>7, <2>1, <2>2 DEF Less
<1>8. CASE Stop(t)
  <2>1. th'[t].wait = NoWait
    BY <1>1, <1>8 DEF Stop, FieldNames
  <2>2. QED
    BY <1>2, <2>1
<1>9. CASE Buried(t)
  <2> DEFINE s(left) == [r EXCEPT !.count = left, !.exception = FALSE, !.call = Exited]
  <2>1. ASSUME NEW left, th'[t] = s(left) \/ th'[t] = [s(left) EXCEPT !.status = "Waiting"]
        PROVE  th'[t].wait = r.wait /\ th'[t].result = r.result
    BY <1>1, <2>1 DEF FieldNames
  <2>2. ASSUME Put(t, [s(0) EXCEPT !.status = "Ready"]) PROVE Unmet(th'[t], S)
    <3> DEFINE q == [s(0) EXCEPT !.status = "Ready"]
    <3>1. DOMAIN q = FieldNames /\ q.wait = r.wait /\ q.result = r.result
      BY <1>1 DEF FieldNames
    <3>2. Put(t, q)
      BY <2>2
    <3> HIDE DEF q
    <3>3. QED
      BY <1>2, <1>3, <3>1, <3>2
  <2>3. QED
    BY <1>2, <1>9, <2>1, <2>2 DEF Buried
<1>10. QED
  BY <1>4, <1>5, <1>6, <1>7, <1>8, <1>9 DEF Change

(* The steps by what they do to the signals.                               *)
LEMMA SignalSteps ==
  ASSUME Base, [Next]_vars
  PROVE  \/ pc # "signal" /\ pc' # "signal" /\ signaled' \subseteq signaled
         \/ pc # "signal" /\ \E h : SignalObject(h, waiting')
         \/ SignalNext \/ SignalEnd \/ UNCHANGED vars
<1>1. ASSUME NEW t \in Thread, Dispatch(t) \/ CheckThreads(t)
      PROVE  pc # "signal" /\ pc' # "signal" /\ signaled' \subseteq signaled
  BY <1>1 DEF Dispatch, CheckThreads
<1>2. ASSUME NEW t \in Thread, Passivate(t), pc # "signal"
      PROVE  \/ pc' # "signal" /\ signaled' \subseteq signaled
             \/ \E h : SignalObject(h, waiting')
  BY <1>2 DEF Passivate, DestroyInstance
<1>3. ASSUME NEW t \in Thread, NEW w, WaitForSignal(t, w), pc = "run"
      PROVE  pc' # "signal" /\ signaled' \subseteq signaled
  BY <1>3 DEF WaitForSignal, Leave, engine
<1>4. ASSUME NEW t \in Thread,
             Preempt(t) \/ Catch(t) \/ Reraise(t) \/ Sleep(t)
      PROVE  pc # "signal" /\ pc' # "signal" /\ signaled' \subseteq signaled
  BY <1>4 DEF Preempt, Catch, Reraise, Sleep, Calls, Running, Leave, engine
<1>5. ASSUME NEW t \in Thread, NEW u \in Thread,
             Start(t, u) \/ Suspend(t, u) \/ Resume(t, u) \/ Abort(t, u)
      PROVE  pc # "signal" /\ pc' # "signal" /\ signaled' \subseteq signaled
  BY <1>5 DEF Start, Suspend, Resume, Abort, Calls, Running, Leave
<1>6. ASSUME NEW t \in Thread, NEW o \in Object, MonitorEnter(t, o) \/ MonitorExit(t, o)
      PROVE  pc # "signal" /\ pc' # "signal" /\ signaled' \subseteq signaled
  BY <1>6 DEF MonitorEnter, MonitorExit, Calls, Running, Leave, engine
<1>7. ASSUME NEW t \in Thread, NEW h \in Handle, Set(t, h)
      PROVE  pc # "signal" /\ SignalObject(h, waiting')
  BY <1>7 DEF Set, Calls, Running
<1>8. ASSUME NEW t \in Thread, NEW h \in Handle, Reset(t, h)
      PROVE  pc # "signal" /\ pc' # "signal" /\ signaled' \subseteq signaled
  BY <1>8 DEF Reset, Calls, Running, engine
<1>9. ASSUME NEW t \in Thread, Wait(t) \/ \E u \in Thread : Join(t, u)
      PROVE  pc # "signal" /\ pc' # "signal" /\ signaled' \subseteq signaled
  BY <1>3, <1>9 DEF Wait, Join, Calls, Running
<1>10. ASSUME NEW t \in Thread, Exit(t) \/ Terminate(t)
       PROVE  /\ pc # "signal"
              /\ \/ pc' # "signal" /\ signaled' \subseteq signaled
                 \/ \E h : SignalObject(h, waiting')
  BY <1>2, <1>10 DEF Exit, Terminate, Running
<1>11. CASE DestroyOwner \/ DeleteLockRequests
  BY <1>11 DEF DestroyOwner, DeleteLockRequests
<1>12. QED
  BY <1>1, <1>4, <1>5, <1>6, <1>7, <1>8, <1>9, <1>10, <1>11 DEF Next, Program, Native

----------------------------------------------------------------------------
(* Signals in the next state. *)
LEMMA SignalsNow ==
  Signals' <=>
    /\ pc' # "signal" => \A t \in Thread : Unmet(th'[t], signaled')
    /\ pc' = "signal" =>
         /\ \A t \in Thread : Unmet(th'[t], signaled' \ {cursor'.handle})
         /\ \A t \in Thread : cursor'.at = Nobody \/ t \in Before(waiting', cursor'.at)
                                => Unmet(th'[t], signaled')
BY DEF Signals, Unmet, Before, PosOf, Satisfied, Nodes

(* SignalObject begins at the front of the list. *)
LEMMA SignalBegins ==
  ASSUME Base, Parked, Signals, ThreadStep, Parked', Base', pc # "signal", NEW h,
         SignalObject(h, waiting')
  PROVE  Signals'
<1>1. /\ pc' = "signal" /\ signaled' = signaled \cup {h}
      /\ cursor' = [handle |-> h, at |-> First(waiting')]
  BY DEF SignalObject
<1>2. ASSUME NEW t \in Thread PROVE Unmet(th'[t], signaled' \ {cursor'.handle})
  <2>1. Unmet(th[t], signaled) /\ Change(t)
    BY DEF Signals, ThreadStep
  <2>2. Unmet(th'[t], signaled)
    BY <2>1, WaitBefore
  <2>3. signaled' \ {cursor'.handle} \subseteq signaled
    BY <1>1
  <2>4. QED
    BY <2>2, <2>3, FewerSignals
<1>3. waiting' \in Seq(Thread) /\ Distinct(waiting')
  BY DEF Base, EngineTyped, IInv, ListsAgree, Distinct
<1>4. ASSUME NEW t \in Thread, cursor'.at = Nobody \/ t \in Before(waiting', cursor'.at)
      PROVE  Unmet(th'[t], signaled')
  <2>1. Nobody \notin Nodes(waiting')
    BY <1>3, ElementOfSeq DEF Nodes
  <2>2. waiting' = <<>>
    BY <1>1, <1>3, <1>4, <2>1, FirstNode
  <2>3. t \notin Nodes(waiting')
    BY <2>2 DEF Nodes
  <2>4. th'[t].wait = NoWait
    BY <2>3 DEF Parked, Nodes
  <2>5. QED
    BY <2>4 DEF Unmet
<1>5. QED
  BY <1>1, <1>2, <1>4, SignalsNow

LEMMA SignalGoesOn ==
  ASSUME Base, Parked, Signals, ThreadStep, Parked', SignalNext
  PROVE  Signals'
<1>1. /\ cursor.at \in Nodes(waiting) /\ pc = "signal" /\ pc' = "signal"
      /\ EngineTyped /\ waiting \in Seq(Thread) /\ Distinct(waiting)
      /\ INIT \notin {HANDLE_ALL} \cup Waitable
      /\ th \in [Thread -> ThreadRecord]
  BY DEF SignalNext, Base, Cursors, IInv, ListsAgree, EngineTyped, Typed, INIT, HANDLE_ALL
<1>2. PICK t \in Thread : t = cursor.at
  BY <1>1, ThreadNodes
<1> DEFINE w == th[t].wait
           n == Successor(waiting, t)
           h == cursor.handle
<1>3. /\ cursor'.handle = h
      /\ cursor'.at = IF h \in signaled' THEN n ELSE Nobody
  BY <1>1, <1>2 DEF SignalNext, EngineTyped
<1>4. \/ /\ w # NoWait /\ Satisfied(w, signaled) /\ signaled' = signaled \ Consumed(w)
         /\ Restart([th EXCEPT ![t].result = Result(w)], t, TRUE)
      \/ ~(w # NoWait /\ Satisfied(w, signaled)) /\ UNCHANGED <<th, ready, waiting, signaled>>
  BY <1>2 DEF SignalNext
<1>5. signaled' \subseteq signaled
  BY <1>4
<1>6. ASSUME NEW u \in Thread, NEW S \in SUBSET signaled, Unmet(th[u], S)
      PROVE  Unmet(th'[u], S)
  BY <1>6, WaitBefore DEF ThreadStep
<1>7. Unmet(th'[t], signaled')
  <2>1. CASE ~(w # NoWait /\ Satisfied(w, signaled)) /\ UNCHANGED <<th, ready, waiting, signaled>>
    BY <2>1 DEF Unmet
  <2>2. CASE /\ w # NoWait /\ Satisfied(w, signaled)
             /\ Restart([th EXCEPT ![t].result = Result(w)], t, TRUE)
    <3> DEFINE s == [th EXCEPT ![t].result = Result(w)]
               r == [s[t] EXCEPT !.status = "Ready", !.sleep = @ /\ ~TRUE]
    <3>1. PutInProperList(s, t, r)
      BY <2>2 DEF Restart
    <3>2. th[t] \in ThreadRecord /\ DOMAIN th[t] = FieldNames
      BY <1>1, FieldsThere
    <3>3. w \in Waits({<<>>} \cup WaitList)
      BY <3>2 DEF ThreadRecord
    <3>4. Result(w) # INIT
      BY <1>1, <2>2, <3>3, SignalFound
    <3>5. DOMAIN s = Thread /\ s[t] = [th[t] EXCEPT !.result = Result(w)]
      BY <1>1
    <3> HIDE DEF s
    <3>6. DOMAIN r = FieldNames /\ r.result = Result(w)
      BY <3>2, <3>5 DEF FieldNames
    <3> HIDE DEF r
    <3>7. th'[t] \in {r, Woken(r)}
      BY <3>1, <3>5 DEF PutInProperList
    <3>8. th'[t].result = Result(w)
      BY <3>6, <3>7 DEF Woken, FieldNames
    <3>9. QED
      BY <3>4, <3>8 DEF Unmet
  <2>3. QED
    BY <1>4, <2>1, <2>2
<1>8. \A u \in Thread : Unmet(th'[u], signaled' \ {h})
  <2> SUFFICES ASSUME NEW u \in Thread PROVE Unmet(th'[u], signaled' \ {h})
    OBVIOUS
  <2>1. Unmet(th[u], signaled \ {h})
    BY <1>1 DEF Signals
  <2>2. Unmet(th'[u], signaled \ {h})
    BY <1>6, <2>1
  <2>3. signaled' \ {h} \subseteq signaled \ {h}
    BY <1>5
  <2>4. QED
    BY <2>2, <2>3, FewerSignals
<1>9. ASSUME NEW u \in Thread, u \in Before(waiting, t) \cup {t} \/ u \notin Nodes(waiting)
      PROVE  Unmet(th'[u], signaled')
  <2>1. CASE u = t
    BY <1>7, <2>1
  <2>2. CASE u # t
    <3>1. Unmet(th[u], signaled)
      <4>1. CASE u \in Before(waiting, t)
        BY <1>1, <1>2, <4>1 DEF Signals
      <4>2. CASE u \notin Nodes(waiting)
        BY <4>2 DEF Parked, Unmet
      <4>3. QED
        BY <1>9, <2>2, <4>1, <4>2
    <3>2. Unmet(th'[u], signaled)
      BY <1>6, <3>1
    <3>3. QED
      BY <1>5, <3>2, FewerSignals
  <2>3. QED
    BY <2>1, <2>2
<1>10. \/ n = Nobody /\ Nodes(waiting) \subseteq Before(waiting, t) \cup {t}
       \/ /\ n \in Nodes(waiting) \ {t}
          /\ Before(waiting, n) \subseteq Before(waiting, t) \cup {t}
          /\ Before(Unlink(waiting, t), n) \subseteq Before(waiting, t)
          /\ Before(LinkAtBack(Unlink(waiting, t), t), n) \subseteq Before(waiting, t)
  BY <1>1, <1>2, NextNode
<1>11. waiting' \in {waiting, Unlink(waiting, t), LinkAtBack(Unlink(waiting, t), t)}
  BY <1>4 DEF Restart, PutInProperList
<1>12. Nobody \notin Nodes(waiting)
  BY <1>1, ThreadNodes
<1> HIDE DEF n, h, w
<1>13. ASSUME NEW u \in Thread, cursor'.at = Nobody \/ u \in Before(waiting', cursor'.at)
       PROVE  Unmet(th'[u], signaled')
  <2>1. CASE h \notin signaled'
    <3>1. signaled' \ {h} = signaled'
      BY <2>1
    <3>2. QED
      BY <1>8, <3>1
  <2>2. CASE h \in signaled' /\ n = Nobody
    <3>1. Nodes(waiting) \subseteq Before(waiting, t) \cup {t}
      BY <1>10, <1>12, <2>2
    <3>2. QED
      BY <1>9, <3>1
  <2>3. CASE h \in signaled' /\ n # Nobody
    <3>1. u \in Before(waiting', n)
      BY <1>3, <1>13, <2>3
    <3>2. Before(waiting', n) \subseteq Before(waiting, t) \cup {t}
      BY <1>10, <1>11, <2>3
    <3>3. QED
      BY <1>9, <3>1, <3>2
  <2>4. QED
    BY <2>1, <2>2, <2>3
<1>14. \A u \in Thread : cursor'.at = Nobody \/ u \in Before(waiting', cursor'.at)
                           => Unmet(th'[u], signaled')
  BY <1>13
<1>15. QED
  BY <1>1, <1>3, <1>8, <1>14, SignalsNow

LEMMA SignalsStep ==
  ASSUME Base, Base', Parked, Parked', Signals, [Next]_vars
  PROVE  Signals'
<1>1. ThreadStep
  BY ThreadSteps
<1>2. ASSUME \A t \in Thread : Unmet(th[t], signaled), signaled' \subseteq signaled,
             pc' # "signal"
      PROVE  Signals'
  <2>1. ASSUME NEW t \in Thread PROVE Unmet(th'[t], signaled')
    <3>1. Unmet(th'[t], signaled)
      BY <1>1, <1>2, WaitBefore DEF ThreadStep
    <3>2. QED
      BY <1>2, <3>1, FewerSignals
  <2>2. (\A t \in Thread : Unmet(th[t], signaled))' <=> \A t \in Thread : Unmet(th'[t], signaled')
    BY DEF Unmet, Satisfied, Nodes
  <2>3. QED
    BY <1>2, <2>1, <2>2 DEF Signals
<1>3. CASE pc # "signal" /\ pc' # "signal" /\ signaled' \subseteq signaled
  BY <1>2, <1>3 DEF Signals
<1>4. ASSUME pc # "signal", NEW h, SignalObject(h, waiting') PROVE Signals'
  BY <1>1, <1>4, SignalBegins
<1>5. CASE SignalNext
  BY <1>1, <1>5, SignalGoesOn
<1>6. CASE SignalEnd
  <2>1. pc = "signal" /\ cursor.at = Nobody /\ UNCHANGED signaled /\ pc' # "signal"
    BY <1>6 DEF SignalEnd, DestroyInstance
  <2>2. QED
    BY <1>2, <2>1 DEF Signals
<1>7. CASE UNCHANGED vars
  <2>1. UNCHANGED <<th, waiting, pc, cursor, signaled>>
    BY <1>7 DEF vars
  <2>2. QED
    BY <2>1, SignalsNow DEF Signals
<1>8. QED
  BY <1>3, <1>4, <1>5, <1>6, <1>7, SignalSteps

----------------------------------------------------------------------------
(* The bounds of the counters: LockObject keeps them.                      *)
Bounded == /\ \A t \in Thread : th[t].count <= MaxRequests
           /\ \A o \in Object : depth[o] <= MaxDepth

LEMMA CountBounded ==
  ASSUME Base, NEW t \in Thread, Change(t), th[t].count <= MaxRequests
  PROVE  th'[t].count <= MaxRequests
<1> DEFINE r == th[t]
<1>1. /\ DOMAIN r = FieldNames /\ r.count \in Int /\ MaxRequests \in Nat
  BY FieldsThere DEF Base, Typed
<1>2. ASSUME NEW q, Put(t, q), DOMAIN q = FieldNames PROVE th'[t].count = q.count
  BY <1>2 DEF Put, Woken, FieldNames
<1>3. CASE Untouched(t)
  BY <1>3 DEF Untouched
<1>4. CASE Advance(t)
  <2>1. th'[t].count = r.count
    BY <1>1, <1>4 DEF Advance, FieldNames
  <2>2. QED
    BY <2>1
<1>5. CASE Move(t)
  <2>1. PICK q : Put(t, q) /\ Moved(r, q, t)
    BY <1>5, Moves
  <2>2. q.count = r.count \/ (q.count = r.count + 1 /\ r.count < MaxRequests)
    BY <2>1 DEF Moved
  <2>3. th'[t].count = q.count
    BY <1>2, <2>1 DEF Moved
  <2>4. QED
    BY <1>1, <2>2, <2>3
<1>6. CASE Less(t)
  <2>1. CASE Put(t, [r EXCEPT !.count = 0, !.status = "Ready"])
    <3> DEFINE q == [r EXCEPT !.count = 0, !.status = "Ready"]
    <3>1. DOMAIN q = FieldNames /\ q.count = 0
      BY <1>1 DEF FieldNames
    <3>2. Put(t, q)
      BY <2>1
    <3> HIDE DEF q
    <3>3. th'[t].count = 0
      BY <1>2, <3>1, <3>2
    <3>4. QED
      BY <1>1, <3>3
  <2>2. CASE th'[t] = [r EXCEPT !.count = @ - 1, !.status = "Waiting"]
    <3>1. th'[t].count = r.count - 1
      BY <1>1, <2>2 DEF FieldNames
    <3>2. QED
      BY <1>1, <3>1
  <2>3. QED
    BY <1>6, <2>1, <2>2 DEF Less
<1>7. CASE Stop(t)
  <2>1. th'[t].count = r.count
    BY <1>1, <1>7 DEF Stop, FieldNames
  <2>2. QED
    BY <2>1
<1>8. CASE Buried(t)
  <2> DEFINE s(left) == [r EXCEPT !.count = left, !.exception = FALSE, !.call = Exited]
  <2>1. ASSUME NEW left, th'[t] = s(left) \/ th'[t] = [s(left) EXCEPT !.status = "Waiting"]
        PROVE  th'[t].count = left
    BY <1>1, <2>1 DEF FieldNames
  <2>2. ASSUME Put(t, [s(0) EXCEPT !.status = "Ready"]) PROVE th'[t].count = 0
    <3> DEFINE q == [s(0) EXCEPT !.status = "Ready"]
    <3>1. DOMAIN q = FieldNames /\ q.count = 0
      BY <1>1 DEF FieldNames
    <3>2. Put(t, q)
      BY <2>2
    <3> HIDE DEF q
    <3>3. QED
      BY <1>2, <3>1, <3>2
  <2>3. th'[t].count = r.count \/ th'[t].count = 0 \/ th'[t].count \in 1 .. r.count - 1
    BY <1>8, <2>1, <2>2 DEF Buried
  <2>4. QED
    BY <1>1, <2>3
<1>9. QED
  BY <1>3, <1>4, <1>5, <1>6, <1>7, <1>8 DEF Change

LEMMA BoundedStep ==
  ASSUME Base, Bounded, [Next]_vars
  PROVE  Bounded'
<1>1. \A t \in Thread : th'[t].count <= MaxRequests
  BY ThreadSteps, CountBounded DEF Bounded, ThreadStep
<1>2. /\ depth \in [Object -> Nat] /\ \A o \in Object : depth[o] \in Nat /\ depth[o] <= MaxDepth
      /\ MaxDepth \in Nat \ {0}
  BY DEF Base, MonitorsTyped, Bounded
<1>3. ASSUME NEW o \in Object, NEW n \in 0 .. MaxDepth, depth' = [depth EXCEPT ![o] = n]
      PROVE  \A p \in Object : depth'[p] <= MaxDepth
  BY <1>2, <1>3
<1>4. CASE UNCHANGED depth
  BY <1>1, <1>2, <1>4 DEF Bounded
<1>5. ASSUME NEW t, NEW o \in Object, ChangeOwner(t, o)
      PROVE  \A p \in Object : depth'[p] <= MaxDepth
  <2>1. 0 \in 0 .. MaxDepth /\ 1 \in 0 .. MaxDepth
    BY <1>2
  <2>2. QED
    BY <1>3, <1>5, <2>1 DEF ChangeOwner
<1>6. ASSUME NEW t \in Thread, NEW o \in Object, MonitorEnter(t, o)
      PROVE  \A p \in Object : depth'[p] <= MaxDepth
  <2>1. CASE Owner(o) \in {Nobody, t}
    <3>1. depth[o] < MaxDepth /\ depth' = [depth EXCEPT ![o] = depth[o] + 1]
      BY <1>6, <2>1 DEF MonitorEnter
    <3>2. depth[o] + 1 \in 0 .. MaxDepth
      BY <1>2, <3>1
    <3>3. QED
      BY <1>3, <3>1, <3>2
  <2>2. CASE Owner(o) \notin {Nobody, t}
    BY <1>2, <1>6, <2>2 DEF MonitorEnter
  <2>3. QED
    BY <2>1, <2>2
<1>7. ASSUME NEW t \in Thread, NEW o \in Object, MonitorExit(t, o)
      PROVE  \A p \in Object : depth'[p] <= MaxDepth
  <2>1. CASE depth[o] > 1
    <3>1. depth' = [depth EXCEPT ![o] = depth[o] - 1]
      BY <1>7, <2>1 DEF MonitorExit
    <3>2. depth[o] - 1 \in 0 .. MaxDepth
      BY <1>2, <2>1
    <3>3. QED
      BY <1>3, <3>1, <3>2
  <2>2. CASE ~(depth[o] > 1)
    BY <1>5, <1>7, <2>2 DEF MonitorExit
  <2>3. QED
    BY <2>1, <2>2
<1>8. CASE DestroyOwner
  <2>1. cursor.at \in Nodes(locks[current]) /\ current \in Thread
    BY <1>8 DEF DestroyOwner, Base, Cursors, IInv, CurrentAlive
  <2>2. cursor.at \in Object
    BY <2>1, ElementOfSeq DEF Base, MonitorsTyped, Nodes
  <2>3. QED
    BY <1>1, <1>5, <1>8, <2>2 DEF DestroyOwner, Bounded
<1>9. CASE Elsewhere \/ DeleteLockRequests
  BY <1>4, <1>9 DEF Elsewhere, DeleteLockRequests
<1>10. QED
  BY <1>1, <1>6, <1>7, <1>8, <1>9, MonitorSteps DEF Bounded
----------------------------------------------------------------------------
(* The inductive invariant.                                                *)
ThreadsInv == Base /\ LocksInv /\ Fates /\ Parked /\ Held /\ Signals /\ Bounded

LEMMA ThreadsInit == Init => ThreadsInv
<1> SUFFICES ASSUME Init PROVE ThreadsInv
  OBVIOUS
<1>1. Base /\ LocksInv /\ Fates /\ Parked /\ Held
  BY BaseInit, HeldInit
<1>2. PICK t \in Thread : th = [[u \in Thread |-> NewThread] EXCEPT ![t].status = "Ready"]
  BY DEF Init
<1>3. \A u \in Thread : th[u].wait = NoWait /\ th[u].count = 0
  BY <1>2 DEF NewThread
<1>4. pc = "idle" /\ \A o \in Object : depth[o] = 0
  BY DEF Init
<1>5. Signals
  BY <1>3, <1>4 DEF Signals, Unmet
<1>6. Bounded
  BY <1>3, <1>4 DEF Bounded
<1>7. QED
  BY <1>1, <1>5, <1>6 DEF ThreadsInv

LEMMA ThreadsStep == ThreadsInv /\ [Next]_vars => ThreadsInv'
<1> SUFFICES ASSUME ThreadsInv, [Next]_vars PROVE ThreadsInv'
  OBVIOUS
<1>1. Base /\ LocksInv /\ Fates /\ Parked /\ Held /\ Signals /\ Bounded
  BY DEF ThreadsInv
<1>2. ThreadStep
  BY <1>1, ThreadSteps
<1>3. Base' /\ LocksInv'
  BY <1>1, BaseStep
<1>4. Fates' /\ Parked'
  BY <1>1, <1>2, FatesStep, ParkedStep
<1>5. Held' /\ Bounded'
  BY <1>1, HeldStep, BoundedStep
<1>6. Signals'
  BY <1>1, <1>3, <1>4, SignalsStep
<1>7. QED
  BY <1>3, <1>4, <1>5, <1>6 DEF ThreadsInv

(* Whatever the threads call and whatever is granted, signalled, aborted or *)
(* killed meanwhile, the engine, its locks and the fields of its threads    *)
(* stay as ThreadsInv says.                                                 *)
THEOREM ThreadsAlways == Spec => []ThreadsInv
<1>1. QED
  BY ThreadsInit, ThreadsStep, PTL DEF Spec

LEMMA TypesFit == ThreadsInv => TypeOK
<1> SUFFICES ASSUME ThreadsInv PROVE TypeOK
  OBVIOUS
<1>1. /\ Typed /\ EngineTyped /\ MonitorsTyped /\ CountsInv /\ Bounded
      /\ MaxDepth \in Nat /\ MaxRequests \in Nat
  BY DEF ThreadsInv, Base
<1> DEFINE R == [status : {"Unstarted", "Ready", "Waiting", "Terminated"},
        suspended : BOOLEAN, aborted : BOOLEAN, exception : BOOLEAN,
        count : 0 .. MaxRequests,
        wait : [handles : {<<>>} \cup WaitList,
                all : BOOLEAN, finite : BOOLEAN],
        result : {INIT, TIMEOUT, HANDLE_ALL} \cup Waitable, sleep : BOOLEAN,
        call : {NoCall, Exited, Calling("Sleep"), Calling("Wait")}
               \cup {Entering(o) : o \in Object}]
<1>2. ASSUME NEW t \in Thread PROVE th[t] \in R
  <2>1. th[t] \in ThreadRecord
    BY <1>1 DEF Typed
  <2>2. th[t].count \in Nat /\ th[t].count <= MaxRequests
    BY <1>1, FS_CardinalityType DEF CountsInv, Bounded
  <2>3. th[t].count \in 0 .. MaxRequests
    BY <1>1, <2>2
  <2>4. QED
    BY <2>1, <2>3 DEF ThreadRecord, Waits
<1> HIDE DEF R
<1>3. th \in [Thread -> R]
  BY <1>1, <1>2 DEF Typed
<1>4. depth \in [Object -> 0 .. MaxDepth]
  <2>1. \A o \in Object : depth[o] \in 0 .. MaxDepth
    BY <1>1 DEF MonitorsTyped, Bounded
  <2>2. QED
    BY <1>1, <2>1 DEF MonitorsTyped
<1>5. QED
  BY <1>1, <1>3, <1>4 DEF TypeOK, EngineTyped, MonitorsTyped, R

LEMMA CountsFit == ThreadsInv => CountsAgree
<1> SUFFICES ASSUME ThreadsInv PROVE CountsAgree
  OBVIOUS
<1>1. CountsInv /\ LocksInv
  BY DEF ThreadsInv, Base
<1>2. \A t, u \in Thread : t # u => Nodes(locks[t]) \cap Nodes(locks[u]) = {}
  BY <1>1 DEF LocksInv, OneOwner
<1>3. QED
  BY <1>1, <1>2 DEF CountsAgree, CountsInv, LocksInv, RequestsOf

LEMMA SignalsFit == ThreadsInv => NoMissedSignal
<1> SUFFICES ASSUME ThreadsInv, pc \in {"idle", "run"}, NEW t \in Nodes(waiting),
                    th[t].wait # NoWait, th[t].result = INIT
             PROVE  ~Satisfied(th[t].wait, signaled)
  BY DEF NoMissedSignal
<1>1. t \in Thread
  BY ThreadNodes DEF ThreadsInv, Base
<1>2. QED
  BY <1>1 DEF ThreadsInv, Signals, Unmet

LEMMA FatesFit == ThreadsInv => StillAwaited /\ WaitSatisfied
BY FatesGive DEF ThreadsInv
----------------------------------------------------------------------------
(* Every field of the engine, of its threads and of the locks keeps to its *)
(* type: no counter leaves its range, and the cursors of the loops of      *)
(* SignalObject and DestroyInstance are nodes.                             *)
THEOREM TypesCorrect == Spec => []TypeOK
<1>1. QED
  BY ThreadsAlways, TypesFit, PTL

(* m_lockRequestsCount counts the queued requests of a thread whatever     *)
(* ChangeOwner, Abort and DeleteLockRequests do, a lock is in the m_locks of *)
(* one thread, and only an owned lock has requests.                        *)
THEOREM CountsCorrect == Spec => []CountsAgree
<1>1. QED
  BY ThreadsAlways, CountsFit, PTL

(* A thread whose Monitor.Enter has returned owns the lock, as often as it *)
(* entered, also when it was suspended or resumed meanwhile or the lock was *)
(* handed over by the death of its owner.                                  *)
THEOREM LocksExclude == Spec => []MutualExclusion
<1>1. ThreadsInv => MutualExclusion
  BY DEF ThreadsInv, Held
<1>2. QED
  BY <1>1, ThreadsAlways, PTL

(* No wake-up of a thread blocked in Monitor.Enter or in a wait is lost.   *)
THEOREM WakeUpsKept == Spec => []StillAwaited
<1>1. QED
  BY ThreadsAlways, FatesFit, PTL

(* A wait returns because a signal or the timeout ended it.                *)
THEOREM WaitsJustified == Spec => []WaitSatisfied
<1>1. QED
  BY ThreadsAlways, FatesFit, PTL

(* SignalObject leaves no thread waiting for what is signaled, although the  *)
(* threads it releases move in the list that its loop walks.               *)
THEOREM SignalsReach == Spec => []NoMissedSignal
<1>1. QED
  BY ThreadsAlways, SignalsFit, PTL

(* A dead thread is made Ready only by the deletion or grant of a request  *)
(* that it left in a queue.                                                *)
THEOREM DeathFinal == Spec => StaysTerminated
<1>1. ThreadsInv /\ [Next]_vars =>
        [\A t \in Thread :
           th[t].status = "Terminated" /\ th'[t].status # "Terminated"
             => th[t].count > 0 /\ th'[t].count < th[t].count]_vars
  BY TerminatedStep, ThreadSteps DEF ThreadsInv
<1>2. QED
  BY <1>1, ThreadsAlways, PTL DEF Spec, StaysTerminated

(* SignalObject meets a thread it has released again only when the thread is *)
(* suspended or was aborted while it waited for a lock.                    *)
THEOREM ReleasesOnce == Spec => ReleasedOnce
<1>1. ThreadsInv /\ [Next]_vars =>
        [\A t \in Thread :
           SignalNext /\ cursor.at = t /\ th[t].wait # NoWait /\ Satisfied(th[t].wait, signaled)
             => th[t].result = INIT \/ th[t].suspended \/ th[t].aborted]_vars
  BY ReleaseStep DEF ThreadsInv
<1>2. QED
  BY <1>1, ThreadsAlways, PTL DEF Spec, ReleasedOnce
=============================================================================
