--------------------------- MODULE InterruptQueue ---------------------------
(***************************************************************************)
(* Interrupts of the ports of an application (CLR/Core/Hardware and        *)
(* CLR/Core/IOPort, CLR/Libraries/SPOT_Hardware).                          *)
(*                                                                         *)
(* The interrupt service routine writes a record into the HAL queue, a     *)
(* ring.  The CLR, when it sees the event of the interrupt, moves every    *)
(* record to the application queue and has the interrupt thread call the   *)
(* application, one record after the other.  Ports are disposed by the     *)
(* application and released by the garbage collector.                      *)
(*                                                                         *)
(* The service routine may run between any two steps of the CLR that are   *)
(* not under GLOBAL_LOCK.  Managed code, the collector and the CLR itself  *)
(* share one thread: `pc' says where it is in native code that an          *)
(* interrupt can observe.                                                  *)
(***************************************************************************)
EXTENDS DblLinkedList

CONSTANTS
  Port, NoPort,
  LevelPort,                \* those whose interrupt mode is a level
  QueueSize,                \* InterruptRecords()
  MaxRaised,                \* bound of the interrupts
  MaxFaults,                \* bound of the failing allocations
  OverflowWhileCopying,     \* the queue may get full while a record is copied
  InterruptWhileDisposing,  \* a port may interrupt while it is disposed
  CollectWhileWaiting       \* a port may be released when records wait and
                            \* the interrupt thread does not run

ASSUME InterruptQueueAssumption ==
  /\ LevelPort \subseteq Port /\ NoPort \notin Port
  /\ QueueSize \in Nat \ {0}
  /\ MaxRaised \in Nat /\ MaxFaults \in Nat
  /\ {OverflowWhileCopying, InterruptWhileDisposing, CollectWhileWaiting} \subseteq BOOLEAN

VARIABLES
  slots, reader, writer, full,  \* m_HalQueue
  event,         \* SYSTEM_EVENT_HW_INTERRUPT
  app,           \* m_applicationQueue
  queued,        \* m_queuedInterrupts
  running,       \* the record the interrupt thread handles
  pc,
  rec,           \* the slot that ProcessInterrupts has peeked
  copied,        \* the data it has read of it
  state,         \* of each port
  disabled,      \* the ports with c_InterruptDisabled
  delegates,     \* the ports with m_threadSpawn
  raised,        \* the interrupts, numbered in their order
  lost,          \* those that were discarded
  faults

hal == <<slots, reader, writer, full>>
ports == <<state, disabled, delegates>>
transfer == <<rec, copied>>
vars == <<hal, event, app, queued, running, pc, transfer, ports, raised, lost, faults>>

NoRecord == [id |-> 0, port |-> NoPort]
Ids(s) == {s[i].id : i \in DOMAIN s}

----------------------------------------------------------------------------
(* Hal_Queue_UnknownSize. *)
NumberOfElements ==
  IF full THEN QueueSize ELSE (QueueSize + writer - reader) % QueueSize

HalRecords == [i \in 1..NumberOfElements |-> slots[(reader + i - 1) % QueueSize]]

After(index) == (index + 1) % QueueSize

SaveIfRoom(r) ==
  /\ event' = TRUE
  /\ IF full THEN lost' = lost \cup {r.id} /\ UNCHANGED hal
     ELSE /\ slots' = [slots EXCEPT ![writer] = r]
          /\ writer' = After(writer) /\ full' = (writer' = reader)
          /\ UNCHANGED <<reader, lost>>

(* SaveToHALQueue: the oldest record makes room for the newest. *)
SaveToHALQueue(r) ==
  /\ slots' = [slots EXCEPT ![writer] = r]
  /\ writer' = After(writer)
  /\ reader' = IF full THEN After(reader) ELSE reader
  /\ full' = (writer' = reader')
  /\ lost' = IF full THEN lost \cup {slots[reader].id} ELSE lost
  /\ event' = TRUE

(* RemoveFromHALQueue: each record is taken out, and put back unless it is *)
(* one of the port.  The ring turns while it is done.                      *)
RemoveFromHALQueue(p) ==
  LET kept == Keep(HalRecords, {i \in 1..NumberOfElements : HalRecords[i].port # p})
      place(i) == ((i - writer) % QueueSize) + 1
  IN /\ reader' = writer
     /\ writer' = (writer + Len(kept)) % QueueSize
     /\ full' = (Len(kept) = QueueSize)
     /\ slots' = [i \in DOMAIN slots |->
                    IF place(i) <= Len(kept) THEN kept[place(i)] ELSE slots[i]]
     /\ lost' = lost \cup (Ids(HalRecords) \ Ids(kept))

----------------------------------------------------------------------------
(* The service routine. *)

Connected(p) == state[p] \in {"open", "disposing"} /\ p \notin disabled

Copying == pc \in {"allocate", "copy_data", "copy_context", "pop"}

(* IsrProcedure: a level interrupt disables itself, the application has to *)
(* enable it again.                                                        *)
IsrProcedure(p) ==
  /\ raised < MaxRaised
  /\ Connected(p)
  /\ state[p] = "disposing" => InterruptWhileDisposing
  /\ full /\ Copying => OverflowWhileCopying
  /\ raised' = raised + 1
  /\ SaveToHALQueue([id |-> raised', port |-> p])
  /\ disabled' = IF p \in LevelPort THEN disabled \cup {p} ELSE disabled
  /\ UNCHANGED <<app, queued, running, pc, transfer, state, delegates, faults>>

----------------------------------------------------------------------------
(* The dispatcher. *)

(* StartDispatch finds the managed object and its delegate.                *)
Startable(r) == r.port \in delegates /\ state[r.port] # "released"

(* SpawnDispatcher on a queue `s' when the thread has the record `now':    *)
(* records that cannot be dispatched, also those of the ports `gone', are  *)
(* discarded on the way to the first that can.                             *)
Spawned(s, now, gone) ==
  LET startable == {i \in 1..Len(s) : Startable(s[i]) /\ s[i].port \notin gone}
      first == Min(startable)
  IN IF now # NoRecord THEN [app |-> s, running |-> now]
     ELSE IF startable = {} THEN [app |-> <<>>, running |-> NoRecord]
     ELSE [app |-> SubSeq(s, first + 1, Len(s)), running |-> s[first]]

DispatchCountsOne(d) ==
  /\ app' = d.app /\ running' = d.running
  /\ queued' = IF d.app = app THEN queued ELSE queued - 1
  /\ lost' = lost \cup (Ids(app) \ (Ids(d.app) \cup {d.running.id}))

(* The queue and the thread become those of `d'; a record that is in       *)
(* neither any more has been discarded.                                    *)
Dispatch(d) ==
  /\ app' = d.app /\ running' = d.running
  /\ queued' = queued - (Len(app) - Len(d.app))
  /\ lost' = lost \cup (Ids(app) \ (Ids(d.app) \cup {d.running.id}))

(* ThreadTerminationCallback of a handler that has returned.               *)
Finish ==
  /\ pc = "idle" /\ running # NoRecord
  /\ Dispatch(Spawned(app, NoRecord, {}))
  /\ UNCHANGED <<hal, event, pc, transfer, ports, raised, faults>>

(* ProcessActivity: the retry of records that were left is the debugger's. *)
ProcessInterrupts ==
  /\ pc = "idle" /\ (event \/ app # <<>>)
  /\ event' = FALSE
  /\ pc' = "peek"
  /\ UNCHANGED <<hal, app, queued, running, transfer, ports, raised, lost, faults>>

Peek ==
  /\ pc = "peek"
  /\ IF HalRecords # <<>> THEN pc' = "allocate" /\ rec' = reader
     ELSE pc' = (IF queued = 0 THEN "idle" ELSE "spawn") /\ UNCHANGED rec
  /\ UNCHANGED <<hal, event, app, queued, running, copied, ports, raised, lost, faults>>

Allocate ==
  /\ pc = "allocate" /\ pc' = "copy_data"
  /\ UNCHANGED <<hal, event, app, queued, running, transfer, ports, raised, lost, faults>>

(* Without memory all records of the HAL queue are discarded.              *)
OutOfMemory ==
  /\ pc = "allocate" /\ pc' = "idle"
  /\ faults < MaxFaults /\ faults' = faults + 1
  /\ reader' = writer /\ full' = FALSE
  /\ lost' = lost \cup Ids(HalRecords)
  /\ rec' = 0
  /\ UNCHANGED <<slots, writer, event, app, queued, running, copied, ports, raised>>

CopyData ==
  /\ pc = "copy_data" /\ pc' = "copy_context"
  /\ copied' = slots[rec].id
  /\ UNCHANGED <<hal, event, app, queued, running, rec, ports, raised, lost, faults>>

CopyContext ==
  /\ pc = "copy_context" /\ pc' = "pop"
  /\ app' = Append(app, [id |-> copied, port |-> slots[rec].port])
  /\ queued' = queued + 1
  /\ UNCHANGED <<hal, event, running, transfer, ports, raised, lost, faults>>

PopTransferred ==
  /\ pc = "pop" /\ pc' = "peek"
  /\ IF HalRecords = <<>> THEN UNCHANGED <<reader, full>>
     ELSE reader' = After(reader) /\ full' = FALSE
  /\ rec' = 0 /\ copied' = 0
  /\ UNCHANGED <<slots, writer, event, app, queued, running, ports, raised, lost, faults>>

SpawnClearsEvent ==
  /\ pc = "spawn" /\ pc' = "idle"
  /\ Dispatch(Spawned(app, running, {}))
  /\ event' = FALSE
  /\ UNCHANGED <<hal, transfer, ports, raised, faults>>

SpawnDispatcher ==
  /\ pc = "spawn" /\ pc' = "idle"
  /\ Dispatch(Spawned(app, running, {}))
  /\ UNCHANGED <<hal, event, transfer, ports, raised, faults>>

----------------------------------------------------------------------------
(* The application and the collector. *)

Idle == pc = "idle" /\ UNCHANGED <<app, queued, running, transfer, raised, faults>>

(* EnableInterrupt, of the first handler and of ClearInterrupt; `add' sets *)
(* m_threadSpawn afterwards.                                               *)
EnableInterrupt(p) ==
  /\ Idle /\ state[p] = "open" /\ p \in disabled
  /\ disabled' = disabled \ {p}
  /\ UNCHANGED <<hal, event, pc, state, delegates, lost>>

SetThreadSpawn(p) ==
  /\ Idle /\ state[p] = "open" /\ p \notin disabled /\ p \notin delegates
  /\ delegates' = delegates \cup {p}
  /\ UNCHANGED <<hal, event, pc, state, disabled, lost>>

DisableInterrupt(p) ==
  /\ Idle /\ state[p] = "open" /\ p \notin disabled
  /\ disabled' = disabled \cup {p}
  /\ UNCHANGED <<hal, event, pc, state, delegates, lost>>

(* Dispose clears the HAL queue ...                                        *)
Dispose(p) ==
  /\ Idle /\ state[p] = "open"
  /\ state' = [state EXCEPT ![p] = "disposing"] /\ pc' = "dispose"
  /\ RemoveFromHALQueue(p)
  /\ UNCHANGED <<event, disabled, delegates>>

(* ... and then has the pin interrupt no longer.                           *)
Disposed(p) ==
  /\ pc = "dispose" /\ state[p] = "disposing"
  /\ state' = [state EXCEPT ![p] = "disposed"] /\ pc' = "idle"
  /\ UNCHANGED <<hal, event, app, queued, running, transfer, disabled, delegates,
                 raised, lost, faults>>

ReleaseKeepsRecords(p) ==
  /\ pc \in {"idle", "allocate"} /\ state[p] = "disposed"
  /\ state' = [state EXCEPT ![p] = "released"]
  /\ UNCHANGED <<hal, event, app, queued, running, pc, transfer, disabled, delegates,
                 raised, lost, faults>>

(* RecoverFromGC of a port that nothing refers to any more.  The walk over *)
(* the queue has the next record at hand when it removes one.  When the    *)
(* thread is idle, the callback of the first record removed dispatches     *)
(* others, and the walk ends if the record at hand is one of them.         *)
Release(p) ==
  LET found == {i \in 1..Len(app) : app[i].port = p}
      first == Min(found)
      d == Spawned(RemoveAt(app, first), running, {p})
      taken == Len(app) - 1 - Len(d.app)
      others(s) == Keep(s, {i \in 1..Len(s) : s[i].port # p})
  IN /\ pc \in {"idle", "allocate"} /\ state[p] = "disposed"
     /\ found # {} /\ running = NoRecord => CollectWhileWaiting
     /\ state' = [state EXCEPT ![p] = "released"]
     /\ IF found = {} THEN UNCHANGED <<app, queued, running, lost>>
        ELSE Dispatch(IF taken >= first THEN d ELSE [d EXCEPT !.app = others(@)])
     /\ UNCHANGED <<hal, event, pc, transfer, disabled, delegates, raised, faults>>

----------------------------------------------------------------------------
Init ==
  /\ slots = [i \in 0..QueueSize - 1 |-> NoRecord]
  /\ reader = 0 /\ writer = 0 /\ full = FALSE /\ event = FALSE
  /\ app = <<>> /\ queued = 0 /\ running = NoRecord
  /\ pc = "idle" /\ rec = 0 /\ copied = 0
  /\ state = [p \in Port |-> "open"] /\ disabled = Port /\ delegates = {}
  /\ raised = 0 /\ lost = {} /\ faults = 0

Transfer == Peek \/ Allocate \/ CopyData \/ CopyContext \/ PopTransferred

Managed == \E p \in Port : \/ EnableInterrupt(p) \/ SetThreadSpawn(p)
                           \/ DisableInterrupt(p) \/ Dispose(p) \/ Release(p)

Next == \/ \E p \in Port : IsrProcedure(p) \/ Disposed(p)
        \/ ProcessInterrupts \/ Transfer \/ OutOfMemory \/ SpawnDispatcher
        \/ Finish \/ Managed

Spec == Init /\ [][Next]_vars

(* The CLR goes on, and the interrupt thread, which has the highest        *)
(* priority, runs between two calls of ProcessActivity.                    *)
Fairness == /\ WF_vars(ProcessInterrupts) /\ WF_vars(Transfer) /\ WF_vars(SpawnDispatcher)
            /\ WF_vars(\E p \in Port : Disposed(p))
            /\ SF_vars(Finish)

FairSpec == Spec /\ Fairness

----------------------------------------------------------------------------
Record == [id : 1..MaxRaised, port : Port]

TypeOK ==
  /\ slots \in [0..QueueSize - 1 -> Record \cup {NoRecord}]
  /\ {reader, writer, rec} \subseteq 0..QueueSize - 1
  /\ full \in BOOLEAN /\ (full => reader = writer)
  /\ event \in BOOLEAN
  /\ app \in Seq(Record) /\ running \in Record \cup {NoRecord}
  /\ queued = Len(app)
  /\ pc \in {"idle", "peek", "allocate", "copy_data", "copy_context", "pop",
             "spawn", "dispose"}
  /\ copied \in 0..MaxRaised
  /\ state \in [Port -> {"open", "disposing", "disposed", "released"}]
  /\ disabled \subseteq Port /\ delegates \subseteq Port
  /\ raised \in 0..MaxRaised /\ lost \subseteq 1..MaxRaised
  /\ faults \in 0..MaxFaults

(* No record that will be dispatched points to a port that was released:   *)
(* Dispose and the collector have removed them.                            *)
LiveContexts ==
  \A r \in ToSet(HalRecords) \cup ToSet(app) : state[r.port] # "released"

Numbers(s) == [i \in DOMAIN s |-> s[i].id]

Waiting == Numbers(app)
           \o (IF pc = "pop" THEN Tail(Numbers(HalRecords)) ELSE Numbers(HalRecords))

(* Interrupts are handled in their order, each at most once, and none      *)
(* vanishes; the queue, when it is full, loses the oldest that it holds.   *)
Queue == INSTANCE EventQueue
  WITH Capacity <- QueueSize, waiting <- Waiting, handling <- running.id,
       newest <- raised, discarded <- lost

ImplementsQueue == Queue!Spec

(* The interrupts that wait are different ones, in their order: what makes *)
(* room in the full queue is its oldest record.                            *)
InOrder == \A i, j \in DOMAIN Waiting : i < j => Waiting[i] < Waiting[j]

(* Every interrupt that waits is handled or discarded in the end.          *)
Dispatched == \A n \in 1..MaxRaised : n \in ToSet(Waiting) ~> n \notin ToSet(Waiting)
=============================================================================
