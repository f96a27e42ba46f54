--------------------------- MODULE HeapPersistence ---------------------------
(***************************************************************************)
(* The persistence of extended weak references in two banks of flash       *)
(* (CLR/Core/HeapPersistence/Heap_Persistence.cpp).                        *)
(*                                                                         *)
(* Objects are appended to bank A.  When it is full and the live objects   *)
(* would fit, bank B is erased and formatted, the live objects are copied  *)
(* to it, what no longer fits returns to RAM, B gets the next sequence     *)
(* number, and the banks change roles.  All of this is the work of         *)
(* AdvanceState, run from a completion whenever the CLR expects enough     *)
(* idle time, or to the end by FlushAll; between two runs the program      *)
(* changes objects, and power may fail at any point.                       *)
(*                                                                         *)
(* A bank is a row of cells.  One cell holds an object header or what one  *)
(* write burst of c_MaxWriteBurst bytes writes.  Of the sequence numbers   *)
(* only the order is read, so they are modelled by their rank: the older   *)
(* bank has 1, the newer 2, and a number not yet written reads as all ones *)
(* and is above both.                                                      *)
(***************************************************************************)
EXTENDS DblLinkedList, FiniteSetsExt

CONSTANTS
  Object,           \* the extended weak references, by selector and id
  Value,            \* the serialized targets
  NoValue,          \* NULL
  NoObject,
  Bursts,           \* [Value -> Nat]: the cells its data takes
  Cells,            \* the cells of a bank after its header (m_totalBytes)
  SafeCells,        \* m_totalSafeBytes
  BlockCells,       \* the cells of one erasable block
  InitialPriority,  \* [Object -> Int]
  Priority,         \* the priorities set_Priority may give
  MaxFaults,        \* bound of the writes and allocations that fail
  LossWhileCopying  \* whether power may also fail during a change of banks

Length(v) == 1 + Bursts[v]

ASSUME HeapAssumption ==
  /\ Bursts \in [Value -> Nat \ {0}]
  /\ NoValue \notin Value /\ NoObject \notin Object /\ IsFiniteSet(Object)
  /\ SafeCells \in Nat /\ Cells \in Nat /\ BlockCells \in 1..Cells
  /\ SafeCells + 1 < Cells
  /\ \A v \in Value : Length(v) < SafeCells
  /\ InitialPriority \in [Object -> Int] /\ Priority \subseteq Int
  /\ MaxFaults \in Nat /\ LossWhileCopying \in BOOLEAN

VARIABLES
  flash,    \* the two banks: header, sequence number and cells
  a,        \* which of them is m_bankA
  current,  \* m_current of the banks, 0 when NULL
  value,    \* what m_targetSerialized of every object holds
  target,   \* where in bank A, when WR_Persisted; 0 when in RAM
  copied,   \* m_targetCopied: where in bank B, 0 when NULL
  priority, \* m_priority
  list,     \* m_weakReferences; one without a target has no effect in it
  state,    \* m_state
  pending,  \* m_pending_object, _header and _size
  queued,   \* m_completion is enqueued
  run,      \* who is in AdvanceState: nobody, Callback, or the first or
            \* the second Flush of FlushAll
  faults    \* how often a write or an allocation has failed

weak == <<value, target, copied, priority, list>>
manager == <<state, pending, queued, run>>
vars == <<flash, a, current, weak, manager, faults>>

Bank == {0, 1}
Other(b) == 1 - b
Erased == 3         \* a sequence number that reads 0xFFFFFFFF

(* A cell that can be written, and one that holds data or a header that    *)
(* cannot be read.                                                         *)
Free == [obj |-> NoObject, val |-> NoValue, pri |-> 0, live |-> FALSE]
Used == [obj |-> NoObject, val |-> NoValue, pri |-> 0, live |-> TRUE]

Header == [obj : Object, val : Value, pri : Int, live : {TRUE}]
NoPending == [obj |-> NoObject, pos |-> 0, left |-> 0]
States == {"FlushNextObject", "Idle", "Erase", "EraseSector", "CopyToOtherBank",
           "CopyBackToRam", "SwitchBank"}

----------------------------------------------------------------------------
(* What is read from a bank. *)

Headers(bank) == {p \in 1..Cells : bank.cells[p] \notin {Free, Used}}

(* ObjectHeader::IsGood(true): in use, and all data there.                 *)
IsGood(bank, p) ==
  /\ bank.cells[p].live
  /\ \A q \in p + 1 .. p + Bursts[bank.cells[p].val] : bank.cells[q] = Used

Good(bank) == {p \in Headers(bank) : IsGood(bank, p)}

(* BankHeader::IsGood. *)
IsGoodBank(bank) == bank.header /\ bank.seq # 0

(* Where Bank::Initialize leaves m_current: behind the last object whose   *)
(* header can be read.                                                     *)
Behind(bank) ==
  IF IsGoodBank(bank)
  THEN CHOOSE e \in 1..Cells + 1 :
         /\ \A p \in Headers(bank) : p + Length(bank.cells[p].val) <= e
         /\ e = 1 \/ \E p \in Headers(bank) : p + Length(bank.cells[p].val) = e
  ELSE 0

(* Bank::CanWrite: the object, a header and a word more must be erased.    *)
CanWrite(bank, p, n) ==
  p + n + 1 <= Cells /\ \A q \in p .. p + n + 1 : bank.cells[q] = Free

(* Where WriteHeader can place an object of n cells, none when it cannot.  *)
RoomsFor(b, n) ==
  {p \in current[b] .. Cells : current[b] # 0 /\ CanWrite(flash[b], p, n)}
RoomFor(b, n) == Min(RoomsFor(b, n))

InReverseOrder(l, pri, o) ==
  LET others == Unlink(l, o)
      places == {i \in 1..Len(others) + 1 : i <= Len(others) => pri[others[i]] >= pri[o]}
  IN InsertBefore(others, Min(places), o)

(* InsertInPriorityOrder: before the first of its own priority or less. *)
InPriorityOrder(l, pri, o) ==
  LET others == Unlink(l, o)
      places == {i \in 1..Len(others) + 1 : i <= Len(others) => pri[others[i]] <= pri[o]}
  IN InsertBefore(others, Min(places), o)

(* The lists that result when the objects found at the cells `at' are      *)
(* inserted one after the other: of the same priority the last found comes *)
(* first.  Where one that was not found (at 0) stands has no effect.       *)
Restorations(pri, at) ==
  {l \in SetToSeqs(Object) :
     \A i, j \in DOMAIN l : i < j =>
       \/ pri[l[i]] > pri[l[j]]
       \/ pri[l[i]] = pri[l[j]] /\ at[l[i]] >= at[l[j]]}

(* usedBytes when the loop over the list has reached o.                    *)
UsedUpTo(o) ==
  FoldLeft(LAMBDA sum, x : sum + IF value[x] = NoValue THEN 0 ELSE Length(value[x]),
           0, SubSeq(list, 1, PosOf(list, o)))

(* The first object of the list in S, none when there is no such object.   *)
First(S) ==
  LET places == {i \in 1..Len(list) : list[i] \in S}
  IN IF places = {} THEN NoObject ELSE list[Min(places)]

Unsaved == {o \in Object : value[o] # NoValue /\ target[o] = 0}
Uncopied == {o \in Object : target[o] # 0 /\ copied[o] = 0}

(* ObjectHeader::Delete.  Of a deleted object only the length is read.     *)
Deleted(v) == [obj |-> NoObject, val |-> v, pri |-> 0, live |-> FALSE]
Delete(f, b, p) == [f EXCEPT ![b].cells[p] = Deleted(@.val)]

Blank == [header |-> FALSE, seq |-> Erased, cells |-> [p \in 1..Cells |-> Free]]

----------------------------------------------------------------------------
(* AdvanceState returns r: Callback enqueues itself again when r is TRUE;  *)
(* FlushAll goes back to FlushNextObject and flushes a second time.        *)
Return(r) ==
  \/ run = "Callback" /\ run' = "nobody" /\ queued' = r
  \/ run # "Callback" /\ run' = (IF run = "Flush" THEN "FlushAgain" ELSE "nobody")
     /\ UNCHANGED queued

(* The state FlushAll leaves when the first of its flushes returns in s.   *)
StateAfter(s) == IF run = "Flush" THEN "FlushNextObject" ELSE s

Stay == UNCHANGED <<run, queued>>

(* What is left of a pending object after a write burst.                   *)
RestKept(pd) == [pd EXCEPT !.left = @ - 1]

Rest(pd) == IF pd.left = 1 THEN NoPending ELSE [pd EXCEPT !.left = @ - 1]

(* One write burst of the pending object into bank b; it fails while the   *)
(* bound on faults allows, and the header is deleted then.                 *)
Burst(b, f, pd) ==
  LET next == pd.pos + Length(value[pd.obj]) - pd.left
  IN \/ /\ flash' = [f EXCEPT ![b].cells[next] = Used]
        /\ pending' = Rest(pd)
        /\ LET done == IF pd.left = 1 THEN pd.pos ELSE 0
           IN IF b = a THEN /\ target' = [target EXCEPT ![pd.obj] = done]
                            /\ UNCHANGED copied
                       ELSE /\ copied' = [copied EXCEPT ![pd.obj] = done]
                            /\ UNCHANGED target
        /\ UNCHANGED faults
     \/ /\ faults < MaxFaults
        /\ faults' = faults + 1
        /\ flash' = Delete(f, b, pd.pos)
        /\ pending' = NoPending
        /\ UNCHANGED <<target, copied>>

(* Bank::WriteHeader for o at the first place that can be written.         *)
WithHeader(b, o) ==
  [flash EXCEPT ![b].cells[RoomFor(b, Length(value[o]))] =
     [obj |-> o, val |-> value[o], pri |-> priority[o], live |-> TRUE]]

WriteHeader(b, o) ==
  LET n == Length(value[o])
      p == RoomFor(b, n)
  IN /\ Burst(b, WithHeader(b, o), [obj |-> o, pos |-> p, left |-> Bursts[value[o]]])
     /\ current' = [current EXCEPT ![b] = p + n]

(* It has searched the whole bank in vain.                                 *)
NoPlace(b, o) ==
  LET end == Cells - Length(value[o])
  IN current' = [current EXCEPT ![b] = IF @ = 0 \/ @ > end THEN @ ELSE end]

(* The rest of a pending object.                                           *)
Continue(b) ==
  /\ pending # NoPending
  /\ Burst(b, flash, pending)
  /\ Stay /\ UNCHANGED <<a, current, value, priority, list, state>>

FlushNextObject ==
  /\ state = "FlushNextObject"
  /\ \/ Continue(a)
     \/ /\ pending = NoPending
        /\ LET o == First(Unsaved) IN
           \/ /\ o = NoObject
              /\ state' = StateAfter("Idle")
              /\ Return(FALSE)
              /\ UNCHANGED <<flash, a, current, weak, pending, faults>>
           \/ /\ o # NoObject /\ RoomsFor(a, Length(value[o])) # {}
              /\ WriteHeader(a, o)
              /\ Stay /\ UNCHANGED <<a, value, priority, list, state>>
           \/ /\ o # NoObject /\ RoomsFor(a, Length(value[o])) = {}
              /\ NoPlace(a, o)
              /\ IF UsedUpTo(o) < SafeCells
                 THEN state' = StateAfter("Erase") /\ Return(TRUE)
                 ELSE state' = StateAfter("Idle") /\ Return(FALSE)
              /\ UNCHANGED <<flash, a, weak, pending, faults>>

Idle ==
  /\ state = "Idle"
  /\ state' = StateAfter("Idle") /\ Return(FALSE)
  /\ UNCHANGED <<flash, a, current, weak, pending, faults>>

EraseKeepsCopies ==
  /\ state = "Erase" /\ state' = "EraseSector"
  /\ pending' = NoPending
  /\ Stay /\ UNCHANGED <<flash, a, current, weak, faults>>

Erase ==
  /\ state = "Erase" /\ state' = "EraseSector"
  /\ copied' = [o \in Object |-> 0]
  /\ pending' = NoPending
  /\ Stay /\ UNCHANGED <<flash, a, current, value, target, priority, list, faults>>

(* Bank::Erase of the block with index 0.                                  *)
EraseFirst(bank) ==
  [bank EXCEPT !.header = FALSE, !.seq = Erased,
               !.cells = [p \in 1..Cells |-> IF p <= BlockCells THEN Free ELSE @[p]]]

(* Bank::Format writes the header, its sequence number all ones.           *)
Format(bank) == [bank EXCEPT !.header = TRUE, !.seq = Erased]

EraseSector ==
  /\ state = "EraseSector" /\ state' = "CopyToOtherBank"
  /\ LET b == Other(a)
         bank == Format(EraseFirst(flash[b]))
     IN /\ flash' = [flash EXCEPT ![b] = bank]
        /\ current' = [current EXCEPT ![b] = Behind(bank)]
  /\ Stay /\ UNCHANGED <<a, weak, pending, faults>>

CopyToOtherBank ==
  /\ state = "CopyToOtherBank"
  /\ LET b == Other(a)
         o == First(Uncopied)
         fits == o # NoObject /\ UsedUpTo(o) < SafeCells
     IN \/ Continue(b)
        \/ /\ pending = NoPending /\ fits /\ RoomsFor(b, Length(value[o])) # {}
           /\ WriteHeader(b, o)
           /\ Stay /\ UNCHANGED <<a, value, priority, list, state>>
        \/ /\ pending = NoPending /\ ~(fits /\ RoomsFor(b, Length(value[o])) # {})
           /\ IF fits THEN NoPlace(b, o) ELSE UNCHANGED current
           /\ state' = "CopyBackToRam"
           /\ Stay /\ UNCHANGED <<flash, a, weak, pending, faults>>

(* An object that was not copied gets an array in RAM, if there is memory. *)
CopyBackToRam ==
  /\ state = "CopyBackToRam"
  /\ LET o == First(Uncopied) IN
     \/ /\ o = NoObject
        /\ state' = "SwitchBank"
        /\ Stay /\ UNCHANGED <<flash, target, faults>>
     \/ /\ o # NoObject
        /\ flash' = Delete(flash, a, target[o])
        /\ target' = [target EXCEPT ![o] = 0]
        /\ Stay /\ UNCHANGED <<state, faults>>
     \/ /\ o # NoObject /\ faults < MaxFaults
        /\ faults' = faults + 1
        /\ state' = StateAfter("Erase") /\ Return(TRUE)
        /\ UNCHANGED <<flash, target>>
  /\ UNCHANGED <<a, current, value, copied, priority, list, pending>>

SetSequence(f) ==
  IF f[a].seq = Erased
  THEN [f EXCEPT ![Other(a)].seq = 0]
  ELSE [f EXCEPT ![Other(a)].seq = 2, ![a].seq = 1]

SwitchBank ==
  /\ state = "SwitchBank" /\ state' = "FlushNextObject"
  /\ target' = copied
  /\ copied' = [o \in Object |-> 0]
  /\ flash' = SetSequence(flash)
  /\ a' = Other(a)
  /\ Stay /\ UNCHANGED <<current, value, priority, list, pending, faults>>

(* One turn of the loop of AdvanceState.                                   *)
AdvanceState ==
  /\ run # "nobody"
  /\ \/ FlushNextObject \/ Idle \/ Erase \/ EraseSector
     \/ CopyToOtherBank \/ CopyBackToRam \/ SwitchBank

(* IsThereEnoughIdleTime says no; Idle and SwitchBank do not ask.          *)
Yield ==
  /\ run = "Callback" /\ state \notin {"Idle", "SwitchBank"}
  /\ Return(TRUE)
  /\ UNCHANGED <<flash, a, current, weak, state, pending, faults>>

Callback ==
  /\ run = "nobody" /\ queued
  /\ run' = "Callback" /\ queued' = FALSE
  /\ UNCHANGED <<flash, a, current, weak, state, pending, faults>>

FlushAll ==
  /\ run = "nobody"
  /\ run' = "Flush"
  /\ UNCHANGED <<flash, a, current, weak, state, pending, queued, faults>>

----------------------------------------------------------------------------
(* InvalidateEntry: what is stored of o, or being stored, is deleted, and  *)
(* a change of banks under way starts again.  v is the new serialized      *)
(* target.                                                                 *)
InvalidateEntry(o, v) ==
  LET b == IF state = "FlushNextObject" THEN a ELSE Other(a)
      f == IF pending.obj = o THEN Delete(flash, b, pending.pos) ELSE flash
  IN /\ flash' = IF target[o] # 0 THEN Delete(f, a, target[o]) ELSE f
     /\ pending' = IF pending.obj = o THEN NoPending ELSE pending
     /\ target' = [target EXCEPT ![o] = 0]
     /\ value' = [value EXCEPT ![o] = v]
     /\ queued' = (queued \/ state = "Idle")
     /\ state' = CASE state = "Idle" -> "FlushNextObject"
                   [] state \in {"CopyToOtherBank", "CopyBackToRam", "SwitchBank"} -> "Erase"
                   [] OTHER -> state

SetTarget(o, v) ==
  /\ run = "nobody"
  /\ IF v # value[o] THEN InvalidateEntry(o, v)
                     ELSE UNCHANGED <<flash, pending, target, value, queued, state>>
  /\ list' = InPriorityOrder(list, priority, o)
  /\ UNCHANGED <<a, current, copied, priority, run, faults>>

SetPriority(o, p) ==
  /\ run = "nobody"
  /\ priority' = [priority EXCEPT ![o] = p]
  /\ list' = InPriorityOrder(list, priority', o)
  /\ UNCHANGED <<flash, a, current, value, target, copied, manager, faults>>

(* The collector drops an object that the program no longer holds, or has  *)
(* not asked for since the last boot while memory is short.                *)
Drop(o) ==
  /\ run = "nobody" /\ value[o] # NoValue
  /\ InvalidateEntry(o, NoValue)
  /\ UNCHANGED <<a, current, copied, priority, list, run, faults>>

Program ==
  \E o \in Object :
    \/ \E v \in Value \cup {NoValue} : SetTarget(o, v)
    \/ \E p \in Priority \cup {priority[o]} : SetPriority(o, p)
    \/ Drop(o)

----------------------------------------------------------------------------
OlderBankAtBoot(f) ==
  IF IsGoodBank(f[1]) /\ (~IsGoodBank(f[0]) \/ f[0].seq > f[1].seq) THEN 1 ELSE 0

(* The bank that Initialize takes for bank A.                              *)
BankAtBoot(f) ==
  IF IsGoodBank(f[1]) /\ (~IsGoodBank(f[0]) \/ f[0].seq < f[1].seq) THEN 1 ELSE 0

(* When neither is good, A is erased and formatted with sequence number 1. *)
FlashAtBoot(f) ==
  IF IsGoodBank(f[BankAtBoot(f)]) THEN f
  ELSE [f EXCEPT ![BankAtBoot(f)] = [Blank EXCEPT !.header = TRUE, !.seq = 1]]

(* Where a bank holds o, 0 when it does not.                               *)
FoundIn(bank, o) ==
  LET found == {p \in Good(bank) : bank.cells[p].obj = o}
  IN IF found = {} THEN 0 ELSE Min(found)

(* Initialize, after a reset that left f in flash.                         *)
Boot(f) ==
  LET bank == FlashAtBoot(f)[BankAtBoot(f)] IN
  /\ flash' = FlashAtBoot(f)
  /\ a' = BankAtBoot(f)
  /\ current' = [b \in Bank |-> Behind(flash'[b])]
  /\ target' = [o \in Object |-> FoundIn(bank, o)]
  /\ value' = [o \in Object |-> IF target'[o] = 0 THEN NoValue ELSE bank.cells[target'[o]].val]
  /\ priority' = [o \in Object |-> IF target'[o] = 0 THEN InitialPriority[o]
                                                    ELSE bank.cells[target'[o]].pri]
  /\ list' \in Restorations(priority', target')
  /\ copied' = [o \in Object |-> 0]
  /\ state' = "FlushNextObject" /\ pending' = NoPending
  /\ queued' = TRUE /\ run' = "nobody"

(* A change of banks has formatted bank B and not numbered it yet.         *)
Changing == flash[Other(a)].header /\ flash[Other(a)].seq = Erased

(* What power can leave in flash while AdvanceState runs: what is there, a *)
(* header cut short, a header without data, or a first block of B half     *)
(* erased.                                                                 *)
AtPowerLoss ==
  LET b == IF state = "FlushNextObject" THEN a ELSE Other(a)
      o == IF state = "FlushNextObject" THEN First(Unsaved) ELSE First(Uncopied)
      writes == /\ run # "nobody" /\ pending = NoPending
                /\ state \in {"FlushNextObject", "CopyToOtherBank"}
                /\ o # NoObject /\ RoomsFor(b, Length(value[o])) # {}
      erases == run # "nobody" /\ state = "EraseSector"
  IN {flash}
     \cup (IF ~writes THEN {}
           ELSE {WithHeader(b, o),
                 [flash EXCEPT ![b].cells[RoomFor(b, Length(value[o]))] = Used]})
     \cup (IF ~erases THEN {}
           ELSE {[flash EXCEPT ![b].header = FALSE],
                 [flash EXCEPT ![b].cells = EraseFirst(flash[b]).cells]})

PowerLoss ==
  /\ Changing => LossWhileCopying
  /\ \E f \in AtPowerLoss : Boot(f)
  /\ UNCHANGED faults

Init ==
  /\ flash = [b \in Bank |-> IF b = 0 THEN [Blank EXCEPT !.header = TRUE, !.seq = 1] ELSE Blank]
  /\ a = 0 /\ current = [b \in Bank |-> 1 - b]
  /\ value = [o \in Object |-> NoValue]
  /\ target = [o \in Object |-> 0] /\ copied = target
  /\ priority = InitialPriority
  /\ list \in Restorations(priority, target)
  /\ state = "FlushNextObject" /\ pending = NoPending
  /\ queued = TRUE /\ run = "nobody" /\ faults = 0

Next == AdvanceState \/ Yield \/ Callback \/ FlushAll \/ Program \/ PowerLoss

(* The completion comes, and the CLR is idle again and again.              *)
Fairness == WF_vars(Callback) /\ SF_vars(AdvanceState)

Spec == Init /\ [][Next]_vars /\ Fairness

----------------------------------------------------------------------------
Cell == Header \cup {Free, Used} \cup {Deleted(v) : v \in Value}

(* The types; a pending object has a value, and the list has every object  *)
(* once, whatever was inserted, restored or dropped.                       *)
TypeOK ==
  /\ flash \in [Bank -> [header : BOOLEAN, seq : 0..Erased, cells : [1..Cells -> Cell]]]
  /\ a \in Bank
  /\ current \in [Bank -> 0..Cells + 1]
  /\ value \in [Object -> Value \cup {NoValue}]
  /\ target \in [Object -> 0..Cells] /\ copied \in [Object -> 0..Cells]
  /\ priority \in [Object -> Int]
  /\ list \in SetToSeqs(Object)
  /\ state \in States
  /\ pending \in {NoPending} \cup [obj : Object, pos : 1..Cells, left : 1..Cells]
  /\ pending # NoPending => value[pending.obj] # NoValue
  /\ queued \in BOOLEAN /\ run \in {"nobody", "Callback", "Flush", "FlushAgain"}
  /\ faults \in 0..MaxFaults

(* What a bank holds is what the weak references say: an object is at its  *)
(* place with its value, whole and in use, and nothing else is.            *)
Agrees(bank, at) ==
  /\ Good(bank) = {at[o] : o \in {x \in Object : at[x] # 0}}
  /\ \A o \in Object :
       at[o] # 0 => bank.cells[at[o]].obj = o /\ bank.cells[at[o]].val = value[o]

(* Bank A agrees with the objects marked as persisted, and bank B, while   *)
(* it is filled, with the copies: over any number of failed writes,        *)
(* aborted changes of banks and power losses.                              *)
TargetsAgree ==
  /\ Agrees(flash[a], target)
  /\ state \in {"CopyToOtherBank", "CopyBackToRam", "SwitchBank"} =>
       Agrees(flash[Other(a)], copied)

(* What a power loss leaves: see SurvivingObjects. *)
Stored ==
  [o \in Object |-> IF \E p \in Good(flash[a]) : flash[a].cells[p].obj = o
                    THEN flash[a].cells[CHOOSE p \in Good(flash[a]) :
                                          flash[a].cells[p].obj = o].val
                    ELSE NoValue]

Surviving == INSTANCE SurvivingObjects WITH stored <- Stored

(* The two banks implement the promise to the program. *)
ImplementsSurviving == Surviving!Spec

(* A test reboots the device and expects every object it has stored: what  *)
(* was in flash and has not been changed is recovered.                     *)
StoredIsRecovered ==
  [][PowerLoss => \A o \in Object : target[o] # 0 => value'[o] = value[o]]_vars

(* An object fits when it and all of its priority or more are below the    *)
(* safety margin.                                                          *)
Fits(o) ==
  MapThenSumSet(LAMBDA x : IF value[x] = NoValue \/ priority[x] < priority[o]
                           THEN 0 ELSE Length(value[x]), Object) < SafeCells

(* Setting the target triggers persistence, and what the CLR discards are  *)
(* the objects of least priority: when the program stops changing objects  *)
(* and power stays, every object that fits is stored.                      *)
StoredEventually ==
  <>[][~(Program \/ PowerLoss)]_vars =>
    <>[](\A o \in Object : value[o] # NoValue /\ Fits(o) => target[o] # 0)
=============================================================================
