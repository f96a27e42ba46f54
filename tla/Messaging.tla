----------------------------- MODULE Messaging -----------------------------
(***************************************************************************)
(* Requests of the host and their replies (CLR/Messaging/Messaging.cpp on  *)
(* the device, Framework/Debugger/Engine.cs on the host).                  *)
(*                                                                         *)
(* The host has one request under way.  When no reply comes in time it     *)
(* sends the request again, and gives up in the end.  The device keeps its *)
(* replies for a while, and answers a request it has seen with the reply   *)
(* it has kept instead of executing it again.                              *)
(*                                                                         *)
(* The two directions are lossy links, as LossyLink says and WireProtocol  *)
(* shows for the device's receiver.  Sequence numbers are taken from a     *)
(* counter of 16 bits; here a request is its number, and fewer are sent    *)
(* than there are.  Requests without a reply (c_NonCritical), replies that *)
(* may not be kept (c_NoCaching) and requests of the device are left out.  *)
(***************************************************************************)
EXTENDS DblLinkedList

CONSTANTS
  MaxRequests,   \* bound of the requests
  MaxLost,       \* bound of the messages that are lost
  MaxFaults,     \* bound of the replies that could not be kept
  Retries,       \* RETRIES_DEFAULT
  RetryTicks,    \* TIMEOUT_DEFAULT, in ticks
  CacheTicks,    \* the age at which PurgeCache drops a reply, 3 seconds
  CacheEntries,  \* c_MaxCacheSize, in replies
  MaxBusy,       \* the ticks between two calls of ProcessActivity
  MaxWork,       \* the ticks a command may take
  MaxLate        \* the ticks a waiting thread of the host may be late

ASSUME MessagingAssumption ==
  /\ {MaxRequests, MaxLost, MaxFaults, Retries, MaxBusy, MaxWork, MaxLate} \subseteq Nat
  /\ {RetryTicks, CacheTicks, CacheEntries} \subseteq Nat \ {0}

VARIABLES
  up, down,   \* the requests and replies on their way
  sent,       \* the number of the last request
  waiting,    \* the host waits for its reply
  retries,    \* m_retries of it
  since,      \* the ticks since it was sent last
  waited,     \* the ticks since Wait began
  lostNow,    \* how many of its messages were lost
  lost, faults,
  executed,   \* how often the device has executed each request
  cache,      \* m_cacheSubordinate, front first: [req, age]
  reading,    \* ProcessActivity has called ProcessCommands
  working,    \* the request whose handler runs, 0 when none does
  busy        \* the ticks since ProcessActivity, or since the handler began

host == <<sent, waiting, retries, since, waited>>
device == <<executed, cache, reading, working, busy>>
bounds == <<lostNow, lost, faults>>
vars == <<up, down, host, device, bounds>>

(* m_timeoutWait. *)
TimeoutWait == (IF Retries = 0 THEN 1 ELSE 2 * Retries) * RetryTicks

Cached(n) == \E i \in DOMAIN cache : cache[i].req = n

----------------------------------------------------------------------------
(* SyncMessage. *)
Request ==
  /\ ~waiting /\ sent < MaxRequests
  /\ sent' = sent + 1 /\ waiting' = TRUE
  /\ retries' = Retries /\ since' = 0 /\ waited' = 0 /\ lostNow' = 0
  /\ up' = Append(up, sent')
  /\ UNCHANGED <<down, device, lost, faults>>

(* WaitOne has timed out: the request is sent again ...                    *)
Resend ==
  /\ waiting /\ since >= RetryTicks
  /\ waited < TimeoutWait /\ retries > 0
  /\ up' = Append(up, sent)
  /\ retries' = retries - 1 /\ since' = 0
  /\ UNCHANGED <<down, sent, waiting, waited, device, bounds>>

ExhaustedEarly == waited >= TimeoutWait \/ retries <= 1

Exhausted == waited >= TimeoutWait \/ retries = 0

(* ... or cancelled.                                                       *)
Cancel ==
  /\ waiting /\ since >= RetryTicks
  /\ Exhausted
  /\ waiting' = FALSE
  /\ UNCHANGED <<up, down, sent, retries, since, waited, device, bounds>>

(* ProcessMessage of a reply: it is dropped when nobody waits for it.      *)
ReceiveReply ==
  /\ down # <<>> /\ down' = Tail(down)
  /\ waiting' = (waiting /\ Head(down) # sent)
  /\ UNCHANGED <<up, sent, retries, since, waited, device, bounds>>

----------------------------------------------------------------------------
PurgedEarly(c) ==
  LET young == Keep(c, {i \in 1..Len(c) : c[i].age < CacheTicks})
  IN IF Len(young) > CacheEntries THEN SubSeq(young, 1, CacheEntries) ELSE young

(* PurgeCache: what is too old, and from the back what is too much.        *)
Purged(c) ==
  LET young == Keep(c, {i \in 1..Len(c) : c[i].age <= CacheTicks})
  IN IF Len(young) > CacheEntries THEN SubSeq(young, 1, CacheEntries) ELSE young

(* The cache is purged before the commands are read.                       *)
ProcessActivity ==
  /\ ~reading
  /\ cache' = Purged(cache)
  /\ reading' = TRUE /\ busy' = 0
  /\ UNCHANGED <<up, down, host, executed, working, bounds>>

(* ProcessPayload of a request whose reply is kept: it goes to the front,  *)
(* and is sent again.                                                      *)
ReplyAgain ==
  /\ reading /\ working = 0 /\ up # <<>> /\ Cached(Head(up))
  /\ up' = Tail(up) /\ down' = Append(down, Head(up))
  /\ cache' = <<[req |-> Head(up), age |-> 0]>>
              \o Keep(cache, {i \in 1..Len(cache) : cache[i].req # Head(up)})
  /\ UNCHANGED <<host, executed, reading, working, busy, bounds>>

(* ProcessPayload of another request: its handler begins ...               *)
Execute ==
  /\ reading /\ working = 0 /\ up # <<>> /\ ~Cached(Head(up))
  /\ up' = Tail(up)
  /\ working' = Head(up) /\ busy' = 0
  /\ executed' = [executed EXCEPT ![working'] = @ + 1]
  /\ UNCHANGED <<down, host, cache, reading, bounds>>

KeptTwice == <<[req |-> working, age |-> 0], [req |-> working, age |-> 0]>> \o cache

WithReply == <<[req |-> working, age |-> 0]>> \o cache

(* ... and ends with ReplyToCommand: TransmitMessage sends the reply and   *)
(* keeps it, unless the port did not take it or there is no memory.        *)
Reply ==
  /\ working # 0 /\ working' = 0
  /\ \/ /\ down' = Append(down, working)
        /\ cache' = WithReply
        /\ UNCHANGED <<lost, lostNow, faults>>
     \/ /\ faults < MaxFaults /\ faults' = faults + 1
        /\ down' = Append(down, working)
        /\ UNCHANGED <<cache, lost, lostNow>>
     \/ /\ faults < MaxFaults /\ faults' = faults + 1
        /\ lost' = lost + 1 /\ lostNow' = lostNow + 1
        /\ UNCHANGED <<down, cache>>
  /\ UNCHANGED <<up, host, executed, reading, busy>>

(* AdvanceState returns when nothing is left to read.                      *)
ProcessDone ==
  /\ reading /\ working = 0 /\ up = <<>>
  /\ reading' = FALSE /\ busy' = 0
  /\ UNCHANGED <<up, down, host, executed, cache, working, bounds>>

----------------------------------------------------------------------------
Lose ==
  /\ lost < MaxLost /\ lost' = lost + 1
  /\ \/ up # <<>> /\ up' = Tail(up) /\ UNCHANGED down
     \/ down # <<>> /\ down' = Tail(down) /\ UNCHANGED up
  /\ lostNow' = lostNow + 1
  /\ UNCHANGED <<host, device, faults>>

Older(ticks, most) == IF ticks < most THEN ticks + 1 ELSE ticks

(* Time passes.  The host takes a reply and wakes up, the device calls     *)
(* ProcessActivity and reads in the time they are given.                   *)
Tick ==
  /\ down = <<>>
  /\ waiting => since < RetryTicks + MaxLate
  /\ IF working # 0 THEN busy < MaxWork ELSE ~reading /\ busy < MaxBusy
  /\ busy' = busy + 1
  /\ since' = Older(since, RetryTicks + MaxLate)
  /\ waited' = Older(waited, TimeoutWait)
  /\ cache' = [i \in DOMAIN cache |->
                 [cache[i] EXCEPT !.age = Older(@, CacheTicks + 1)]]
  /\ UNCHANGED <<up, down, sent, waiting, retries, executed, reading, working, bounds>>

Init ==
  /\ up = <<>> /\ down = <<>>
  /\ sent = 0 /\ waiting = FALSE /\ retries = 0 /\ since = 0 /\ waited = 0
  /\ lostNow = 0 /\ lost = 0 /\ faults = 0
  /\ executed = [n \in 1..MaxRequests |-> 0]
  /\ cache = <<>> /\ reading = FALSE /\ working = 0 /\ busy = 0

Host == Request \/ Resend \/ Cancel \/ ReceiveReply
Device == ProcessActivity \/ ReplyAgain \/ Execute \/ Reply \/ ProcessDone

Next == Host \/ Device \/ Lose \/ Tick

Spec == Init /\ [][Next]_vars

----------------------------------------------------------------------------
TypeOK ==
  /\ up \in Seq(1..MaxRequests) /\ down \in Seq(1..MaxRequests)
  /\ sent \in 0..MaxRequests /\ waiting \in BOOLEAN
  /\ retries \in 0..Retries
  /\ since \in 0..RetryTicks + MaxLate /\ waited \in 0..TimeoutWait
  /\ executed \in [1..MaxRequests -> Nat]
  /\ cache \in Seq([req : 1..MaxRequests, age : 0..CacheTicks + 1])
  /\ \A i, j \in DOMAIN cache : cache[i].req = cache[j].req => i = j
  /\ reading \in BOOLEAN /\ working \in 0..MaxRequests
  /\ working # 0 => reading /\ ~Cached(working)

(* The device executes a request once, however often it is sent; only a    *)
(* reply that could not be kept may cost another execution.                *)
AtMostOnce == \A n \in 1..MaxRequests : executed[n] <= 1 + faults

(* The host gives a request up only when every sending of it has cost a    *)
(* message.                                                                *)
GivenUpWhenLost == [][Cancel => lostNow > Retries]_vars
=============================================================================
