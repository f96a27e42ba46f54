-------------------------- MODULE MessagingProofs --------------------------
(***************************************************************************)
(* What a request of the host costs, proved for any cache, any number of   *)
(* retries and any times (CLR/Messaging/Messaging.cpp: ProcessPayload,     *)
(* ReplyToCommand, PurgeCache; Framework/Debugger/Engine.cs: the retries). *)
(*                                                                         *)
(* The requests reach the device in their order, so only the latest one it *)
(* has executed may come again, and the reply to that one is at the front  *)
(* of the cache.  PurgeCache drops it when it is too old: it is at most as *)
(* old as the time in which the host uses up its retries.                  *)
(*                                                                         *)
(* When the device answers before the host sends again, one message is     *)
(* under way at a time, and each sending but that one has cost a message.  *)
(***************************************************************************)
EXTENDS Messaging, DblLinkedListProofs

Entry == [req : 1..MaxRequests, age : 0..CacheTicks + 1]

----------------------------------------------------------------------------
(* The requests on a link are in the order in which they were sent.        *)
Rising(s) == \A i, j \in 1..Len(s) : i <= j => s[i] <= s[j]

(* A message is sent, and one is taken from the front.                     *)
LEMMA Sending ==
  ASSUME NEW N \in Nat, NEW s \in Seq(1..N), NEW e \in 1..N
  PROVE  /\ Append(s, e) \in Seq(1..N) /\ Len(Append(s, e)) = Len(s) + 1
         /\ Nodes(Append(s, e)) = Nodes(s) \cup {e}
         /\ Append(s, e) # <<>> /\ Len(s) \in Nat
         /\ Rising(s) /\ (\A n \in Nodes(s) : n <= e) => Rising(Append(s, e))
<1> DEFINE r == Append(s, e)
<1>1. /\ r \in Seq(1..N) /\ Len(r) = Len(s) + 1 /\ Len(s) \in Nat
      /\ \A i \in 1..Len(s) : r[i] = s[i]
      /\ r[Len(s) + 1] = e
  BY AppendProperties
<1>2. r # <<>>
  OBVIOUS
<1> HIDE DEF r
<1>3. Nodes(r) = Nodes(s) \cup {e}
  <2>1. \A i \in 1..Len(r) : i \in 1..Len(s) \/ i = Len(s) + 1
    BY <1>1
  <2>2. \A i \in 1..Len(s) : i \in 1..Len(r)
    BY <1>1
  <2>3. Len(s) + 1 \in 1..Len(r)
    BY <1>1
  <2>4. QED
    BY <1>1, <2>1, <2>2, <2>3 DEF Nodes
<1>4. ASSUME Rising(s), \A n \in Nodes(s) : n <= e PROVE Rising(r)
  <2> SUFFICES ASSUME NEW i \in 1..Len(r), NEW j \in 1..Len(r), i <= j
               PROVE  r[i] <= r[j]
    BY DEF Rising
  <2>1. CASE j \in 1..Len(s)
    <3>1. i \in 1..Len(s)
      BY <1>1, <2>1
    <3>2. QED
      BY <1>1, <1>4, <2>1, <3>1 DEF Rising
  <2>2. CASE j = Len(s) + 1 /\ i \in 1..Len(s)
    <3>1. s[i] \in Nodes(s)
      BY <2>2 DEF Nodes
    <3>2. QED
      BY <1>1, <1>4, <2>2, <3>1
  <2>3. CASE j = Len(s) + 1 /\ i = Len(s) + 1
    BY <1>1, <2>3
  <2>4. QED
    BY <1>1, <2>1, <2>2, <2>3
<1>5. QED
  BY <1>1, <1>2, <1>3, <1>4 DEF r

LEMMA Taking ==
  ASSUME NEW N \in Nat, NEW s \in Seq(1..N), s # <<>>
  PROVE  /\ Tail(s) \in Seq(1..N) /\ Len(Tail(s)) = Len(s) - 1 /\ Len(s) \in Nat \ {0}
         /\ Head(s) \in 1..N /\ Head(s) \in Nodes(s) /\ Nodes(Tail(s)) \subseteq Nodes(s)
         /\ Len(s) = 1 => Tail(s) = <<>>
         /\ Rising(s) => Rising(Tail(s)) /\ \A n \in Nodes(s) : Head(s) <= n
<1> DEFINE r == Tail(s)
<1>1. /\ r \in Seq(1..N) /\ Len(r) = Len(s) - 1 /\ Len(s) \in Nat \ {0}
      /\ \A i \in 1..Len(r) : r[i] = s[i + 1] /\ i + 1 \in 1..Len(s)
      /\ Head(s) = s[1] /\ 1 \in 1..Len(s) /\ Head(s) \in 1..N
  OBVIOUS
<1>2. Len(s) = 1 => r = <<>>
  BY <1>1
<1> HIDE DEF r
<1>3. Nodes(r) \subseteq Nodes(s) /\ Head(s) \in Nodes(s)
  <2>1. ASSUME NEW x \in Nodes(r) PROVE x \in Nodes(s)
    <3>1. PICK i \in 1..Len(r) : x = r[i]
      BY <2>1 DEF Nodes
    <3>2. QED
      BY <1>1, <3>1 DEF Nodes
  <2>2. QED
    BY <1>1, <2>1 DEF Nodes
<1>4. ASSUME Rising(s) PROVE Rising(r) /\ \A n \in Nodes(s) : Head(s) <= n
  <2>1. ASSUME NEW i \in 1..Len(r), NEW j \in 1..Len(r), i <= j
        PROVE  r[i] <= r[j]
    <3>1. /\ i + 1 <= j + 1 /\ i + 1 \in 1..Len(s) /\ j + 1 \in 1..Len(s)
          /\ r[i] = s[i + 1] /\ r[j] = s[j + 1]
      BY <1>1, <2>1
    <3>2. s[i + 1] <= s[j + 1]
      BY <1>4, <3>1 DEF Rising
    <3>3. QED
      BY <3>1, <3>2
  <2>2. ASSUME NEW i \in 1..Len(s) PROVE Head(s) <= s[i]
    <3>1. 1 <= i /\ 1 \in 1..Len(s)
      BY <1>1
    <3>2. s[1] <= s[i]
      BY <1>4, <3>1 DEF Rising
    <3>3. QED
      BY <1>1, <3>2
  <2>3. QED
    BY <2>1, <2>2 DEF Rising, Nodes
<1>5. QED
  BY <1>1, <1>2, <1>3, <1>4 DEF r

(* What is assumed of the constants.                                       *)
LEMMA Parameters ==
  /\ MaxRequests \in Nat /\ Retries \in Nat /\ RetryTicks \in Nat /\ RetryTicks > 0
  /\ CacheTicks \in Nat /\ CacheEntries \in Nat /\ CacheEntries > 0
  /\ MaxBusy \in Nat /\ MaxWork \in Nat /\ MaxLate \in Nat
  /\ RetryTicks + MaxLate \in Nat /\ CacheTicks + 1 \in Nat
  /\ TimeoutWait \in Nat
<1>1. /\ MaxRequests \in Nat /\ Retries \in Nat /\ RetryTicks \in Nat /\ RetryTicks > 0
      /\ CacheTicks \in Nat /\ CacheEntries \in Nat /\ CacheEntries > 0
      /\ MaxBusy \in Nat /\ MaxWork \in Nat /\ MaxLate \in Nat
  BY MessagingAssumption
<1>2. \A m, n \in Nat : m * n \in Nat
  OBVIOUS
<1>3. TimeoutWait \in Nat
  <2>1. (IF Retries = 0 THEN 1 ELSE 2 * Retries) \in Nat
    BY <1>1
  <2>2. QED
    BY <1>1, <1>2, <2>1 DEF TimeoutWait
<1>4. QED
  BY <1>1, <1>3

(* A counter that stops at m.                                              *)
LEMMA Growing ==
  ASSUME NEW m \in Nat, NEW t \in 0..m
  PROVE  /\ Older(t, m) \in 0..m /\ Older(t, m) <= t + 1
         /\ t < m => Older(t, m) = t + 1
BY DEF Older

----------------------------------------------------------------------------
(* d is what is left of the cache c when replies are taken out.            *)
Thinned(d, c) ==
  /\ d \in Seq(Entry)
  /\ \A k \in 1..Len(d) : \E i \in 1..Len(c) : d[k] = c[i]
  /\ \A k, l \in 1..Len(d) : k < l =>
       \E i, j \in 1..Len(c) : i < j /\ d[k] = c[i] /\ d[l] = c[j]

(* Keep leaves the replies that stay in their order.                       *)
LEMMA KeepThins ==
  ASSUME NEW c \in Seq(Entry), NEW P \in SUBSET (1..Len(c))
  PROVE  /\ Thinned(Keep(c, P), c)
         /\ \A i \in P : \E k \in 1..Len(Keep(c, P)) : Keep(c, P)[k] = c[i]
         /\ \A k \in 1..Len(Keep(c, P)) : \E i \in P : Keep(c, P)[k] = c[i]
         /\ 1 \in P => Len(Keep(c, P)) > 0 /\ Keep(c, P)[1] = c[1]
<1> DEFINE d == Keep(c, P)
           K == 1..Cardinality(P)
<1>1. d \in Seq(Entry) /\ Len(d) = Cardinality(P) /\ Cardinality(P) \in Nat
  BY KeepProperties
<1>2. PICK f \in Bijection(K, P) : /\ \A k \in K : d[k] = c[f[k]]
                                  /\ \A k, l \in K : k < l => f[k] < f[l]
  BY KeepProperties
<1>3. f \in [K -> P] /\ \A i \in P : \E k \in K : f[k] = i
  BY <1>2 DEF Bijection, Surjection, Injection
<1> HIDE DEF d
<1>4. Thinned(d, c)
  <2>1. ASSUME NEW k \in K PROVE f[k] \in 1..Len(c) /\ d[k] = c[f[k]]
    BY <1>2, <1>3
  <2>2. ASSUME NEW k \in K, NEW l \in K, k < l
        PROVE  \E i, j \in 1..Len(c) : i < j /\ d[k] = c[i] /\ d[l] = c[j]
    BY <1>2, <2>1, <2>2
  <2>3. QED
    BY <1>1, <2>1, <2>2 DEF Thinned
<1>5. ASSUME 1 \in P PROVE Len(d) > 0 /\ d[1] = c[1]
  <2>1. PICK k \in K : f[k] = 1
    BY <1>3, <1>5
  <2>2. 1 \in K /\ k >= 1
    BY <1>1
  <2>3. f[1] \in 1..Len(c) /\ Len(c) \in Nat
    <3>1. f[1] \in P
      BY <1>3, <2>2
    <3>2. Len(c) \in Nat
      BY LenProperties
    <3>3. QED
      BY <3>1, <3>2
  <2>4. k = 1
    <3>1. CASE k > 1
      <4>1. f[1] < f[k]
        BY <1>2, <2>2, <3>1
      <4>2. QED
        BY <2>1, <2>3, <4>1
    <3>2. QED
      BY <2>2, <3>1
  <2>5. QED
    BY <1>1, <1>2, <2>1, <2>2, <2>4
<1>6. /\ \A i \in P : \E k \in 1..Len(d) : d[k] = c[i]
      /\ \A k \in 1..Len(d) : \E i \in P : d[k] = c[i]
  <2>1. ASSUME NEW i \in P PROVE \E k \in 1..Len(d) : d[k] = c[i]
    BY <1>1, <1>2, <1>3
  <2>2. ASSUME NEW k \in 1..Len(d) PROVE \E i \in P : d[k] = c[i]
    <3>1. k \in K /\ f[k] \in P
      BY <1>1, <1>3
    <3>2. QED
      BY <1>2, <3>1
  <2>3. QED
    BY <2>1, <2>2
<1>7. QED
  BY <1>4, <1>5, <1>6 DEF d

(* PurgeCache leaves the reply at the front, unless it is too old.         *)
LEMMA Purging ==
  ASSUME NEW c \in Seq(Entry)
  PROVE  /\ Thinned(Purged(c), c)
         /\ c # <<>> /\ c[1].age <= CacheTicks =>
              Len(Purged(c)) > 0 /\ Purged(c)[1] = c[1]
<1> DEFINE P == {i \in 1..Len(c) : c[i].age <= CacheTicks}
           d == Keep(c, P)
           r == SubSeq(d, 1, CacheEntries)
<1>1. /\ Thinned(d, c)
      /\ c # <<>> /\ c[1].age <= CacheTicks => Len(d) > 0 /\ d[1] = c[1]
  <2>1. /\ Thinned(d, c)
        /\ 1 \in P => Len(d) > 0 /\ d[1] = c[1]
    BY KeepThins
  <2>2. c # <<>> => 1 \in 1..Len(c)
    OBVIOUS
  <2>3. QED
    BY <2>1, <2>2
<1>2. Purged(c) = IF Len(d) > CacheEntries THEN r ELSE d
  BY DEF Purged
<1> HIDE DEF d
<1>3. CacheEntries \in Nat \ {0} /\ d \in Seq(Entry)
  BY <1>1, Parameters DEF Thinned
<1>4. ASSUME Len(d) > CacheEntries
      PROVE  Thinned(r, c) /\ Len(r) > 0 /\ r[1] = d[1]
  <2>1. \A i \in 1..CacheEntries : i \in 1..Len(d) /\ d[i] \in Entry
    BY <1>3, <1>4
  <2>2. /\ r \in Seq(Entry) /\ Len(r) = CacheEntries
        /\ \A i \in 1..CacheEntries : r[i] = d[i]
    <3>1. /\ r \in Seq(Entry)
          /\ Len(r) = IF 1 <= CacheEntries THEN CacheEntries - 1 + 1 ELSE 0
          /\ \A i \in 1..CacheEntries - 1 + 1 : r[i] = d[1 + i - 1]
      BY <1>3, <2>1, SubSeqProperties
    <3>2. QED
      BY <1>3, <3>1
  <2> HIDE DEF r
  <2>3. \A k \in 1..Len(r) : k \in 1..Len(d) /\ r[k] = d[k]
    BY <2>1, <2>2
  <2>4. Thinned(r, c)
    <3>1. ASSUME NEW k \in 1..Len(r), NEW l \in 1..Len(r), k < l
          PROVE  \E i, j \in 1..Len(c) : i < j /\ r[k] = c[i] /\ r[l] = c[j]
      <4>1. \E i, j \in 1..Len(c) : i < j /\ d[k] = c[i] /\ d[l] = c[j]
        BY <1>1, <2>3, <3>1 DEF Thinned
      <4>2. QED
        BY <2>3, <4>1
    <3>2. ASSUME NEW k \in 1..Len(r) PROVE \E i \in 1..Len(c) : r[k] = c[i]
      <4>1. PICK i \in 1..Len(c) : d[k] = c[i]
        BY <1>1, <2>3 DEF Thinned
      <4>2. QED
        BY <2>3, <4>1
    <3>3. QED
      BY <2>2, <3>1, <3>2 DEF Thinned
  <2>5. 1 \in 1..CacheEntries
    BY <1>3
  <2>6. QED
    BY <1>3, <2>2, <2>4, <2>5
<1>5. CASE Len(d) > CacheEntries
  BY <1>1, <1>2, <1>4, <1>5
<1>6. CASE ~(Len(d) > CacheEntries)
  BY <1>1, <1>2, <1>6
<1>7. QED
  BY <1>5, <1>6

(* The requests whose replies are in the cache; the latest is in front.    *)
Replies(c) == {c[i].req : i \in 1..Len(c)}
Falling(c) == \A i, j \in 1..Len(c) : i < j => c[i].req > c[j].req

(* A reply that is kept is the request's number and its age.               *)
LEMMA EntryFields ==
  ASSUME NEW e \in Entry
  PROVE  e.req \in 1..MaxRequests /\ e.age \in 0..CacheTicks + 1
BY DEF Entry

(* The order and the types of a cache are those of what is left of it.     *)
LEMMA Thinning ==
  ASSUME NEW c \in Seq(Entry), NEW d, Thinned(d, c)
  PROVE  /\ Replies(d) \subseteq Replies(c)
         /\ Falling(c) => Falling(d)
         /\ Falling(c) /\ Len(d) > 0 =>
              /\ Len(c) > 0
              /\ d[1] = c[1] \/ d[1].req < c[1].req
<1>1. ASSUME NEW n \in Replies(d) PROVE n \in Replies(c)
  <2>1. PICK k \in 1..Len(d) : n = d[k].req
    BY <1>1 DEF Replies
  <2>2. PICK i \in 1..Len(c) : d[k] = c[i]
    BY DEF Thinned
  <2>3. QED
    BY <2>1, <2>2 DEF Replies
<1>2. ASSUME Falling(c) PROVE Falling(d)
  <2> SUFFICES ASSUME NEW k \in 1..Len(d), NEW l \in 1..Len(d), k < l
               PROVE  d[k].req > d[l].req
    BY DEF Falling
  <2>1. PICK i \in 1..Len(c), j \in 1..Len(c) : i < j /\ d[k] = c[i] /\ d[l] = c[j]
    BY DEF Thinned
  <2>2. QED
    BY <1>2, <2>1 DEF Falling
<1>3. ASSUME Falling(c), Len(d) > 0
      PROVE  Len(c) > 0 /\ (d[1] = c[1] \/ d[1].req < c[1].req)
  <2>1. Len(d) \in Nat /\ Len(c) \in Nat
    BY LenProperties DEF Thinned
  <2>2. PICK i \in 1..Len(c) : d[1] = c[i]
    BY <1>3, <2>1 DEF Thinned
  <2>3. 1 \in 1..Len(c) /\ (i = 1 \/ 1 < i)
    BY <2>1, <2>2
  <2>4. CASE i = 1
    BY <2>1, <2>2, <2>3, <2>4
  <2>5. CASE 1 < i
    <3>1. c[1].req > c[i].req
      BY <1>3, <2>3, <2>5 DEF Falling
    <3>2. c[1].req \in 1..MaxRequests /\ c[i].req \in 1..MaxRequests
      BY <2>3, EntryFields
    <3>3. QED
      BY <2>1, <2>2, <2>3, <3>1, <3>2
  <2>6. QED
    BY <2>3, <2>4, <2>5
<1>4. QED
  BY <1>1, <1>2, <1>3

(* In the cache the reply at the front is that to the latest request.      *)
LEMMA Latest ==
  ASSUME NEW c \in Seq(Entry), Falling(c)
  PROVE  /\ Replies(c) \subseteq 1..MaxRequests
         /\ c = <<>> <=> Len(c) = 0
         /\ Len(c) > 0 => c[1] \in Entry /\ c[1].req \in Replies(c)
         /\ \A n \in Replies(c) : Len(c) > 0 /\ n <= c[1].req
<1>1. /\ Len(c) \in Nat /\ (c = <<>> <=> Len(c) = 0)
      /\ \A i \in 1..Len(c) : c[i] \in Entry
  OBVIOUS
<1>2. \A i \in 1..Len(c) : c[i].req \in 1..MaxRequests
  BY <1>1, EntryFields
<1>3. ASSUME NEW n \in Replies(c) PROVE Len(c) > 0 /\ n <= c[1].req
  <2>1. PICK i \in 1..Len(c) : n = c[i].req
    BY <1>3 DEF Replies
  <2>2. 1 \in 1..Len(c) /\ (i = 1 \/ 1 < i) /\ Len(c) > 0
    BY <1>1, <2>1
  <2>3. CASE 1 < i
    <3>1. c[1].req > c[i].req
      BY <2>2, <2>3 DEF Falling
    <3>2. QED
      BY <1>2, <2>1, <2>2, <3>1
  <2>4. QED
    BY <1>2, <2>1, <2>2, <2>3
<1>4. ASSUME Len(c) > 0 PROVE c[1] \in Entry /\ c[1].req \in Replies(c)
  <2>1. 1 \in 1..Len(c)
    BY <1>1, <1>4
  <2>2. QED
    BY <1>1, <2>1 DEF Replies
<1>5. QED
  BY <1>1, <1>2, <1>3, <1>4 DEF Replies

(* A reply is put at the front.                                            *)
LEMMA Fronting ==
  ASSUME NEW d \in Seq(Entry), NEW n \in 1..MaxRequests
  PROVE  LET r == <<[req |-> n, age |-> 0]>> \o d
         IN /\ r \in Seq(Entry) /\ Len(r) > 0 /\ r # <<>>
            /\ r[1] = [req |-> n, age |-> 0]
            /\ Replies(r) = Replies(d) \cup {n}
            /\ Falling(d) /\ (\A m \in Replies(d) : m < n) => Falling(r)
<1> DEFINE e == [req |-> n, age |-> 0]
           r == <<e>> \o d
<1>1. e \in Entry /\ e.req = n
  BY Parameters DEF Entry
<1> HIDE DEF e
<1>2. /\ r \in Seq(Entry) /\ Len(r) = Len(d) + 1 /\ r[1] = e
      /\ \A i \in 2..Len(d) + 1 : r[i] = d[i - 1]
  BY <1>1, FrontProperties
<1>3. Len(d) \in Nat /\ r # <<>>
  BY <1>2, LenProperties
<1> HIDE DEF r
<1>4. \A i \in 1..Len(r) : i = 1 \/ (i \in 2..Len(d) + 1 /\ i - 1 \in 1..Len(d))
  BY <1>2, <1>3
<1>5. Replies(r) = Replies(d) \cup {n}
  <2>1. ASSUME NEW m \in Replies(r) PROVE m \in Replies(d) \cup {n}
    <3>1. PICK i \in 1..Len(r) : m = r[i].req
      BY <2>1 DEF Replies
    <3>2. QED
      BY <1>1, <1>2, <1>4, <3>1 DEF Replies
  <2>2. ASSUME NEW m \in Replies(d) PROVE m \in Replies(r)
    <3>1. PICK i \in 1..Len(d) : m = d[i].req
      BY <2>2 DEF Replies
    <3>2. i + 1 \in 2..Len(d) + 1 /\ i + 1 \in 1..Len(r) /\ (i + 1) - 1 = i
      BY <1>2, <1>3
    <3>3. r[i + 1] = d[i]
      BY <1>2, <3>2
    <3>4. QED
      BY <3>1, <3>2, <3>3 DEF Replies
  <2>3. 1 \in 1..Len(r)
    BY <1>2, <1>3
  <2>4. n \in Replies(r)
    BY <1>1, <1>2, <2>3 DEF Replies
  <2>5. QED
    BY <2>1, <2>2, <2>4
<1>6. ASSUME Falling(d), \A m \in Replies(d) : m < n PROVE Falling(r)
  <2> SUFFICES ASSUME NEW i \in 1..Len(r), NEW j \in 1..Len(r), i < j
               PROVE  r[i].req > r[j].req
    BY DEF Falling
  <2>1. j \in 2..Len(d) + 1 /\ j - 1 \in 1..Len(d) /\ r[j] = d[j - 1]
    BY <1>2, <1>3, <1>4
  <2>2. CASE i = 1
    <3>1. d[j - 1].req \in Replies(d)
      BY <2>1 DEF Replies
    <3>2. d[j - 1].req < n
      BY <1>6, <3>1
    <3>3. d[j - 1].req \in 1..MaxRequests
      BY <2>1, EntryFields
    <3>4. QED
      BY <1>1, <1>2, <2>1, <2>2, <3>2, <3>3
  <2>3. CASE i # 1
    <3>1. i - 1 \in 1..Len(d) /\ r[i] = d[i - 1] /\ i - 1 < j - 1
      BY <1>2, <1>3, <1>4, <2>3
    <3>2. QED
      BY <1>6, <2>1, <3>1 DEF Falling
  <2>4. QED
    BY <2>2, <2>3
<1>7. QED
  BY <1>2, <1>3, <1>5, <1>6 DEF r, e

(* A tick makes every reply older.                                         *)
Aged(c) == [i \in DOMAIN c |-> [c[i] EXCEPT !.age = Older(@, CacheTicks + 1)]]

(* A tick takes no reply out and changes no order.                         *)
LEMMA Aging ==
  ASSUME NEW c \in Seq(Entry)
  PROVE  /\ Aged(c) \in Seq(Entry) /\ Len(Aged(c)) = Len(c)
         /\ Replies(Aged(c)) = Replies(c)
         /\ Falling(c) => Falling(Aged(c))
         /\ Len(c) > 0 => /\ Aged(c)[1].req = c[1].req
                          /\ Aged(c)[1].age <= c[1].age + 1
<1> DEFINE r == Aged(c)
<1>1. Len(c) \in Nat /\ DOMAIN c = 1..Len(c)
  BY LenProperties
<1>2. ASSUME NEW i \in 1..Len(c)
      PROVE  r[i] \in Entry /\ r[i].req = c[i].req /\ r[i].age <= c[i].age + 1
  <2>1. c[i] \in Entry /\ c[i].age \in 0..CacheTicks + 1 /\ CacheTicks + 1 \in Nat
    BY <1>1, Parameters, EntryFields
  <2>2. r[i] = [c[i] EXCEPT !.age = Older(c[i].age, CacheTicks + 1)]
    BY <1>1 DEF Aged
  <2>3. Older(c[i].age, CacheTicks + 1) \in 0..CacheTicks + 1
    BY <2>1, Growing
  <2>4. Older(c[i].age, CacheTicks + 1) <= c[i].age + 1
    BY <2>1, Growing
  <2>5. QED
    BY <2>1, <2>2, <2>3, <2>4 DEF Entry
<1>3. r \in Seq(Entry) /\ Len(r) = Len(c)
  <2>1. r = [i \in 1..Len(c) |-> r[i]]
    BY <1>1 DEF Aged
  <2>2. r \in [1..Len(c) -> Entry]
    BY <1>2, <2>1
  <2>3. QED
    BY <1>1, <2>2
<1> HIDE DEF r
<1>4. Replies(r) = Replies(c)
  BY <1>2, <1>3 DEF Replies
<1>5. Falling(c) => Falling(r)
  BY <1>2, <1>3 DEF Falling
<1>6. Len(c) > 0 => 1 \in 1..Len(c)
  BY <1>1
<1>7. QED
  BY <1>2, <1>3, <1>4, <1>5, <1>6 DEF r

----------------------------------------------------------------------------
(* The types, but that no reply is kept twice, which is part of Kept.      *)
Links == up \in Seq(1..MaxRequests) /\ down \in Seq(1..MaxRequests)

HostTyped ==
  /\ sent \in 0..MaxRequests /\ waiting \in BOOLEAN
  /\ waiting => sent > 0
  /\ retries \in 0..Retries
  /\ since \in 0..RetryTicks + MaxLate /\ waited \in 0..TimeoutWait

DeviceTyped ==
  /\ executed \in [1..MaxRequests -> Nat]
  /\ cache \in Seq(Entry)
  /\ reading \in BOOLEAN /\ working \in 0..MaxRequests
  /\ busy \in Nat

BoundsTyped == lostNow \in Nat /\ lost \in Nat /\ faults \in Nat

Typed == Links /\ HostTyped /\ DeviceTyped /\ BoundsTyped

(* Every step keeps the types.                                             *)
LEMMA TypesKept ==
  ASSUME Typed, [Next]_vars
  PROVE  Typed'
<1>1. /\ MaxRequests \in Nat /\ Retries \in Nat /\ RetryTicks \in Nat /\ RetryTicks > 0
      /\ RetryTicks + MaxLate \in Nat /\ TimeoutWait \in Nat
  BY Parameters
<1>2. TimeoutWait' = TimeoutWait
  BY DEF TimeoutWait
<1>3. CASE Request
  <2>1. /\ sent \in 0..MaxRequests /\ sent < MaxRequests /\ sent' = sent + 1
        /\ waiting' = TRUE /\ retries' = Retries /\ since' = 0 /\ waited' = 0
    BY <1>3 DEF Request, Typed, HostTyped
  <2>2. sent' \in 1..MaxRequests /\ HostTyped'
    BY <1>1, <1>2, <2>1 DEF HostTyped
  <2>3. Links'
    BY <1>1, <1>3, <2>2, Sending DEF Request, Typed, Links
  <2>4. DeviceTyped' /\ BoundsTyped'
    BY <1>3 DEF Request, device, Typed, DeviceTyped, BoundsTyped
  <2>5. QED
    BY <2>2, <2>3, <2>4 DEF Typed
<1>4. CASE Resend
  <2>1. /\ waiting /\ sent \in 1..MaxRequests /\ retries > 0
        /\ retries' = retries - 1 /\ since' = 0
        /\ UNCHANGED <<sent, waiting, waited>>
    BY <1>1, <1>4 DEF Resend, Typed, HostTyped
  <2>2. HostTyped'
    BY <1>1, <1>2, <2>1 DEF Typed, HostTyped
  <2>3. Links'
    BY <1>1, <1>4, <2>1, Sending DEF Resend, Typed, Links
  <2>4. DeviceTyped' /\ BoundsTyped'
    BY <1>4 DEF Resend, device, bounds, Typed, DeviceTyped, BoundsTyped
  <2>5. QED
    BY <2>2, <2>3, <2>4 DEF Typed
<1>5. CASE Cancel
  BY <1>2, <1>5 DEF Cancel, device, bounds, Typed, Links, HostTyped, DeviceTyped, BoundsTyped
<1>6. CASE ReceiveReply
  <2>1. HostTyped'
    BY <1>2, <1>6 DEF ReceiveReply, Typed, HostTyped
  <2>2. Links'
    BY <1>1, <1>6, Taking DEF ReceiveReply, Typed, Links
  <2>3. DeviceTyped' /\ BoundsTyped'
    BY <1>6 DEF ReceiveReply, device, bounds, Typed, DeviceTyped, BoundsTyped
  <2>4. QED
    BY <2>1, <2>2, <2>3 DEF Typed
<1>7. CASE ProcessActivity
  <2>1. cache' \in Seq(Entry)
    BY <1>7, Purging DEF ProcessActivity, Typed, DeviceTyped, Thinned
  <2>2. DeviceTyped'
    BY <1>7, <2>1 DEF ProcessActivity, Typed, DeviceTyped
  <2>3. Links' /\ HostTyped' /\ BoundsTyped'
    BY <1>2, <1>7 DEF ProcessActivity, host, bounds, Typed, Links, HostTyped, BoundsTyped
  <2>4. QED
    BY <2>2, <2>3 DEF Typed
<1>8. CASE ReplyAgain
  <2>1. /\ Head(up) \in 1..MaxRequests /\ cache \in Seq(Entry)
        /\ Tail(up) \in Seq(1..MaxRequests)
        /\ Append(down, Head(up)) \in Seq(1..MaxRequests)
    BY <1>1, <1>8, Taking, Sending DEF ReplyAgain, Typed, Links, DeviceTyped
  <2>2. Keep(cache, {i \in 1..Len(cache) : cache[i].req # Head(up)}) \in Seq(Entry)
    BY <2>1, KeepThins DEF Thinned
  <2>3. cache' \in Seq(Entry)
    BY <1>8, <2>1, <2>2, Fronting DEF ReplyAgain
  <2>4. DeviceTyped' /\ Links'
    BY <1>8, <2>1, <2>3 DEF ReplyAgain, Typed, DeviceTyped, Links
  <2>5. HostTyped' /\ BoundsTyped'
    BY <1>2, <1>8 DEF ReplyAgain, host, bounds, Typed, HostTyped, BoundsTyped
  <2>6. QED
    BY <2>4, <2>5 DEF Typed
<1>9. CASE Execute
  <2>1. Head(up) \in 1..MaxRequests /\ Tail(up) \in Seq(1..MaxRequests)
    BY <1>1, <1>9, Taking DEF Execute, Typed, Links
  <2>2. DeviceTyped' /\ Links'
    BY <1>9, <2>1 DEF Execute, Typed, DeviceTyped, Links
  <2>3. HostTyped' /\ BoundsTyped'
    BY <1>2, <1>9 DEF Execute, host, bounds, Typed, HostTyped, BoundsTyped
  <2>4. QED
    BY <2>2, <2>3 DEF Typed
<1>10. CASE Reply
  <2>1. working \in 1..MaxRequests /\ working' = 0
    BY <1>1, <1>10 DEF Reply, Typed, DeviceTyped
  <2>2. Append(down, working) \in Seq(1..MaxRequests)
    BY <1>1, <2>1, Sending DEF Typed, Links
  <2>3. WithReply \in Seq(Entry)
    BY <2>1, Fronting DEF WithReply, Typed, DeviceTyped
  <2>4. /\ cache' \in {cache, WithReply} /\ down' \in {down, Append(down, working)}
        /\ UNCHANGED <<up, host, executed, reading, busy>>
    BY <1>10 DEF Reply
  <2>5. DeviceTyped'
    BY <1>1, <2>1, <2>3, <2>4 DEF Typed, DeviceTyped
  <2>6. Links' /\ HostTyped'
    BY <1>2, <2>2, <2>4 DEF Typed, Links, HostTyped, host
  <2>7. BoundsTyped'
    <3>1. lostNow \in Nat /\ lost \in Nat /\ faults \in Nat
      BY DEF Typed, BoundsTyped
    <3>2. /\ faults' = faults \/ faults' = faults + 1
          /\ \/ UNCHANGED <<lost, lostNow>>
             \/ lost' = lost + 1 /\ lostNow' = lostNow + 1
      BY <1>10 DEF Reply
    <3>3. QED
      BY <3>1, <3>2 DEF BoundsTyped
  <2>8. QED
    BY <2>5, <2>6, <2>7 DEF Typed
<1>11. CASE ProcessDone
  BY <1>2, <1>11 DEF ProcessDone, host, bounds, Typed, Links, HostTyped, DeviceTyped, BoundsTyped
<1>12. CASE Lose
  <2>1. Links'
    <3>1. CASE up # <<>> /\ up' = Tail(up) /\ UNCHANGED down
      BY <1>1, <3>1, Taking DEF Typed, Links
    <3>2. CASE down # <<>> /\ down' = Tail(down) /\ UNCHANGED up
      BY <1>1, <3>2, Taking DEF Typed, Links
    <3>3. QED
      BY <1>12, <3>1, <3>2 DEF Lose
  <2>2. HostTyped' /\ DeviceTyped' /\ BoundsTyped'
    BY <1>2, <1>12 DEF Lose, host, device, Typed, HostTyped, DeviceTyped, BoundsTyped
  <2>3. QED
    BY <2>1, <2>2 DEF Typed
<1>13. CASE Tick
  <2>1. cache' \in Seq(Entry)
    BY <1>13, Aging DEF Tick, Aged, Typed, DeviceTyped
  <2>2. DeviceTyped' /\ BoundsTyped' /\ Links'
    BY <1>13, <2>1 DEF Tick, bounds, Typed, DeviceTyped, BoundsTyped, Links
  <2>3. since' \in 0..RetryTicks + MaxLate /\ waited' \in 0..TimeoutWait
    BY <1>1, <1>13, Growing DEF Tick, Typed, HostTyped
  <2>4. HostTyped'
    BY <1>2, <1>13, <2>3 DEF Tick, Typed, HostTyped
  <2>5. QED
    BY <2>2, <2>4 DEF Typed
<1>14. CASE UNCHANGED vars
  BY <1>2, <1>14 DEF vars, host, device, bounds, Typed, Links, HostTyped, DeviceTyped, BoundsTyped
<1>15. QED
  BY <1>3, <1>4, <1>5, <1>6, <1>7, <1>8, <1>9, <1>10, <1>11, <1>12, <1>13, <1>14
     DEF Next, Host, Device

----------------------------------------------------------------------------
(* The requests reach the device in their order: what it has executed is   *)
(* not later than what is on its way.                                      *)
Ordered ==
  /\ Rising(up)
  /\ \A n \in Nodes(up) : n <= sent
  /\ \A m \in 1..MaxRequests :
       executed[m] > 0 => m <= sent /\ \A n \in Nodes(up) : m <= n

(* Replies are kept of what was executed, the latest in front; the request *)
(* that is executed is later than all of them.                             *)
Kept ==
  /\ Falling(cache)
  /\ \A n \in Replies(cache) : executed[n] > 0
  /\ working # 0 => /\ reading /\ working \notin Replies(cache)
                    /\ executed[working] > 0
                    /\ \A m \in 1..MaxRequests : executed[m] > 0 => m <= working

(* A request is put behind the others, with the last number.               *)
LEMMA OrderedKept ==
  ASSUME Typed, Ordered, [Next]_vars
  PROVE  Ordered'
<1>1. /\ up \in Seq(1..MaxRequests) /\ MaxRequests \in Nat /\ sent \in 0..MaxRequests
      /\ executed \in [1..MaxRequests -> Nat]
  BY Parameters DEF Typed, Links, HostTyped, DeviceTyped
<1>2. Nodes(up)' = Nodes(up') /\ Rising(up)' = Rising(up')
  BY DEF Nodes, Rising
<1>3. \A n \in Nodes(up) : n \in 1..MaxRequests
  BY <1>1, ElementOfSeq DEF Nodes
<1>4. ASSUME NEW e \in 1..MaxRequests, e = sent', sent \in 0..e, up' = Append(up, e),
             UNCHANGED executed
      PROVE  Ordered'
  <2>1. \A n \in Nodes(up) : n <= e
    BY <1>1, <1>3, <1>4 DEF Ordered
  <2>2. Rising(up') /\ Nodes(up') = Nodes(up) \cup {e}
    BY <1>1, <1>4, <2>1, Sending DEF Ordered
  <2>3. ASSUME NEW m \in 1..MaxRequests, executed[m] > 0
        PROVE  m <= e /\ \A n \in Nodes(up') : m <= n
    BY <1>1, <1>3, <1>4, <2>2, <2>3 DEF Ordered
  <2>4. QED
    BY <1>1, <1>2, <1>4, <2>1, <2>2, <2>3 DEF Ordered
<1>5. ASSUME up # <<>>, up' = Tail(up), UNCHANGED sent,
             \/ UNCHANGED executed
             \/ executed' = [executed EXCEPT ![Head(up)] = @ + 1]
      PROVE  Ordered'
  <2>1. /\ Head(up) \in Nodes(up) /\ Head(up) \in 1..MaxRequests
        /\ Nodes(up') \subseteq Nodes(up) /\ Rising(up')
        /\ \A n \in Nodes(up) : Head(up) <= n
    BY <1>1, <1>5, Taking DEF Ordered
  <2>2. ASSUME NEW m \in 1..MaxRequests, executed'[m] > 0
        PROVE  executed[m] > 0 \/ m = Head(up)
    BY <1>1, <1>5, <2>2
  <2>3. ASSUME NEW m \in 1..MaxRequests, executed'[m] > 0
        PROVE  m <= sent /\ \A n \in Nodes(up') : m <= n
    BY <2>1, <2>2, <2>3 DEF Ordered
  <2>4. QED
    BY <1>2, <1>5, <2>1, <2>3 DEF Ordered
<1>6. ASSUME UNCHANGED <<up, sent, executed>> PROVE Ordered'
  BY <1>2, <1>6 DEF Ordered
<1>7. CASE Request
  <2>1. sent' = sent + 1 /\ sent < MaxRequests /\ up' = Append(up, sent') /\ UNCHANGED executed
    BY <1>7 DEF Request, device
  <2>2. sent' \in 1..MaxRequests /\ sent \in 0..sent'
    BY <1>1, <2>1
  <2>3. QED
    BY <1>4, <2>1, <2>2
<1>8. CASE Resend
  <2>1. sent > 0 /\ sent' = sent /\ up' = Append(up, sent') /\ UNCHANGED executed
    BY <1>8 DEF Resend, device, Typed, HostTyped
  <2>2. sent' \in 1..MaxRequests /\ sent \in 0..sent'
    BY <1>1, <2>1
  <2>3. QED
    BY <1>4, <2>1, <2>2
<1>9. CASE ReplyAgain
  BY <1>5, <1>9 DEF ReplyAgain, host
<1>10. CASE Execute
  BY <1>5, <1>10 DEF Execute, host
<1>11. CASE Lose
  BY <1>5, <1>6, <1>11 DEF Lose, host, device
<1>12. CASE Cancel \/ ReceiveReply \/ ProcessActivity \/ Reply \/ ProcessDone \/ Tick
            \/ UNCHANGED vars
  BY <1>6, <1>12 DEF Cancel, ReceiveReply, ProcessActivity, Reply, ProcessDone, Tick,
                     vars, host, device
<1>13. QED
  BY <1>7, <1>8, <1>9, <1>10, <1>11, <1>12 DEF Next, Host, Device

(* What ProcessPayload looks for.                                          *)
LEMMA CachedReplies ==
  ASSUME cache \in Seq(Entry), NEW n
  PROVE  Cached(n) <=> n \in Replies(cache)
<1>1. DOMAIN cache = 1..Len(cache)
  BY LenProperties
<1>2. QED
  BY <1>1 DEF Cached, Replies

(* What ReplyAgain takes out of the cache before it puts it to the front.  *)
LEMMA TakenOut ==
  ASSUME cache \in Seq(Entry), NEW n
  PROVE  LET d == Keep(cache, {i \in 1..Len(cache) : cache[i].req # n})
         IN /\ Thinned(d, cache)
            /\ Replies(d) = Replies(cache) \ {n}
<1> DEFINE P == {i \in 1..Len(cache) : cache[i].req # n}
           d == Keep(cache, P)
<1>1. P \in SUBSET (1..Len(cache))
  OBVIOUS
<1> HIDE DEF P
<1>2. /\ Thinned(d, cache)
      /\ \A i \in P : \E k \in 1..Len(d) : d[k] = cache[i]
      /\ \A k \in 1..Len(d) : \E i \in P : d[k] = cache[i]
  BY <1>1, KeepThins
<1> HIDE DEF d
<1>3. ASSUME NEW m \in Replies(d) PROVE m \in Replies(cache) \ {n}
  <2>1. PICK k \in 1..Len(d) : m = d[k].req
    BY <1>3 DEF Replies
  <2>2. PICK i \in P : d[k] = cache[i]
    BY <1>2
  <2>3. QED
    BY <2>1, <2>2 DEF P, Replies
<1>4. ASSUME NEW m \in Replies(cache) \ {n} PROVE m \in Replies(d)
  <2>1. PICK i \in 1..Len(cache) : m = cache[i].req
    BY <1>4 DEF Replies
  <2>2. i \in P
    BY <1>4, <2>1 DEF P
  <2>3. PICK k \in 1..Len(d) : d[k] = cache[i]
    BY <1>2, <2>2
  <2>4. QED
    BY <2>1, <2>3 DEF Replies
<1>5. QED
  BY <1>2, <1>3, <1>4 DEF d, P

(* A reply comes to the front when it is that to the latest request.       *)
LEMMA RepliesKept ==
  ASSUME Typed, Ordered, Kept, [Next]_vars
  PROVE  Kept'
<1>1. /\ up \in Seq(1..MaxRequests) /\ MaxRequests \in Nat /\ cache \in Seq(Entry)
      /\ executed \in [1..MaxRequests -> Nat] /\ working \in 0..MaxRequests
  BY Parameters DEF Typed, Links, DeviceTyped
<1>2. Falling(cache)' = Falling(cache') /\ Replies(cache)' = Replies(cache')
  BY DEF Falling, Replies
<1>3. Replies(cache) \subseteq 1..MaxRequests
  BY <1>1, Latest DEF Kept
<1>4. CASE UNCHANGED <<cache, executed, working, reading>>
  BY <1>2, <1>4 DEF Kept
<1>5. CASE ProcessActivity
  <2>1. working = 0 /\ working' = 0 /\ cache' = Purged(cache) /\ UNCHANGED executed
    BY <1>5 DEF ProcessActivity, Kept
  <2>2. Replies(cache') \subseteq Replies(cache) /\ Falling(cache')
    BY <1>1, <2>1, Purging, Thinning DEF Kept
  <2>3. QED
    BY <1>2, <2>1, <2>2 DEF Kept
<1>6. CASE ReplyAgain
  <2> DEFINE h == Head(up)
             d == Keep(cache, {i \in 1..Len(cache) : cache[i].req # h})
  <2>1. /\ working = 0 /\ working' = 0 /\ UNCHANGED executed
        /\ cache' = <<[req |-> h, age |-> 0]>> \o d /\ up # <<>> /\ Cached(h)
    BY <1>6 DEF ReplyAgain
  <2>2. h \in 1..MaxRequests /\ h \in Nodes(up) /\ h \in Replies(cache)
    BY <1>1, <2>1, Taking, CachedReplies
  <2>3. Thinned(d, cache) /\ Replies(d) = Replies(cache) \ {h}
    BY <1>1, TakenOut
  <2>4. Falling(d) /\ d \in Seq(Entry)
    BY <1>1, <2>3, Thinning DEF Kept, Thinned
  <2> HIDE DEF d
  <2>5. ASSUME NEW m \in Replies(d) PROVE m < h
    <3>1. m \in 1..MaxRequests /\ m # h /\ executed[m] > 0
      BY <1>3, <2>3, <2>5 DEF Kept
    <3>2. m <= h
      BY <2>2, <3>1 DEF Ordered
    <3>3. QED
      BY <2>2, <3>1, <3>2
  <2>6. Falling(cache') /\ Replies(cache') = Replies(d) \cup {h}
    BY <2>1, <2>2, <2>4, <2>5, Fronting
  <2>7. QED
    BY <1>2, <2>1, <2>2, <2>3, <2>6 DEF Kept
<1>7. CASE Execute
  <2> DEFINE h == Head(up)
  <2>1. /\ reading /\ reading' /\ up # <<>> /\ ~Cached(h) /\ working' = h
        /\ executed' = [executed EXCEPT ![h] = @ + 1] /\ UNCHANGED cache
    BY <1>7 DEF Execute
  <2>2. h \in 1..MaxRequests /\ h \in Nodes(up) /\ h \notin Replies(cache)
    BY <1>1, <2>1, Taking, CachedReplies
  <2>3. /\ executed'[h] > 0
        /\ \A m \in 1..MaxRequests : executed'[m] > 0 => executed[m] > 0 \/ m = h
        /\ \A m \in 1..MaxRequests : executed[m] > 0 => executed'[m] > 0
    BY <1>1, <2>1, <2>2
  <2> HIDE DEF h
  <2>4. \A m \in 1..MaxRequests : executed'[m] > 0 => m <= h
    BY <2>2, <2>3 DEF Ordered
  <2>5. QED
    BY <1>2, <1>3, <2>1, <2>2, <2>3, <2>4 DEF Kept
<1>8. CASE Reply
  <2>1. /\ working \in 1..MaxRequests /\ working' = 0
        /\ cache' \in {cache, WithReply} /\ UNCHANGED executed
    BY <1>1, <1>8 DEF Reply
  <2>2. ASSUME NEW m \in Replies(cache) PROVE m < working
    <3>1. m \in 1..MaxRequests /\ m # working /\ m <= working
      BY <1>3, <2>1, <2>2 DEF Kept
    <3>2. QED
      BY <2>1, <3>1
  <2>3. Falling(WithReply) /\ Replies(WithReply) = Replies(cache) \cup {working}
    BY <1>1, <2>1, <2>2, Fronting DEF WithReply, Kept
  <2>4. QED
    BY <1>2, <2>1, <2>3 DEF Kept
<1>9. CASE ProcessDone
  BY <1>2, <1>9 DEF ProcessDone, Kept
<1>10. CASE Tick
  <2>1. cache' = Aged(cache) /\ UNCHANGED <<executed, working, reading>>
    BY <1>10 DEF Tick, Aged
  <2>2. Replies(cache') = Replies(cache) /\ Falling(cache')
    BY <1>1, <2>1, Aging DEF Kept
  <2>3. QED
    BY <1>2, <2>1, <2>2 DEF Kept
<1>11. CASE Host \/ Lose \/ UNCHANGED vars
  BY <1>4, <1>11 DEF Host, Request, Resend, Cancel, ReceiveReply, Lose, vars, device
<1>12. QED
  BY <1>5, <1>6, <1>7, <1>8, <1>9, <1>10, <1>11 DEF Next, Device

----------------------------------------------------------------------------
(* The host may send request n again, or has, and the device will see it.  *)
MayCome(n) == n \in Nodes(up) \/ (waiting /\ n = sent /\ retries > 0)

(* Then its reply is at hand, unless it is executed for the first time or  *)
(* the reply could not be kept.                                            *)
Answered ==
  \A n \in 1..MaxRequests :
    MayCome(n) => n \in Replies(cache) \/ working = n \/ executed[n] <= faults

(* The ticks in which the host uses up its retries but for k.              *)
Spent(k) == (Retries - k) * (RetryTicks + MaxLate)

(* The reply at the front is as old as the request that the host waits     *)
(* for, at most; and when the device does not read, what is on its way was *)
(* sent since it has read last.                                            *)
Young ==
  /\ waiting /\ Len(cache) > 0 /\ cache[1].req = sent =>
       cache[1].age <= Spent(retries) + since
  /\ ~reading /\ Len(cache) > 0 /\ cache[1].req \in Nodes(up) =>
       cache[1].age <= Spent(0) + busy
  /\ ~reading => busy <= MaxBusy

(* A reply is kept as long as its request may come again, also when the    *)
(* host takes its time and the device does.                                *)
KeptLongEnough == Spent(0) + MaxBusy <= CacheTicks

(* A retry costs the host RetryTicks, and MaxLate when it wakes up late.   *)
LEMMA Spending ==
  /\ Spent(0) \in Nat
  /\ \A k \in 0..Retries : Spent(k) \in Nat /\ Spent(k) <= Spent(0)
  /\ \A k \in 1..Retries : /\ Spent(k - 1) = Spent(k) + (RetryTicks + MaxLate)
                           /\ Spent(k) + (RetryTicks + MaxLate) <= Spent(0)
<1> DEFINE L == RetryTicks + MaxLate
<1>1. L \in Nat /\ Retries \in Nat
  BY Parameters
<1>2. \A k : Spent(k) = (Retries - k) * L
  BY DEF Spent
<1> HIDE DEF L
<1>3. \A m, n \in Nat : m * n \in Nat
  OBVIOUS
<1>4. ASSUME NEW k \in 0..Retries
      PROVE  Spent(k) \in Nat /\ Spent(k) <= Spent(0)
  <2>1. Retries - k \in Nat /\ k \in Nat
    BY <1>1
  <2>2. (Retries - k) * L \in Nat /\ k * L \in Nat
    BY <1>1, <1>3, <2>1
  <2>3. (Retries - k) * L + k * L = (Retries - 0) * L
    BY <1>1, <2>1
  <2>4. QED
    BY <1>2, <2>2, <2>3
<1>5. ASSUME NEW k \in 1..Retries PROVE Spent(k - 1) = Spent(k) + L
  <2>1. (Retries - (k - 1)) * L = (Retries - k) * L + L
    BY <1>1
  <2>2. QED
    BY <1>2, <2>1
<1>6. ASSUME NEW k \in 1..Retries PROVE Spent(k) + L <= Spent(0)
  <2>1. k - 1 \in 0..Retries
    BY <1>1
  <2>2. QED
    BY <1>4, <1>5, <2>1
<1>7. 0 \in 0..Retries
  BY <1>1
<1>8. QED
  BY <1>4, <1>5, <1>6, <1>7 DEF L

(* The reply to the latest request is never older than the request's time. *)
LEMMA YoungKept ==
  ASSUME Typed, Ordered, Kept, Young, [Next]_vars
  PROVE  Young'
<1>1. /\ up \in Seq(1..MaxRequests) /\ MaxRequests \in Nat /\ sent \in 0..MaxRequests
      /\ waiting \in BOOLEAN /\ reading \in BOOLEAN
      /\ cache \in Seq(Entry) /\ busy \in Nat /\ MaxBusy \in Nat
      /\ retries \in 0..Retries /\ since \in 0..RetryTicks + MaxLate
      /\ RetryTicks + MaxLate \in Nat /\ working \in 0..MaxRequests
  BY Parameters DEF Typed, Links, HostTyped, DeviceTyped
<1>2. Young' <=>
        /\ waiting' /\ Len(cache') > 0 /\ cache'[1].req = sent' =>
             cache'[1].age <= Spent(retries') + since'
        /\ ~reading' /\ Len(cache') > 0 /\ cache'[1].req \in Nodes(up') =>
             cache'[1].age <= Spent(0) + busy'
        /\ ~reading' => busy' <= MaxBusy
  BY DEF Young, Spent, Nodes
<1>3. Len(cache) > 0 =>
        /\ cache[1].req \in 1..MaxRequests /\ cache[1].age \in Nat
        /\ cache[1].req \in Replies(cache) /\ executed[cache[1].req] > 0
        /\ cache[1].req <= sent
  <2>1. SUFFICES ASSUME Len(cache) > 0
                 PROVE  /\ cache[1].req \in 1..MaxRequests /\ cache[1].age \in Nat
                        /\ cache[1].req \in Replies(cache) /\ executed[cache[1].req] > 0
                        /\ cache[1].req <= sent
    OBVIOUS
  <2>2. cache[1] \in Entry /\ cache[1].req \in Replies(cache)
    BY <1>1, <2>1, Latest DEF Kept
  <2>3. cache[1].req \in 1..MaxRequests /\ cache[1].age \in Nat
    BY <2>2, EntryFields, Parameters
  <2>4. executed[cache[1].req] > 0
    BY <2>2 DEF Kept
  <2>5. QED
    BY <2>2, <2>3, <2>4 DEF Ordered
<1>4. Spent(0) \in Nat /\ Spent(retries) \in Nat
  BY <1>1, Spending
<1>5. CASE Request
  <2>1. /\ sent' = sent + 1 /\ up' = Append(up, sent') /\ sent' \in 1..MaxRequests
        /\ UNCHANGED <<cache, reading, busy>>
    BY <1>1, <1>5 DEF Request, device
  <2>2. Nodes(up') = Nodes(up) \cup {sent'}
    BY <1>1, <2>1, Sending
  <2>3. Len(cache) > 0 => cache[1].req # sent'
    BY <1>1, <1>3, <2>1
  <2>4. QED
    BY <1>2, <2>1, <2>2, <2>3 DEF Young
<1>6. CASE Resend
  <2>1. /\ waiting /\ retries > 0 /\ retries' = retries - 1 /\ since' = 0 /\ sent' = sent
        /\ up' = Append(up, sent) /\ sent > 0
        /\ UNCHANGED <<cache, reading, busy, waiting>>
    BY <1>6 DEF Resend, device, Typed, HostTyped
  <2>2. Nodes(up') = Nodes(up) \cup {sent}
    BY <1>1, <2>1, Sending
  <2>3. /\ Spent(retries') = Spent(retries) + (RetryTicks + MaxLate)
        /\ Spent(retries') <= Spent(0)
    <3>1. retries \in 1..Retries
      BY <1>1, <2>1
    <3>2. QED
      BY <2>1, <3>1, Spending
  <2>4. Len(cache) > 0 /\ cache[1].req = sent => cache[1].age <= Spent(retries')
    BY <1>1, <1>3, <1>4, <2>1, <2>3 DEF Young
  <2>5. Len(cache) > 0 /\ cache[1].req = sent => cache[1].age <= Spent(0)
    BY <1>3, <1>4, <1>1, <2>3, <2>4
  <2>6. Spent(retries') + 0 = Spent(retries')
    BY <1>1, <1>4, <2>3
  <2>7. Len(cache) > 0 /\ cache[1].req = sent => cache[1].age <= Spent(0) + busy
    BY <1>1, <1>3, <1>4, <2>5
  <2>8. QED
    BY <1>2, <2>1, <2>2, <2>4, <2>6, <2>7 DEF Young
<1>7. CASE Cancel \/ ReceiveReply
  <2>1. /\ waiting' => waiting
        /\ UNCHANGED <<cache, reading, busy, up, sent, retries, since>>
    BY <1>7 DEF Cancel, ReceiveReply, device
  <2>2. QED
    BY <1>2, <2>1 DEF Young
<1>8. CASE ProcessActivity
  <2>1. /\ cache' = Purged(cache) /\ reading' = TRUE
        /\ UNCHANGED <<sent, waiting, retries, since>>
    BY <1>8 DEF ProcessActivity, host
  <2>2. Len(cache') > 0 => Len(cache) > 0 /\ (cache'[1] = cache[1] \/ cache'[1].req < cache[1].req)
    BY <1>1, <2>1, Purging, Thinning DEF Kept
  <2>3. Len(cache') > 0 /\ cache'[1].req = sent => Len(cache) > 0 /\ cache'[1] = cache[1]
    BY <1>1, <1>3, <2>2
  <2>4. QED
    BY <1>2, <2>1, <2>3 DEF Young
<1>9. CASE ReplyAgain
  <2> DEFINE h == Head(up)
             d == Keep(cache, {i \in 1..Len(cache) : cache[i].req # h})
  <2>1. /\ reading /\ reading' /\ cache' = <<[req |-> h, age |-> 0]>> \o d /\ up # <<>>
        /\ UNCHANGED <<retries, since>>
    BY <1>9 DEF ReplyAgain, host
  <2>2. h \in 1..MaxRequests /\ d \in Seq(Entry)
    BY <1>1, <2>1, Taking, TakenOut DEF Thinned
  <2> HIDE DEF d, h
  <2>3. cache'[1] = [req |-> h, age |-> 0]
    BY <2>1, <2>2, Fronting
  <2>4. cache'[1].age = 0
    BY <2>3
  <2>5. QED
    BY <1>1, <1>2, <1>4, <2>1, <2>4
<1>10. CASE Execute
  <2>1. reading' /\ UNCHANGED <<cache, sent, waiting, retries, since>>
    BY <1>10 DEF Execute, host
  <2>2. QED
    BY <1>2, <2>1 DEF Young
<1>11. CASE Reply
  <2>1. /\ working # 0 /\ cache' \in {cache, WithReply}
        /\ UNCHANGED <<sent, waiting, retries, since, reading>>
    BY <1>11 DEF Reply, host
  <2>2. reading /\ reading'
    BY <2>1 DEF Kept
  <2>3. WithReply[1].age = 0
    <3>1. WithReply[1] = [req |-> working, age |-> 0]
      BY <1>1, <2>1, Fronting DEF WithReply
    <3>2. QED
      BY <3>1
  <2>4. CASE cache' = WithReply
    BY <1>1, <1>2, <1>4, <2>1, <2>2, <2>3, <2>4
  <2>5. CASE cache' = cache
    BY <1>2, <2>1, <2>2, <2>5 DEF Young
  <2>6. QED
    BY <2>1, <2>4, <2>5
<1>12. CASE ProcessDone
  <2>1. up' = <<>> /\ busy' = 0 /\ UNCHANGED <<cache, sent, waiting, retries, since>>
    BY <1>12 DEF ProcessDone, host
  <2>2. Nodes(up') = {}
    BY <2>1 DEF Nodes
  <2>3. QED
    BY <1>1, <1>2, <2>1, <2>2 DEF Young
<1>13. CASE Lose
  <2>1. UNCHANGED <<cache, sent, waiting, retries, since, reading, busy>>
    BY <1>13 DEF Lose, host, device
  <2>2. Nodes(up') \subseteq Nodes(up)
    BY <1>1, <1>13, Taking DEF Lose
  <2>3. QED
    BY <1>2, <2>1, <2>2 DEF Young
<1>14. CASE Tick
  <2>1. /\ waiting => since < RetryTicks + MaxLate
        /\ ~reading => busy < MaxBusy
        /\ busy' = busy + 1 /\ since' = Older(since, RetryTicks + MaxLate)
        /\ cache' = Aged(cache)
        /\ UNCHANGED <<up, sent, waiting, retries, reading>>
    BY <1>14 DEF Tick, Aged, Kept
  <2>2. waiting => since' = since + 1
    BY <1>1, <2>1, Growing
  <2>3. Len(cache') > 0 =>
          Len(cache) > 0 /\ cache'[1].req = cache[1].req /\ cache'[1].age <= cache[1].age + 1
    BY <1>1, <2>1, Aging
  <2>4. Len(cache') > 0 => cache'[1].age \in Nat
    <3>1. cache' \in Seq(Entry) /\ Falling(cache')
      BY <1>1, <2>1, Aging DEF Kept
    <3>2. QED
      BY <3>1, Latest, EntryFields, Parameters
  <2>5. waiting' /\ Len(cache') > 0 /\ cache'[1].req = sent' =>
          cache'[1].age <= Spent(retries') + since'
    <3>1. SUFFICES ASSUME waiting', Len(cache') > 0, cache'[1].req = sent'
                   PROVE  cache'[1].age <= Spent(retries') + since'
      OBVIOUS
    <3>2. cache[1].age <= Spent(retries) + since
      BY <2>1, <2>3, <3>1 DEF Young
    <3>3. /\ cache'[1].age <= cache[1].age + 1 /\ Len(cache) > 0
          /\ since' = since + 1 /\ Spent(retries') = Spent(retries)
      BY <2>1, <2>2, <2>3, <3>1
    <3>4. cache'[1].age \in Nat /\ cache[1].age \in Nat /\ since \in Nat
      BY <1>1, <1>3, <2>4, <3>1, <3>3
    <3>5. QED
      BY <1>4, <3>2, <3>3, <3>4
  <2>6. ~reading' /\ Len(cache') > 0 /\ cache'[1].req \in Nodes(up') =>
          cache'[1].age <= Spent(0) + busy'
    <3>1. SUFFICES ASSUME ~reading', Len(cache') > 0, cache'[1].req \in Nodes(up')
                   PROVE  cache'[1].age <= Spent(0) + busy'
      OBVIOUS
    <3>2. cache[1].age <= Spent(0) + busy
      BY <2>1, <2>3, <3>1 DEF Young
    <3>3. /\ cache'[1].age <= cache[1].age + 1 /\ Len(cache) > 0
          /\ busy' = busy + 1
      BY <2>1, <2>3, <3>1
    <3>4. cache'[1].age \in Nat /\ cache[1].age \in Nat
      BY <1>3, <2>4, <3>1, <3>3
    <3>5. busy \in Nat /\ Spent(0) \in Nat
      BY <1>1, <1>4
    <3>6. QED
      BY <3>2, <3>3, <3>4, <3>5
  <2>7. ~reading' => busy' <= MaxBusy
    BY <1>1, <2>1
  <2>8. QED
    BY <1>2, <2>5, <2>6, <2>7
<1>15. CASE UNCHANGED vars
  BY <1>2, <1>15 DEF vars, host, device, Young
<1>16. QED
  BY <1>5, <1>6, <1>7, <1>8, <1>9, <1>10, <1>11, <1>12, <1>13, <1>14, <1>15
     DEF Next, Host, Device

----------------------------------------------------------------------------
(* So PurgeCache leaves what may be asked for again.                       *)
LEMMA AnswersKept ==
  ASSUME KeptLongEnough, Typed, Ordered, Kept, Young, Answered, AtMostOnce, [Next]_vars
  PROVE  Answered' /\ AtMostOnce'
<1>1. /\ up \in Seq(1..MaxRequests) /\ MaxRequests \in Nat /\ sent \in 0..MaxRequests
      /\ waiting \in BOOLEAN /\ faults \in Nat /\ working \in 0..MaxRequests
      /\ retries \in 0..Retries /\ since \in 0..RetryTicks + MaxLate
      /\ cache \in Seq(Entry) /\ executed \in [1..MaxRequests -> Nat]
  BY Parameters DEF Typed, Links, HostTyped, DeviceTyped, BoundsTyped
<1>2. /\ Answered' <=>
           \A n \in 1..MaxRequests :
             n \in Nodes(up') \/ (waiting' /\ n = sent' /\ retries' > 0) =>
               n \in Replies(cache') \/ working' = n \/ executed'[n] <= faults'
      /\ AtMostOnce' <=> \A n \in 1..MaxRequests : executed'[n] <= 1 + faults'
  BY DEF Answered, AtMostOnce, MayCome, Replies, Nodes
<1>3. \A n \in 1..MaxRequests : executed[n] \in Nat
  BY <1>1
(* Nothing but the requests that may come changes, ...                     *)
<1>4. ASSUME UNCHANGED <<executed, faults, working>>,
             \A n \in 1..MaxRequests : n \in Replies(cache) => n \in Replies(cache'),
             \A n \in 1..MaxRequests :
               n \in Nodes(up') \/ (waiting' /\ n = sent' /\ retries' > 0)
                 => MayCome(n) \/ executed[n] = 0
      PROVE  Answered' /\ AtMostOnce'
  BY <1>1, <1>2, <1>3, <1>4 DEF Answered, AtMostOnce
(* ... or nothing but the device.                                          *)
<1>5. ASSUME UNCHANGED <<waiting, sent, retries>>, Nodes(up') \subseteq Nodes(up),
             NEW n, n \in Nodes(up') \/ (waiting' /\ n = sent' /\ retries' > 0)
      PROVE  MayCome(n)
  BY <1>5 DEF MayCome
<1>6. CASE Request
  <2>1. /\ sent' = sent + 1 /\ up' = Append(up, sent') /\ sent' \in 1..MaxRequests
        /\ UNCHANGED <<cache, working, executed, faults>>
    BY <1>1, <1>6 DEF Request, device
  <2>2. Nodes(up') = Nodes(up) \cup {sent'}
    BY <1>1, <2>1, Sending
  <2>3. executed[sent'] = 0
    <3>1. ~(executed[sent'] > 0)
      BY <1>1, <2>1 DEF Ordered
    <3>2. QED
      BY <1>3, <2>1, <3>1
  <2>4. QED
    BY <1>4, <2>1, <2>2, <2>3 DEF MayCome
<1>7. CASE Resend
  <2>1. /\ waiting /\ retries > 0 /\ sent > 0 /\ up' = Append(up, sent)
        /\ UNCHANGED <<cache, working, executed, faults, sent>>
    BY <1>7 DEF Resend, device, bounds, Typed, HostTyped
  <2>2. Nodes(up') = Nodes(up) \cup {sent}
    BY <1>1, <2>1, Sending
  <2>3. QED
    BY <1>4, <2>1, <2>2 DEF MayCome
<1>8. CASE Cancel \/ ReceiveReply
  <2>1. /\ waiting' => waiting
        /\ UNCHANGED <<cache, working, executed, faults, up, sent, retries>>
    BY <1>8 DEF Cancel, ReceiveReply, device, bounds
  <2>2. QED
    BY <1>4, <2>1 DEF MayCome
<1>9. CASE ProcessActivity
  <2>1. /\ ~reading /\ cache' = Purged(cache)
        /\ UNCHANGED <<up, sent, waiting, retries, since, executed, working, faults>>
    BY <1>9 DEF ProcessActivity, host, bounds
  <2>2. ASSUME NEW n \in 1..MaxRequests, MayCome(n), n \in Replies(cache)
        PROVE  n \in Replies(cache')
    <3>1. /\ Len(cache) > 0 /\ cache[1] \in Entry /\ cache[1].req \in Replies(cache)
          /\ n <= cache[1].req /\ cache # <<>>
      BY <1>1, <2>2, Latest DEF Kept
    <3>2. cache[1].req \in 1..MaxRequests /\ cache[1].age \in Nat
      BY <3>1, EntryFields, Parameters
    <3>3. executed[cache[1].req] > 0
      BY <3>1 DEF Kept
    <3>4. cache[1].req <= n
      BY <2>2, <3>2, <3>3 DEF Ordered, MayCome
    <3>5. n = cache[1].req
      BY <3>1, <3>2, <3>4
    <3>6. cache[1].age <= CacheTicks
      <4>1. CASE n \in Nodes(up)
        <5>1. cache[1].age <= Spent(0) + busy /\ busy <= MaxBusy
          BY <2>1, <3>1, <3>5, <4>1 DEF Young
        <5>2. busy \in Nat
          BY DEF Typed, DeviceTyped
        <5>3. QED
          BY <3>2, <5>1, <5>2, Spending, Parameters DEF KeptLongEnough
      <4>2. CASE waiting /\ n = sent /\ retries > 0
        <5>1. cache[1].age <= Spent(retries) + since
          BY <3>1, <3>5, <4>2 DEF Young
        <5>2. retries \in 1..Retries
          BY <1>1, <4>2
        <5>3. Spent(retries) + (RetryTicks + MaxLate) <= Spent(0) /\ Spent(retries) \in Nat
          BY <5>2, Spending
        <5>4. since \in Nat /\ since <= RetryTicks + MaxLate
          BY <1>1, Parameters
        <5>5. Spent(0) + MaxBusy <= CacheTicks
          BY DEF KeptLongEnough
        <5>6. Spent(0) \in Nat /\ MaxBusy \in Nat /\ CacheTicks \in Nat
              /\ RetryTicks + MaxLate \in Nat
          BY Spending, Parameters
        <5>7. cache[1].age <= Spent(0)
          BY <3>2, <5>1, <5>3, <5>4, <5>6
        <5>8. QED
          BY <3>2, <5>5, <5>6, <5>7
      <4>3. QED
        BY <2>2, <4>1, <4>2 DEF MayCome
    <3>7. Len(Purged(cache)) > 0 /\ Purged(cache)[1] = cache[1]
      BY <1>1, <3>1, <3>6, Purging
    <3>8. Thinned(cache', cache)
      BY <1>1, <2>1, Purging
    <3>9. cache' \in Seq(Entry) /\ Falling(cache')
      BY <1>1, <3>8, Thinning DEF Kept, Thinned
    <3>10. cache'[1].req \in Replies(cache')
      BY <2>1, <3>7, <3>9, Latest
    <3>11. QED
      BY <2>1, <3>5, <3>7, <3>10
  <2>3. Answered'
    BY <1>2, <2>1, <2>2 DEF Answered, MayCome
  <2>4. QED
    BY <1>2, <2>1, <2>3 DEF AtMostOnce
<1>10. CASE ReplyAgain
  <2> DEFINE h == Head(up)
             d == Keep(cache, {i \in 1..Len(cache) : cache[i].req # h})
  <2>1. /\ cache' = <<[req |-> h, age |-> 0]>> \o d /\ up # <<>> /\ up' = Tail(up)
        /\ UNCHANGED <<sent, waiting, retries, executed, working, faults>>
    BY <1>10 DEF ReplyAgain, host, bounds
  <2>2. /\ h \in 1..MaxRequests /\ d \in Seq(Entry) /\ Replies(d) = Replies(cache) \ {h}
        /\ Nodes(up') \subseteq Nodes(up)
    BY <1>1, <2>1, Taking, TakenOut DEF Thinned
  <2> HIDE DEF d, h
  <2>3. Replies(cache') = Replies(d) \cup {h}
    BY <2>1, <2>2, Fronting
  <2>4. QED
    BY <1>4, <1>5, <2>1, <2>2, <2>3
<1>11. CASE Execute
  <2> DEFINE h == Head(up)
  <2>1. /\ working = 0 /\ up # <<>> /\ ~Cached(h) /\ working' = h /\ up' = Tail(up)
        /\ executed' = [executed EXCEPT ![h] = @ + 1]
        /\ UNCHANGED <<cache, sent, waiting, retries, faults>>
    BY <1>11 DEF Execute, host, bounds
  <2>2. /\ h \in 1..MaxRequests /\ h \in Nodes(up) /\ h \notin Replies(cache)
        /\ Nodes(up') \subseteq Nodes(up)
    BY <1>1, <2>1, Taking, CachedReplies
  <2> HIDE DEF h
  <2>3. executed[h] <= faults
    BY <2>1, <2>2 DEF Answered, MayCome
  <2>4. executed'[h] <= 1 + faults' /\ \A n \in 1..MaxRequests \ {h} : executed'[n] = executed[n]
    BY <1>1, <1>3, <2>1, <2>2, <2>3
  <2>5. AtMostOnce'
    BY <1>2, <2>1, <2>4 DEF AtMostOnce
  <2>6. ASSUME NEW n \in 1..MaxRequests,
               n \in Nodes(up') \/ (waiting' /\ n = sent' /\ retries' > 0)
        PROVE  n \in Replies(cache') \/ working' = n \/ executed'[n] <= faults'
    <3>1. CASE n = h
      BY <2>1, <3>1
    <3>2. CASE n # h
      <4>1. MayCome(n) /\ working # n
        BY <1>5, <2>1, <2>2, <2>6
      <4>2. n \in Replies(cache) \/ executed[n] <= faults
        BY <4>1 DEF Answered
      <4>3. QED
        BY <2>1, <2>4, <3>2, <4>2
    <3>3. QED
      BY <3>1, <3>2
  <2>7. QED
    BY <1>2, <2>5, <2>6
<1>12. CASE Reply
  <2>1. /\ working \in 1..MaxRequests /\ working' = 0
        /\ \/ cache' = WithReply /\ faults' = faults
           \/ cache' = cache /\ faults' = faults + 1
        /\ UNCHANGED <<up, sent, waiting, retries, executed>>
    BY <1>1, <1>12 DEF Reply, host
  <2>2. Replies(WithReply) = Replies(cache) \cup {working}
    BY <1>1, <2>1, Fronting DEF WithReply
  <2>3. Replies(cache) \subseteq Replies(cache') /\ faults' \in Nat /\ faults <= faults'
    BY <1>1, <2>1, <2>2
  <2>4. AtMostOnce'
    BY <1>1, <1>2, <1>3, <2>1, <2>3 DEF AtMostOnce
  <2>5. ASSUME NEW n \in 1..MaxRequests,
               n \in Nodes(up') \/ (waiting' /\ n = sent' /\ retries' > 0)
        PROVE  n \in Replies(cache') \/ working' = n \/ executed'[n] <= faults'
    <3>1. MayCome(n)
      BY <2>1, <2>5 DEF MayCome
    <3>2. n \in Replies(cache) \/ working = n \/ executed[n] <= faults
      BY <3>1 DEF Answered
    <3>3. CASE working = n
      BY <1>1, <1>3, <2>1, <2>2, <3>3 DEF AtMostOnce
    <3>4. CASE n \in Replies(cache) \/ executed[n] <= faults
      BY <1>1, <1>3, <2>1, <2>3, <3>4
    <3>5. QED
      BY <3>2, <3>3, <3>4
  <2>6. QED
    BY <1>2, <2>4, <2>5
<1>13. CASE ProcessDone
  <2>1. UNCHANGED <<up, sent, waiting, retries, executed, working, faults, cache>>
    BY <1>13 DEF ProcessDone, host, bounds
  <2>2. QED
    BY <1>4, <2>1 DEF MayCome
<1>14. CASE Lose
  <2>1. UNCHANGED <<sent, waiting, retries, executed, working, faults, cache>>
    BY <1>14 DEF Lose, host, device
  <2>2. Nodes(up') \subseteq Nodes(up)
    BY <1>1, <1>14, Taking DEF Lose
  <2>3. QED
    BY <1>4, <1>5, <2>1, <2>2
<1>15. CASE Tick
  <2>1. /\ cache' = Aged(cache)
        /\ UNCHANGED <<up, sent, waiting, retries, executed, working, faults>>
    BY <1>15 DEF Tick, Aged, bounds
  <2>2. Replies(cache') = Replies(cache)
    BY <1>1, <2>1, Aging
  <2>3. QED
    BY <1>4, <2>1, <2>2 DEF MayCome
<1>16. CASE UNCHANGED vars
  <2>1. UNCHANGED <<up, sent, waiting, retries, executed, working, faults, cache>>
    BY <1>16 DEF vars, host, device, bounds
  <2>2. QED
    BY <1>4, <2>1 DEF MayCome
<1>17. QED
  BY <1>6, <1>7, <1>8, <1>9, <1>10, <1>11, <1>12, <1>13, <1>14, <1>15, <1>16
     DEF Next, Host, Device

----------------------------------------------------------------------------
(* All of it holds at first.                                               *)
LEMMA Beginning ==
  ASSUME Init
  PROVE  Typed /\ Ordered /\ Kept /\ Young /\ Answered /\ AtMostOnce
<1>1. /\ up = <<>> /\ down = <<>> /\ cache = <<>> /\ Len(cache) = 0
      /\ sent = 0 /\ waiting = FALSE /\ reading = FALSE /\ working = 0 /\ busy = 0
      /\ retries = 0 /\ since = 0 /\ waited = 0 /\ lostNow = 0 /\ lost = 0 /\ faults = 0
      /\ executed = [n \in 1..MaxRequests |-> 0]
  BY DEF Init
<1>2. Typed
  <2>1. Links
    BY <1>1 DEF Links
  <2>2. HostTyped
    <3>1. 0 \in 0..TimeoutWait /\ 0 \in 0..RetryTicks + MaxLate
          /\ 0 \in 0..Retries /\ 0 \in 0..MaxRequests
      BY Parameters
    <3>2. QED
      BY <1>1, <3>1 DEF HostTyped
  <2>3. DeviceTyped
    <3>1. executed \in [1..MaxRequests -> Nat] /\ 0 \in 0..MaxRequests
      BY <1>1, Parameters
    <3>2. cache \in Seq(Entry)
      BY <1>1
    <3>3. QED
      BY <1>1, <3>1, <3>2 DEF DeviceTyped
  <2>4. QED
    BY <1>1, <2>1, <2>2, <2>3 DEF Typed, BoundsTyped
<1>3. Nodes(up) = {} /\ Replies(cache) = {} /\ Rising(up) /\ Falling(cache)
  BY <1>1 DEF Nodes, Replies, Rising, Falling
<1>4. Ordered /\ Kept /\ Answered /\ AtMostOnce
  BY <1>1, <1>3 DEF Ordered, Kept, Answered, AtMostOnce, MayCome
<1>5. Young
  BY <1>1, Parameters DEF Young
<1>6. QED
  BY <1>2, <1>4, <1>5

(* Sequence numbers, counters and the entries of the cache keep their      *)
(* types, no reply is in the cache twice, and the request whose handler    *)
(* runs is not answered from the cache, whatever is lost and however slow  *)
(* the two sides are.                                                      *)
THEOREM TypeCorrect == Spec => []TypeOK
<1>1. Init => Typed /\ Ordered /\ Kept
  BY Beginning
<1>2. Typed /\ Ordered /\ Kept /\ [Next]_vars => (Typed /\ Ordered /\ Kept)'
  BY TypesKept, OrderedKept, RepliesKept
<1>3. ASSUME Typed, Kept PROVE TypeOK
  <2>1. cache \in Seq(Entry) /\ DOMAIN cache = 1..Len(cache) /\ Len(cache) \in Nat
    BY <1>3, LenProperties DEF Typed, DeviceTyped
  <2>2. ASSUME NEW i \in DOMAIN cache, NEW j \in DOMAIN cache, cache[i].req = cache[j].req
        PROVE  i = j
    <3>1. cache[i].req \in 1..MaxRequests
      BY <2>1, EntryFields
    <3>2. ~(i < j) /\ ~(j < i)
      BY <1>3, <2>1, <2>2, <3>1, Parameters DEF Kept, Falling
    <3>3. QED
      BY <2>1, <3>2
  <2>3. working # 0 => reading /\ ~Cached(working)
    BY <1>3, <2>1, CachedReplies DEF Kept
  <2>4. QED
    BY <1>3, <2>1, <2>2, <2>3
       DEF TypeOK, Typed, Links, HostTyped, DeviceTyped, Entry
<1>4. QED
  BY <1>1, <1>2, <1>3, PTL DEF Spec

(* A request of the host is executed once, however often it is sent again, *)
(* unless its reply could not be kept: as long as the cache keeps a reply  *)
(* for the time in which the host uses up its retries and the device does  *)
(* not call ProcessActivity.                                               *)
THEOREM ExecutedOnce ==
  ASSUME KeptLongEnough
  PROVE  Spec => []AtMostOnce
<1> DEFINE I == Typed /\ Ordered /\ Kept /\ Young /\ Answered /\ AtMostOnce
<1>1. Init => I
  BY Beginning
<1>2. I /\ [Next]_vars => I'
  BY TypesKept, OrderedKept, RepliesKept, YoungKept, AnswersKept
<1>3. I => AtMostOnce
  OBVIOUS
<1>4. QED
  BY <1>1, <1>2, <1>3, PTL DEF Spec

----------------------------------------------------------------------------
(* Where the messages of the request under way are: nowhere, ...           *)
Quiet == up = <<>> /\ down = <<>> /\ working = 0

(* ... on the way to the device, ...                                       *)
Going ==
  /\ up = <<sent>> /\ down = <<>> /\ working = 0 /\ waiting
  /\ since <= MaxBusy /\ (~reading => since <= busy)

(* ... with its handler, ...                                               *)
Handled ==
  /\ up = <<>> /\ down = <<>> /\ working = sent /\ sent # 0 /\ waiting
  /\ since <= MaxBusy + busy /\ busy <= MaxWork

(* ... or, as its reply, on the way back.                                  *)
Coming ==
  /\ up = <<>> /\ down = <<sent>> /\ working = 0 /\ waiting
  /\ since <= MaxBusy + MaxWork

OneUnderWay == Quiet \/ Going \/ Handled \/ Coming

(* Each sending but the one under way has cost a message, and the time     *)
(* that the host has waited is what its retries take.                      *)
Sendings ==
  waiting => /\ waited <= Spent(retries) + since
             /\ lostNow + (IF Quiet THEN 0 ELSE 1) > Retries - retries

(* The device answers before the host sends again, and the host is not so  *)
(* late that m_timeoutWait ends before its retries do.                     *)
QuickReply == MaxBusy + MaxWork < RetryTicks /\ MaxLate < RetryTicks

(* A message moves on.                                                     *)
LEMMA Moving ==
  ASSUME NEW e
  PROVE  /\ Append(<<>>, e) = <<e>>
         /\ Head(<<e>>) = e /\ Tail(<<e>>) = <<>> /\ <<e>> # <<>>
OBVIOUS

(* The message under way is lost, or answered before the next is sent.     *)
LEMMA OneKept ==
  ASSUME QuickReply, Typed, Kept, Young, OneUnderWay, Sendings, [Next]_vars
  PROVE  (OneUnderWay /\ Sendings)'
<1>1. /\ sent \in 0..MaxRequests /\ waiting \in BOOLEAN /\ retries \in 0..Retries
      /\ since \in 0..RetryTicks + MaxLate /\ since \in Nat
      /\ waited \in 0..TimeoutWait /\ waited \in Nat
      /\ busy \in Nat /\ lostNow \in Nat /\ working \in 0..MaxRequests
      /\ MaxBusy \in Nat /\ MaxWork \in Nat /\ RetryTicks \in Nat /\ Retries \in Nat
      /\ MaxRequests \in Nat /\ TimeoutWait \in Nat /\ RetryTicks + MaxLate \in Nat
      /\ MaxBusy + MaxWork < RetryTicks
  <2>1. /\ MaxBusy \in Nat /\ MaxWork \in Nat /\ RetryTicks \in Nat /\ Retries \in Nat
        /\ MaxRequests \in Nat /\ TimeoutWait \in Nat /\ RetryTicks + MaxLate \in Nat
    BY Parameters
  <2>2. /\ sent \in 0..MaxRequests /\ waiting \in BOOLEAN /\ retries \in 0..Retries
        /\ since \in 0..RetryTicks + MaxLate /\ waited \in 0..TimeoutWait
        /\ busy \in Nat /\ lostNow \in Nat /\ working \in 0..MaxRequests
    BY DEF Typed, HostTyped, DeviceTyped, BoundsTyped
  <2>3. QED
    BY <2>1, <2>2 DEF QuickReply
<1>2. Spent(retries) \in Nat
  BY <1>1, Spending
<1>3. \A k : Spent(k)' = Spent(k')
  BY DEF Spent
(* The request that goes is the one that the device finds.                 *)
<1>4. up # <<>> => Going /\ Head(up) = sent /\ Tail(up) = <<>>
  BY Moving DEF OneUnderWay, Quiet, Going, Handled, Coming
<1>5. down # <<>> => Coming /\ Head(down) = sent /\ Tail(down) = <<>>
  BY Moving DEF OneUnderWay, Quiet, Going, Handled, Coming
<1>6. working # 0 => Handled
  BY DEF OneUnderWay, Quiet, Going, Coming
<1>7. since >= RetryTicks => Quiet
  BY <1>1 DEF OneUnderWay, Going, Handled, Coming
<1>8. ~waiting => Quiet
  BY DEF OneUnderWay, Going, Handled, Coming
<1>9. Going \/ Handled \/ Coming => ~Quiet /\ waiting
  BY DEF Going, Handled, Coming, Quiet
(* Where a message is on its way before and after, no sending is added.    *)
<1>10. ASSUME UNCHANGED <<waiting, waited, retries, since, lostNow>>, Quiet' => Quiet
       PROVE  Sendings'
  BY <1>1, <1>10 DEF Sendings, Spent
<1>11. ASSUME Quiet', UNCHANGED <<waiting, waited, retries, since>>, lostNow' = lostNow + 1
       PROVE  (OneUnderWay /\ Sendings)'
  BY <1>1, <1>11 DEF OneUnderWay, Sendings, Spent
<1>12. CASE Request
  <2>1. /\ up' = Append(up, sent') /\ waiting' /\ since' = 0 /\ waited' = 0
        /\ retries' = Retries /\ lostNow' = 0 /\ Quiet
        /\ UNCHANGED <<down, working, reading, busy>>
    BY <1>8, <1>12 DEF Request, device
  <2>2. Going'
    BY <1>1, <2>1, Moving DEF Quiet, Going
  <2>3. Spent(retries') \in Nat
    BY <1>1, <2>1, Spending
  <2>4. ~Quiet'
    BY <2>2, Moving DEF Quiet, Going
  <2>5. QED
    BY <1>1, <1>3, <2>1, <2>2, <2>3, <2>4 DEF OneUnderWay, Sendings, Spent
<1>13. CASE Resend
  <2>1. /\ waiting /\ retries > 0 /\ retries' = retries - 1 /\ since' = 0
        /\ up' = Append(up, sent) /\ Quiet
        /\ UNCHANGED <<down, sent, waiting, waited, working, reading, busy, lostNow>>
    BY <1>1, <1>7, <1>13 DEF Resend, device, bounds
  <2>2. Going'
    BY <1>1, <2>1, Moving DEF Quiet, Going
  <2>3. ~Quiet'
    BY <2>2, Moving DEF Quiet, Going
  <2>4. /\ Spent(retries') = Spent(retries) + (RetryTicks + MaxLate)
        /\ Spent(retries') \in Nat
    <3>1. retries \in 1..Retries /\ retries' \in 0..Retries
      BY <1>1, <2>1
    <3>2. QED
      BY <2>1, <3>1, Spending
  <2>5. waited <= Spent(retries) + since /\ lostNow > Retries - retries
    BY <1>1, <2>1 DEF Sendings
  <2>6. waited' <= Spent(retries') + since' /\ lostNow' + 1 > Retries - retries'
    BY <1>1, <1>2, <2>1, <2>4, <2>5
  <2>7. QED
    BY <2>1, <2>2, <2>3, <2>6 DEF OneUnderWay, Sendings, Spent
<1>14. CASE Cancel
  <2>1. ~waiting' /\ Quiet /\ UNCHANGED <<up, down, working>>
    BY <1>1, <1>7, <1>14 DEF Cancel, device
  <2>2. QED
    BY <2>1 DEF OneUnderWay, Quiet, Sendings
<1>15. CASE ReceiveReply
  <2>1. down' = <<>> /\ Coming /\ ~waiting' /\ UNCHANGED <<up, working>>
    BY <1>5, <1>15 DEF ReceiveReply, device
  <2>2. QED
    BY <2>1 DEF OneUnderWay, Quiet, Coming, Sendings
<1>16. CASE ProcessActivity
  <2>1. /\ reading' /\ busy' = 0 /\ ~reading
        /\ UNCHANGED <<up, down, sent, waiting, retries, since, waited, working, lostNow>>
    BY <1>16 DEF ProcessActivity, host, bounds
  <2>2. working = 0
    BY <2>1 DEF Kept
  <2>3. Sendings' /\ (Quiet => Quiet')
    BY <1>10, <2>1 DEF Quiet
  <2>4. Going => Going'
    BY <2>1 DEF Going
  <2>5. Coming => Coming'
    BY <2>1 DEF Coming
  <2>6. QED
    BY <2>2, <2>3, <2>4, <2>5 DEF OneUnderWay, Handled
<1>17. CASE ReplyAgain
  <2>1. /\ up' = <<>> /\ down' = Append(down, sent) /\ Going
        /\ UNCHANGED <<sent, waiting, retries, since, waited, working, lostNow>>
    BY <1>4, <1>17 DEF ReplyAgain, host, bounds
  <2>2. Coming' /\ ~Quiet'
    BY <1>1, <2>1, Moving DEF Going, Coming, Quiet
  <2>3. QED
    BY <1>10, <2>1, <2>2 DEF OneUnderWay
<1>18. CASE Execute
  <2>1. /\ up' = <<>> /\ working' = sent /\ busy' = 0 /\ Going
        /\ UNCHANGED <<down, sent, waiting, retries, since, waited, lostNow>>
    BY <1>4, <1>18 DEF Execute, host, bounds
  <2>2. sent # 0
    BY <2>1 DEF Going, Typed, HostTyped
  <2>3. Handled' /\ ~Quiet'
    BY <1>1, <2>1, <2>2 DEF Going, Handled, Quiet
  <2>4. QED
    BY <1>10, <2>1, <2>3 DEF OneUnderWay
<1>19. CASE Reply
  <2>1. Handled /\ working' = 0 /\ UNCHANGED <<up, sent, waiting, retries, since, waited>>
    BY <1>6, <1>19 DEF Reply, host
  <2>2. CASE down' = Append(down, working) /\ UNCHANGED lostNow
    <3>1. Coming' /\ ~Quiet'
      BY <1>1, <2>1, <2>2, Moving DEF Handled, Coming, Quiet
    <3>2. QED
      BY <1>10, <2>1, <2>2, <3>1 DEF OneUnderWay
  <2>3. CASE lostNow' = lostNow + 1 /\ UNCHANGED down
    BY <1>11, <2>1, <2>3 DEF Handled, Quiet
  <2>4. QED
    BY <1>19, <2>2, <2>3 DEF Reply
<1>20. CASE ProcessDone
  <2>1. /\ up = <<>> /\ working = 0 /\ ~Going /\ ~Handled
        /\ UNCHANGED <<up, down, sent, waiting, retries, since, waited, working, lostNow>>
    BY <1>20, Moving DEF ProcessDone, host, bounds, Going, Handled
  <2>2. Sendings' /\ (Quiet => Quiet') /\ (Coming => Coming')
    BY <1>10, <2>1 DEF Quiet, Coming
  <2>3. QED
    BY <2>1, <2>2 DEF OneUnderWay
<1>21. CASE Lose
  <2>1. Quiet'
    BY <1>4, <1>5, <1>21 DEF Lose, device, Going, Coming, Quiet
  <2>2. QED
    BY <1>11, <1>21, <2>1 DEF Lose, host
<1>22. CASE Tick
  <2>1. /\ down = <<>> /\ (waiting => since < RetryTicks + MaxLate)
        /\ IF working # 0 THEN busy < MaxWork ELSE ~reading /\ busy < MaxBusy
        /\ busy' = busy + 1 /\ since' = Older(since, RetryTicks + MaxLate)
        /\ waited' = Older(waited, TimeoutWait)
        /\ UNCHANGED <<up, down, sent, waiting, retries, reading, working, lostNow>>
    BY <1>22 DEF Tick, bounds
  <2>2. (waiting => since' = since + 1) /\ waited' <= waited + 1 /\ waited' \in Nat
    BY <1>1, <2>1, Growing
  <2>3. Quiet' <=> Quiet
    BY <2>1 DEF Quiet
  <2>4. Sendings'
    BY <1>1, <1>2, <2>1, <2>2, <2>3 DEF Sendings, Spent
  <2>5. Going => Going'
    BY <1>1, <2>1, <2>2 DEF Going
  <2>6. Handled => Handled'
    BY <1>1, <2>1, <2>2 DEF Handled
  <2>7. ~Coming
    BY <2>1, Moving DEF Coming
  <2>8. QED
    BY <2>3, <2>4, <2>5, <2>6, <2>7 DEF OneUnderWay
<1>23. CASE UNCHANGED vars
  BY <1>23 DEF vars, host, device, bounds, OneUnderWay, Quiet, Going, Handled, Coming,
               Sendings, Spent
<1>24. QED
  BY <1>12, <1>13, <1>14, <1>15, <1>16, <1>17, <1>18, <1>19, <1>20, <1>21, <1>22, <1>23
     DEF Next, Host, Device

(* The host gives up when its retries are used up.                         *)
LEMMA RetriesFirst ==
  ASSUME QuickReply, Retries > 0
  PROVE  Spent(0) < TimeoutWait
<1>1. /\ RetryTicks \in Nat /\ MaxLate \in Nat /\ Retries \in Nat /\ Retries > 0
      /\ MaxLate < RetryTicks
  BY Parameters DEF QuickReply
<1>2. \A m, n, k \in Nat : k > 0 /\ m < n => k * m < k * n
  OBVIOUS
<1>3. Retries * MaxLate < Retries * RetryTicks
  BY <1>1, <1>2
<1>4. Spent(0) = Retries * RetryTicks + Retries * MaxLate
  BY <1>1 DEF Spent
<1>5. TimeoutWait = Retries * RetryTicks + Retries * RetryTicks
  BY <1>1 DEF TimeoutWait
<1>6. \A m, n \in Nat : m * n \in Nat
  OBVIOUS
<1>7. Retries * RetryTicks \in Nat /\ Retries * MaxLate \in Nat
  BY <1>1, <1>6
<1>8. QED
  BY <1>3, <1>4, <1>5, <1>7

(* When it gives up, no message is under way any more.                     *)
LEMMA EverySendingLost ==
  ASSUME QuickReply, Typed, OneUnderWay, Sendings, Cancel
  PROVE  lostNow > Retries
<1>1. waiting /\ since >= RetryTicks /\ Exhausted
  BY DEF Cancel
<1>2. /\ MaxBusy \in Nat /\ MaxWork \in Nat /\ RetryTicks \in Nat /\ Retries \in Nat
      /\ RetryTicks + MaxLate \in Nat /\ TimeoutWait \in Nat /\ busy \in Nat
      /\ retries \in 0..Retries /\ since \in 0..RetryTicks + MaxLate
      /\ waited \in 0..TimeoutWait /\ lostNow \in Nat
  BY Parameters DEF Typed, HostTyped, DeviceTyped, BoundsTyped
<1>3. Quiet
  BY <1>1, <1>2 DEF OneUnderWay, Going, Handled, Coming, QuickReply
<1>4. lostNow > Retries - retries /\ waited <= Spent(retries) + since
  BY <1>1, <1>2, <1>3 DEF Sendings
<1>5. CASE retries = 0
  BY <1>2, <1>4, <1>5
<1>6. CASE retries # 0
  <2>1. retries \in 1..Retries /\ Retries > 0
    BY <1>2, <1>6
  <2>2. Spent(retries) + (RetryTicks + MaxLate) <= Spent(0) /\ Spent(retries) \in Nat
    BY <2>1, <1>2, Spending
  <2>3. waited < TimeoutWait
    BY <1>2, <1>4, <2>1, <2>2, RetriesFirst, Spending
  <2>4. QED
    BY <1>1, <1>2, <1>6, <2>3 DEF Exhausted
<1>7. QED
  BY <1>5, <1>6

(* The host gives a request up only when each of its sendings has cost a   *)
(* message on the way or at the device, as long as the device answers      *)
(* before the host sends again.                                            *)
THEOREM GivenUpOnlyWhenLost ==
  ASSUME QuickReply
  PROVE  Spec => GivenUpWhenLost
<1> DEFINE I == Typed /\ Ordered /\ Kept /\ Young /\ OneUnderWay /\ Sendings
<1>1. Init => I
  <2>1. ASSUME Init PROVE OneUnderWay /\ Sendings
    BY <2>1 DEF Init, OneUnderWay, Quiet, Sendings
  <2>2. QED
    BY <2>1, Beginning
<1>2. I /\ [Next]_vars => I'
  BY TypesKept, OrderedKept, RepliesKept, YoungKept, OneKept
<1>3. I /\ [Next]_vars => [Cancel => lostNow > Retries]_vars
  BY EverySendingLost
<1>4. QED
  BY <1>1, <1>2, <1>3, PTL DEF Spec, GivenUpWhenLost
=============================================================================
