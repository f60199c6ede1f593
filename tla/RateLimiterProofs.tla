-------------------------- MODULE RateLimiterProofs --------------------------
(***************************************************************************)
(* Proofs about module RateLimiter, for any number of clients and handlers *)
(* and all rates: type correctness, that the limiter with its sweep        *)
(* implements TokenBucket, where no bucket is ever dropped, that the wait  *)
(* it asks for is long enough, and that it forgets silent clients.         *)
(***************************************************************************)
EXTENDS RateLimiter, TLAPS

-----------------------------------------------------------------------------
(* The inductive invariant *)

Slots == [tokens : 0 .. Full, last : 0 .. MaxTime, lastSeen : 0 .. MaxTime]

\* A handler holds no reading older than MaxWait.
ReadingsAreRecent ==
  \A h \in Handlers :
    request[h] # Idle => request[h].at <= clock /\ clock <= request[h].at + MaxWait

\* At any time a request may still carry, bucket b is full.
FullAgain(b, at) ==
  \A t \in Nat : at <= t + MaxWait => Bucket!Refilled(b, t) = [tokens |-> Full, last |-> t]

\* What the map holds for a client agrees with the bucket that is never dropped:
\* nothing, when that bucket is full again, or the same.
Agrees(slot, b, at) ==
  /\ slot = NoBucket => FullAgain(b, at)
  /\ slot # NoBucket => /\ slot.tokens = b.tokens /\ slot.last = b.last
                        /\ b.last <= slot.lastSeen + MaxWait

BucketsAgree == \A c \in Clients : ideal[c].last <= clock /\ Agrees(clients[c], ideal[c], clock)

IInv == TypeOK /\ ReadingsAreRecent /\ BucketsAgree

-----------------------------------------------------------------------------
(* Buckets *)

LEMMA Constants ==
  /\ Full \in Nat /\ Limit \in Nat /\ Window \in Nat /\ Burst \in Nat /\ MaxWait \in Nat
  /\ MaxTime \in Nat /\ Window > 0 /\ Limit > 0 /\ Full > 0
  /\ Full <= Limit * (2 * Window - 2 * MaxWait)
  /\ \A n \in Nat : n * Limit \in Nat
<1>1. /\ Limit \in Nat /\ Window \in Nat /\ Burst \in Nat /\ MaxWait \in Nat /\ MaxTime \in Nat
      /\ Window > 0 /\ Limit > 0 /\ Burst > 0
      /\ Burst * Window <= Limit * (2 * Window - 2 * MaxWait)
  BY RateAssumption
<1>2. Burst * Window \in Nat /\ Burst * Window > 0
  BY <1>1
<1>3. \A n \in Nat : n * Limit \in Nat
  BY <1>1
<1> QED
  BY <1>1, <1>2, <1>3 DEF Full

\* The idle time, less what handlers may be late, fills a bucket.
LEMMA IdleFills ==
  ASSUME NEW d \in Int, d >= 2 * Window - 2 * MaxWait
  PROVE  d > 0 /\ d * Limit \in Nat /\ d * Limit >= Full
<1> DEFINE g == 2 * Window - 2 * MaxWait
<1>1. g \in Int /\ Limit * g > 0 /\ Limit * g >= Full
  BY Constants
<1> HIDE DEF g
<1>2. g > 0
  BY <1>1, Constants
<1>3. PICK e \in Nat : d = g + e
  <2>1. d - g \in Nat /\ d = g + (d - g)
    BY <1>1 DEF g
  <2> QED
    BY <2>1
<1>4. d * Limit = Limit * g + e * Limit
  BY <1>1, <1>3, Constants
<1> QED
  BY <1>1, <1>2, <1>3, <1>4, Constants

LEMMA RefilledType ==
  ASSUME NEW b \in Bucket!Buckets, NEW t \in Nat
  PROVE  /\ Bucket!Refilled(b, t) \in Bucket!Buckets
         /\ Bucket!Refilled(b, t).last = IF t > b.last THEN t ELSE b.last
<1>1. /\ b = [tokens |-> b.tokens, last |-> b.last]
      /\ b.tokens \in 0 .. Full /\ b.last \in Nat
  BY DEF Bucket!Buckets, Bucket!Full, Full
<1>2. CASE t > b.last
  <2>1. (t - b.last) * Limit \in Nat
    BY <1>1, <1>2, Constants
  <2>2. Bucket!Min2(Bucket!Full, b.tokens + (t - b.last) * Limit) \in 0 .. Full
    BY <1>1, <2>1, Constants DEF Bucket!Min2, Bucket!Full, Full
  <2> QED
    BY <1>1, <1>2, <2>2 DEF Bucket!Refilled, Bucket!Buckets, Bucket!Full, Full
<1>3. CASE ~(t > b.last)
  BY <1>1, <1>3 DEF Bucket!Refilled
<1> QED
  BY <1>2, <1>3

\* A bucket that a sweep drops is full again for every request still to come.
LEMMA DroppedIsFull ==
  ASSUME NEW b \in Bucket!Buckets, NEW slot \in Slots, NEW now \in Nat, NEW at \in Nat,
         slot.last = b.last, b.last <= slot.lastSeen + MaxWait,
         now - slot.lastSeen >= IdleTTL, now <= at
  PROVE  FullAgain(b, at)
<1> SUFFICES ASSUME NEW t \in Nat, at <= t + MaxWait
             PROVE  Bucket!Refilled(b, t) = [tokens |-> Full, last |-> t]
  BY DEF FullAgain
<1>1. /\ b = [tokens |-> b.tokens, last |-> b.last]
      /\ b.tokens \in 0 .. Full /\ b.last \in Nat /\ slot.lastSeen \in Nat
  BY Constants DEF Bucket!Buckets, Bucket!Full, Full, Slots
<1>2. t - b.last \in Int /\ t - b.last >= 2 * Window - 2 * MaxWait
  BY <1>1, Constants DEF IdleTTL
<1>3. t - b.last > 0 /\ (t - b.last) * Limit \in Nat /\ (t - b.last) * Limit >= Full
  BY <1>2, IdleFills
<1>4. Bucket!Min2(Bucket!Full, b.tokens + (t - b.last) * Limit) = Full
  BY <1>1, <1>3, Constants DEF Bucket!Min2, Bucket!Full, Full
<1>5. t > b.last
  BY <1>1, <1>3
<1> QED
  BY <1>1, <1>4, <1>5 DEF Bucket!Refilled

-----------------------------------------------------------------------------
(* One call of Allow *)

\* The sweep keeps what the map holds in agreement.
LEMMA SweepAgrees ==
  ASSUME IInv, NEW now \in 0 .. MaxTime, now <= clock, NEW c \in Clients
  PROVE  /\ AfterSweep(now)[c] \in Slots \cup {NoBucket}
         /\ Agrees(AfterSweep(now)[c], ideal[c], clock)
<1>1. /\ clients[c] \in Slots \cup {NoBucket} /\ ideal[c] \in Bucket!Buckets
      /\ Agrees(clients[c], ideal[c], clock) /\ clock \in Nat
  BY Constants DEF IInv, TypeOK, BucketsAgree, Slots
<1>2. CASE AfterSweep(now)[c] = clients[c]
  BY <1>1, <1>2
<1>3. CASE AfterSweep(now)[c] # clients[c]
  <2>1. /\ clients[c] # NoBucket /\ AfterSweep(now)[c] = NoBucket
        /\ ~(now - clients[c].lastSeen < IdleTTL)
    BY <1>3 DEF AfterSweep, Kept
  <2>2. clients[c] \in Slots
    BY <1>1, <2>1
  <2>3. now - clients[c].lastSeen >= IdleTTL
    BY <2>1, <2>2, Constants DEF Slots, IdleTTL
  <2>4. FullAgain(ideal[c], clock)
    BY <1>1, <2>1, <2>2, <2>3, DroppedIsFull, Constants DEF Agrees
  <2> QED
    BY <2>1, <2>4 DEF Agrees
<1> QED
  BY <1>2, <1>3

\* A handler's request is of a client, and its reading is not far behind.
LEMMA RequestType ==
  ASSUME IInv, NEW h \in Handlers, request[h] # Idle
  PROVE  /\ request[h].client \in Clients /\ request[h].at \in 0 .. MaxTime
         /\ request[h].at <= clock /\ clock <= request[h].at + MaxWait
BY DEF IInv, TypeOK, ReadingsAreRecent

\* So Allow decides on the bucket that was never dropped.
LEMMA FoundIsIdeal ==
  ASSUME IInv, NEW c \in Clients, NEW now \in 0 .. MaxTime,
         now <= clock, clock <= now + MaxWait
  PROVE  Found(c, now) = Bucket!Refilled(ideal[c], now)
<1>1. /\ AfterSweep(now)[c] \in Slots \cup {NoBucket}
      /\ Agrees(AfterSweep(now)[c], ideal[c], clock)
  BY SweepAgrees
<1>2. now \in Nat /\ ideal[c] \in Bucket!Buckets
  BY Constants DEF IInv, TypeOK
<1>3. CASE AfterSweep(now)[c] = NoBucket
  <2>1. Bucket!Refilled(ideal[c], now) = [tokens |-> Full, last |-> now]
    BY <1>1, <1>2, <1>3 DEF Agrees, FullAgain
  <2>2. Start(c, now) = [tokens |-> Full, last |-> now]
    BY <1>3 DEF Start
  <2>3. Found(c, now) = [tokens |-> Full, last |-> now]
    BY <1>2, <2>2 DEF Found, Refill
  <2> QED
    BY <2>1, <2>3
<1>4. CASE AfterSweep(now)[c] # NoBucket
  <2>1. Start(c, now) = ideal[c]
    BY <1>1, <1>2, <1>4 DEF Start, Agrees, Bucket!Buckets
  <2>2. /\ ideal[c] = [tokens |-> ideal[c].tokens, last |-> ideal[c].last]
        /\ ideal[c].last \in Nat
    BY <1>2 DEF Bucket!Buckets
  <2>3. now - ideal[c].last > 0 <=> now > ideal[c].last
    BY <1>2, <2>2
  <2> QED
    BY <2>1, <2>2, <2>3 DEF Found, Refill, Bucket!Refilled, Min2, Bucket!Min2, Full, Bucket!Full
<1> QED
  BY <1>3, <1>4

\* A decision that costs this many parts of a token.
Serves(h, cost) ==
  LET c == request[h].client  now == request[h].at  b == Found(c, now) IN
  /\ request[h] # Idle
  /\ cost \in 0 .. b.tokens
  /\ Store(c, now, b, cost)
  /\ request' = [request EXCEPT ![h] = Idle]
  /\ Ideally(c, now, cost)

LEMMA AllowServes ==
  ASSUME IInv, NEW h \in Handlers
  PROVE  /\ Admit(h) => Serves(h, Window)
         /\ Refuse(h) => Serves(h, 0)
<1> SUFFICES ASSUME request[h] # Idle
             PROVE  Found(request[h].client, request[h].at).tokens \in Nat
  BY Constants DEF Admit, Refuse, Serves
<1> DEFINE c == request[h].client
           now == request[h].at
<1>1. c \in Clients /\ now \in Nat /\ Found(c, now) = Bucket!Refilled(ideal[c], now)
  BY RequestType, FoundIsIdeal, Constants
<1>2. Bucket!Refilled(ideal[c], now) \in Bucket!Buckets
  BY <1>1, RefilledType DEF IInv, TypeOK
<1> QED
  BY <1>1, <1>2 DEF Bucket!Buckets, Bucket!Full

\* A decision keeps the invariant.
LEMMA ServeStep ==
  ASSUME IInv, NEW h \in Handlers, NEW cost \in Nat, Serves(h, cost)
  PROVE  IInv'
<1> DEFINE c == request[h].client
           now == request[h].at
           b == Found(c, now)
           slot == [tokens |-> b.tokens - cost, last |-> b.last, lastSeen |-> now]
           left == [b EXCEPT !.tokens = @ - cost]
<1>1. /\ c \in Clients /\ now \in 0 .. MaxTime /\ now \in Nat
      /\ now <= clock /\ clock <= now + MaxWait /\ clock' = clock /\ clock \in 0 .. MaxTime
  BY RequestType, Constants DEF Serves, Store, IInv, TypeOK
<1>2. b = Bucket!Refilled(ideal[c], now) /\ ideal[c] \in Bucket!Buckets
  BY <1>1, FoundIsIdeal DEF IInv, TypeOK
<1>3. /\ b \in Bucket!Buckets /\ b.last = IF now > ideal[c].last THEN now ELSE ideal[c].last
      /\ ideal[c].last <= clock /\ ideal[c].last \in Nat
  BY <1>1, <1>2, RefilledType DEF IInv, BucketsAgree, Bucket!Buckets
<1>4. /\ clients' = [AfterSweep(now) EXCEPT ![c] = slot]
      /\ ideal' = [ideal EXCEPT ![c] = left]
      /\ request' = [request EXCEPT ![h] = Idle]
      /\ cost \in 0 .. b.tokens /\ lastSweep' = LastSweep(now)
  BY <1>2 DEF Serves, Store, Ideally
<1> HIDE DEF c, now, b
<1>5. /\ b.tokens \in 0 .. Full /\ b.last \in 0 .. MaxTime /\ b.last <= clock
      /\ b.last <= now + MaxWait
  BY <1>1, <1>3, Constants DEF Bucket!Buckets, Bucket!Full, Full
<1>6. slot \in Slots /\ slot # NoBucket
  BY <1>1, <1>4, <1>5, Constants DEF Slots, NoBucket
<1>7. left \in Bucket!Buckets /\ left.tokens = slot.tokens /\ left.last = slot.last
  BY <1>3, <1>4, <1>5, Constants DEF Bucket!Buckets, Bucket!Full, Full
<1> HIDE DEF slot, left
<1>8. TypeOK'
  <2>1. \A d \in Clients : AfterSweep(now)[d] \in Slots \cup {NoBucket}
    BY <1>1, SweepAgrees
  <2>2. clients' \in [Clients -> Slots \cup {NoBucket}]
    BY <1>4, <1>6, <2>1 DEF AfterSweep
  <2>3. lastSweep' \in 0 .. MaxTime
    BY <1>1, <1>4 DEF LastSweep, IInv, TypeOK
  <2>4. ideal' \in [Clients -> Bucket!Buckets]
    BY <1>4, <1>7 DEF IInv, TypeOK
  <2>5. request' \in [Handlers -> [client : Clients, at : 0 .. MaxTime] \cup {Idle}]
    BY <1>4 DEF IInv, TypeOK
  <2> QED
    BY <1>1, <2>2, <2>3, <2>4, <2>5 DEF TypeOK, Slots
<1>9. ReadingsAreRecent'
  BY <1>1, <1>4 DEF IInv, ReadingsAreRecent, TypeOK
<1>10. BucketsAgree'
  <2> SUFFICES ASSUME NEW d \in Clients
               PROVE  ideal'[d].last <= clock' /\ Agrees(clients'[d], ideal'[d], clock')
    BY DEF BucketsAgree
  <2>1. CASE d = c
    <3>1. clients'[d] = slot /\ ideal'[d] = left
      BY <1>1, <1>4, <2>1 DEF AfterSweep, IInv, TypeOK
    <3>2. left.last <= clock /\ left.last <= slot.lastSeen + MaxWait
      BY <1>5, <1>7 DEF slot
    <3> QED
      BY <1>1, <1>6, <1>7, <3>1, <3>2 DEF Agrees
  <2>2. CASE d # c
    <3>1. clients'[d] = AfterSweep(now)[d] /\ ideal'[d] = ideal[d]
      BY <1>4, <2>2 DEF AfterSweep, IInv, TypeOK
    <3>2. Agrees(AfterSweep(now)[d], ideal[d], clock) /\ ideal[d].last <= clock
      BY <1>1, SweepAgrees DEF IInv, BucketsAgree
    <3> QED
      BY <1>1, <3>1, <3>2 DEF Agrees, FullAgain
  <2> QED
    BY <2>1, <2>2
<1> QED
  BY <1>8, <1>9, <1>10 DEF IInv

-----------------------------------------------------------------------------
(* The other steps *)

LEMMA InitStep == Init => IInv
<1> SUFFICES ASSUME Init PROVE IInv
  OBVIOUS
<1> USE DEF Init
<1>1. ideal = [c \in Clients |-> [tokens |-> Full, last |-> 0]]
  BY DEF Bucket!Init, Bucket!Full, Full
<1>2. TypeOK
  BY <1>1, Constants DEF TypeOK, Bucket!Buckets, Bucket!Full, Full
<1>3. ReadingsAreRecent
  BY DEF ReadingsAreRecent
<1>4. ASSUME NEW b \in Bucket!Buckets, b.tokens = Full, b.last = 0
      PROVE  FullAgain(b, 0)
  <2> SUFFICES ASSUME NEW t \in Nat
               PROVE  Bucket!Refilled(b, t) = [tokens |-> Full, last |-> t]
    BY DEF FullAgain
  <2>1. b = [tokens |-> Full, last |-> 0]
    BY <1>4 DEF Bucket!Buckets
  <2>2. t - b.last = t /\ t * Limit \in Nat
    BY <1>4, Constants
  <2>3. Bucket!Min2(Bucket!Full, b.tokens + (t - b.last) * Limit) = Full
    BY <1>4, <2>2, Constants DEF Bucket!Min2, Bucket!Full, Full
  <2>4. CASE t = 0
    <3>1. ~(t > b.last)
      BY <1>4, <2>4
    <3> QED
      BY <2>1, <2>4, <3>1 DEF Bucket!Refilled
  <2>5. CASE t > 0
    <3>1. t > b.last
      BY <1>4, <2>5
    <3> QED
      BY <2>1, <2>3, <3>1 DEF Bucket!Refilled
  <2> QED
    BY <2>4, <2>5
<1>5. BucketsAgree
  <2> SUFFICES ASSUME NEW c \in Clients
               PROVE  ideal[c].last <= clock /\ Agrees(clients[c], ideal[c], clock)
    BY DEF BucketsAgree
  <2>1. /\ ideal[c] \in Bucket!Buckets /\ ideal[c].tokens = Full /\ ideal[c].last = 0
        /\ clients[c] = NoBucket
    BY <1>1, <1>2 DEF TypeOK
  <2>2. clock = 0 /\ FullAgain(ideal[c], clock)
    BY <1>4, <2>1
  <2>3. ideal[c].last <= clock
    BY <2>1, <2>2
  <2>4. Agrees(clients[c], ideal[c], clock)
    BY <2>1, <2>2, Zenon DEF Agrees
  <2> QED
    BY <2>3, <2>4
<1> QED
  BY <1>2, <1>3, <1>5 DEF IInv

LEMMA TickStep ==
  ASSUME IInv, Tick
  PROVE  IInv'
<1>1. clock \in Nat /\ clock' = clock + 1 /\ clock' \in 0 .. MaxTime
  BY Constants DEF IInv, TypeOK, Tick
<1>2. TypeOK'
  BY <1>1 DEF IInv, TypeOK, Tick
<1>3. ReadingsAreRecent'
  BY <1>1, Constants DEF IInv, TypeOK, ReadingsAreRecent, Tick
<1>4. BucketsAgree'
  <2> SUFFICES ASSUME NEW c \in Clients
               PROVE  ideal[c].last <= clock' /\ Agrees(clients[c], ideal[c], clock')
    BY DEF BucketsAgree, Tick
  <2>1. ideal[c].last \in Nat /\ ideal[c].last <= clock /\ Agrees(clients[c], ideal[c], clock)
    BY DEF IInv, TypeOK, BucketsAgree, Bucket!Buckets
  <2>2. FullAgain(ideal[c], clock) => FullAgain(ideal[c], clock')
    BY <1>1, Constants DEF FullAgain
  <2> QED
    BY <1>1, <2>1, <2>2 DEF Agrees, Tick
<1> QED
  BY <1>2, <1>3, <1>4 DEF IInv

LEMMA ReadClockStep ==
  ASSUME IInv, NEW h \in Handlers, NEW c \in Clients, ReadClock(h, c)
  PROVE  IInv'
<1>1. TypeOK'
  BY DEF IInv, TypeOK, ReadClock
<1>2. ReadingsAreRecent'
  BY Constants DEF IInv, TypeOK, ReadingsAreRecent, ReadClock
<1>3. BucketsAgree'
  BY DEF IInv, BucketsAgree, ReadClock, Agrees, FullAgain
<1> QED
  BY <1>1, <1>2, <1>3 DEF IInv

LEMMA Inductive == Spec => []IInv
<1>1. ASSUME IInv, [Next]_vars
      PROVE  IInv'
  <2>1. CASE UNCHANGED vars
    BY <1>1, <2>1 DEF vars, IInv, TypeOK, ReadingsAreRecent, BucketsAgree, Agrees, FullAgain
  <2>2. ASSUME NEW h \in Handlers, Admit(h) \/ Refuse(h)
        PROVE  IInv'
    BY <1>1, <2>2, AllowServes, ServeStep, Constants
  <2> QED
    BY <1>1, <2>1, <2>2, TickStep, ReadClockStep DEF Next
<1> QED
  BY <1>1, InitStep, PTL DEF Spec

-----------------------------------------------------------------------------
(* The theorems *)

\* Every variable keeps its type: no bucket is overdrawn or overfull, in
\* whatever order handlers get the lock.
THEOREM TypeCorrect == Spec => []TypeOK
<1>1. IInv => TypeOK
  BY DEF IInv
<1> QED
  BY <1>1, Inductive, PTL

\* The limiter implements TokenBucket: each decision of Allow is the one that a
\* bucket never swept away would make.
THEOREM SweepIsInvisible == Spec => LimitsLikeBuckets
<1>1. Init => Bucket!Init
  BY DEF Init
<1>2. ASSUME IInv, [Next]_vars
      PROVE  [Bucket!Next]_ideal
  <2>1. ASSUME NEW h \in Handlers, Admit(h) \/ Refuse(h)
        PROVE  Bucket!Next
    <3> DEFINE c == request[h].client
               now == request[h].at
    <3>1. request[h] # Idle
      BY <2>1 DEF Admit, Refuse
    <3>2. /\ c \in Clients /\ now \in 0 .. MaxTime
          /\ Found(c, now) = Bucket!Refilled(ideal[c], now)
      BY <1>2, <3>1, RequestType, FoundIsIdeal
    <3>3. Bucket!Refilled(ideal[c], now) \in Bucket!Buckets
      BY <1>2, <3>2, RefilledType, Constants DEF IInv, TypeOK
    <3>4. Admit(h) => Bucket!Admit(c, now)
      BY <3>2 DEF Admit, Ideally, Bucket!Admit
    <3>5. Refuse(h) => Bucket!Refuse(c, now)
      <4>1. ASSUME NEW b \in Bucket!Buckets
            PROVE  [b EXCEPT !.tokens = b.tokens - 0] = b
        <5>1. b.tokens - 0 = b.tokens
          BY Constants DEF Bucket!Buckets, Bucket!Full, Full
        <5> QED
          BY <5>1 DEF Bucket!Buckets
      <4> QED
        BY <3>2, <3>3, <4>1 DEF Refuse, Ideally, Bucket!Refuse
    <3> QED
      BY <2>1, <3>2, <3>4, <3>5 DEF Bucket!Next
  <2>2. Tick \/ (\E h \in Handlers, c \in Clients : ReadClock(h, c)) \/ UNCHANGED vars
        => UNCHANGED ideal
    BY DEF Tick, ReadClock, vars
  <2> QED
    BY <1>2, <2>1, <2>2 DEF Next
<1> QED
  BY <1>1, <1>2, Inductive, PTL DEF Spec, LimitsLikeBuckets, Bucket!Spec

-----------------------------------------------------------------------------
(* The time to wait *)

\* Whoever has been promised to be admitted finds a whole token from then on.
PromisesHold ==
  /\ promised \in [Clients -> Nat \cup {NoPromise}]
  /\ \A c \in Clients : promised[c] # NoPromise =>
       \A t \in Nat : t >= promised[c] => Bucket!Refilled(ideal[c], t).tokens >= Window

\* A division rounded up is not too small.
LEMMA RoundedUp ==
  ASSUME NEW m \in Nat, NEW l \in Nat, l > 0
  PROVE  /\ (m + l - 1) \div l \in Nat
         /\ ((m + l - 1) \div l) * l >= m
<1> DEFINE x == m + l - 1
           q == x \div l
<1>1. x \in Nat
  OBVIOUS
<1>2. q \in Nat /\ x = l * q + (x % l) /\ x % l \in 0 .. l - 1
  BY <1>1
<1>3. q * l >= m
  BY <1>2
<1> QED
  BY <1>2, <1>3

LEMMA WaitType ==
  ASSUME NEW b \in Bucket!Buckets, b.tokens < Window
  PROVE  RetryAfter(b) \in Nat /\ RetryAfter(b) * Limit >= Window - b.tokens
<1> DEFINE m == Window - b.tokens
<1>1. m \in Nat
  BY Constants DEF Bucket!Buckets, Bucket!Full, Full
<1> HIDE DEF m
<1>2. RetryAfter(b) = (m + Limit - 1) \div Limit
  BY DEF RetryAfter, m
<1>3. RetryAfter(b) \in Nat /\ RetryAfter(b) * Limit >= m
  BY <1>1, <1>2, RoundedUp, Constants
<1> QED
  BY <1>3 DEF m

\* A bucket with less than a token has one when the time to wait is over.
LEMMA WaitFills ==
  ASSUME NEW b \in Bucket!Buckets, b.tokens < Window, NEW t \in Nat,
         t >= b.last + RetryAfter(b)
  PROVE  Bucket!Refilled(b, t).tokens >= Window
<1>1. /\ b = [tokens |-> b.tokens, last |-> b.last]
      /\ b.tokens \in 0 .. Full /\ b.last \in Nat
  BY DEF Bucket!Buckets, Bucket!Full, Full
<1> DEFINE m == Window - b.tokens
           r == RetryAfter(b)
           d == t - b.last
<1>2. m \in Nat /\ m > 0
  BY <1>1, Constants
<1>3. r \in Nat /\ r * Limit >= m
  BY WaitType
<1> HIDE DEF m, r
<1>4. d \in Nat /\ d >= r
  BY <1>1, <1>3 DEF r
<1>5. d * Limit \in Nat /\ d * Limit >= r * Limit
  <2>1. PICK e \in Nat : d = r + e
    <3>1. d - r \in Nat /\ d = r + (d - r)
      BY <1>3, <1>4
    <3> QED
      BY <3>1
  <2>2. e * Limit \in Nat /\ r * Limit \in Nat
    BY <1>3, Constants
  <2> HIDE DEF d
  <2>3. d * Limit = r * Limit + e * Limit
    BY <1>3, <2>1, Constants
  <2> QED
    BY <2>2, <2>3
<1>6. d > 0
  <2> SUFFICES ASSUME d = 0 PROVE FALSE
    BY <1>4
  <2>1. r = 0
    BY <1>3, <1>4
  <2>2. 0 * Limit = 0
    BY Constants
  <2> QED
    BY <1>2, <1>3, <2>1, <2>2
<1>7. Full >= Window
  BY RateAssumption DEF Full
<1>8. r * Limit \in Int
  BY <1>3, Constants
<1>9. b.tokens + d * Limit >= Window
  BY <1>1, <1>3, <1>5, <1>8, Constants DEF m
<1>10. Bucket!Min2(Full, b.tokens + d * Limit) >= Window
  <2> HIDE DEF d
  <2> QED
    BY <1>1, <1>5, <1>7, <1>9, Constants DEF Bucket!Min2
<1>11. t > b.last
  BY <1>1, <1>6
<1>12. Bucket!Refilled(b, t).tokens = Bucket!Min2(Full, b.tokens + d * Limit)
  BY <1>1, <1>11, Zenon DEF Bucket!Refilled, Bucket!Full, Full
<1> QED
  BY <1>10, <1>12

\* The bucket a decision is made on, and when.
LEMMA Decides ==
  ASSUME IInv, NEW h \in Handlers, Admit(h) \/ Refuse(h),
         NEW c, c = request[h].client, NEW now, now = request[h].at
  PROVE  /\ c \in Clients /\ now \in 0 .. MaxTime /\ now \in Nat
         /\ now <= clock /\ clock <= now + MaxWait
         /\ Found(c, now) = Bucket!Refilled(ideal[c], now)
         /\ Found(c, now) \in Bucket!Buckets /\ Found(c, now).last <= clock
<1>1. request[h] # Idle
  BY DEF Admit, Refuse
<1>2. /\ c \in Clients /\ now \in 0 .. MaxTime /\ now \in Nat
      /\ now <= clock /\ clock <= now + MaxWait
  BY <1>1, RequestType, Constants
<1>3. Found(c, now) = Bucket!Refilled(ideal[c], now)
  BY <1>2, FoundIsIdeal
<1>4. ideal[c] \in Bucket!Buckets /\ ideal[c].last <= clock
  BY <1>2 DEF IInv, TypeOK, BucketsAgree
<1>5. PICK b \in Bucket!Buckets : b = ideal[c]
  BY <1>4
<1>6. Bucket!Refilled(b, now) \in Bucket!Buckets
      /\ Bucket!Refilled(b, now).last = IF now > b.last THEN now ELSE b.last
  BY <1>2, RefilledType
<1> QED
  BY <1>2, <1>3, <1>4, <1>5, <1>6

LEMMA PromiseInit == Init => PromisesHold
BY DEF Init, PromisesHold

LEMMA PromiseStep ==
  ASSUME IInv, PromisesHold, [Next]_vars
  PROVE  PromisesHold'
<1>1. CASE UNCHANGED <<ideal, promised>>
  BY <1>1 DEF PromisesHold
<1>2. ASSUME NEW h \in Handlers, Admit(h) \/ Refuse(h)
      PROVE  PromisesHold'
  <2>1. PICK c, now : c = request[h].client /\ now = request[h].at
    OBVIOUS
  <2>2. /\ c \in Clients /\ Found(c, now) \in Bucket!Buckets /\ Found(c, now).last <= clock
        /\ now \in Nat /\ Found(c, now) = Bucket!Refilled(ideal[c], now)
    BY <1>2, <2>1, Decides
  <2>3. PICK b \in Bucket!Buckets : b = Found(c, now)
    BY <2>2
  <2>4. clock \in Nat
    BY Constants DEF IInv, TypeOK
  <2>5. promised \in [Clients -> Nat \cup {NoPromise}] /\ ideal \in [Clients -> Bucket!Buckets]
    BY DEF PromisesHold, IInv, TypeOK
  <2>6. CASE Admit(h)
    <3>1. promised' = [promised EXCEPT ![c] = NoPromise]
      BY <2>1, <2>6, Zenon DEF Admit
    <3>2. \A d \in Clients : d # c => ideal'[d] = ideal[d]
      BY <2>1, <2>5, <2>6 DEF Admit, Ideally
    <3> QED
      BY <2>2, <2>5, <3>1, <3>2 DEF PromisesHold
  <2>7. CASE Refuse(h)
    <3>1. promised' = [promised EXCEPT ![c] = clock + RetryAfter(b)] /\ b.tokens < Window
      BY <2>1, <2>3, <2>7, Zenon DEF Refuse
    <3>2. ideal' = [ideal EXCEPT ![c] = [b EXCEPT !.tokens = b.tokens - 0]]
      BY <2>1, <2>2, <2>3, <2>7, Zenon DEF Refuse, Ideally
    <3>3. b.tokens \in Nat /\ b.last \in Nat /\ b.last <= clock
      BY <2>2, <2>3, Constants DEF Bucket!Buckets, Bucket!Full, Full
    <3>4. [b EXCEPT !.tokens = b.tokens - 0] = b
      <4>1. b.tokens - 0 = b.tokens
        BY <3>3
      <4> QED
        BY <4>1 DEF Bucket!Buckets
    <3>5. ideal'[c] = b /\ promised'[c] = clock + RetryAfter(b)
      BY <2>2, <2>5, <3>1, <3>2, <3>4
    <3>6. RetryAfter(b) \in Nat
      BY <3>1, WaitType
    <3>7. ASSUME NEW t \in Nat, t >= clock + RetryAfter(b)
          PROVE  Bucket!Refilled(b, t).tokens >= Window
      <4>1. t >= b.last + RetryAfter(b)
        BY <2>4, <3>3, <3>6, <3>7
      <4> QED
        BY <3>1, <4>1, WaitFills
    <3>8. clock + RetryAfter(b) \in Nat
      BY <2>4, <3>6
    <3>9. promised' \in [Clients -> Nat \cup {NoPromise}]
      BY <2>5, <3>1, <3>8
    <3>10. \A d \in Clients : d # c => ideal'[d] = ideal[d] /\ promised'[d] = promised[d]
      BY <2>5, <3>1, <3>2
    <3> QED
      BY <3>5, <3>7, <3>9, <3>10 DEF PromisesHold
  <2> QED
    BY <1>2, <2>6, <2>7
<1> QED
  BY <1>1, <1>2 DEF Next, Tick, ReadClock, vars

\* A refused client that comes back when RetryAfter has passed is not refused
\* again, at any rate and whoever else asks in between: the rounding up of the
\* wait (ratelimit.go:94) and the readings that are late are accounted for.
THEOREM PromisesAreKept == Spec => RetryAfterSuffices
<1>1. ASSUME IInv, PromisesHold, NEW h \in Handlers, Refuse(h)
      PROVE  \/ promised[request[h].client] = NoPromise
             \/ request[h].at < promised[request[h].client]
  <2>1. PICK c, now : c = request[h].client /\ now = request[h].at
    OBVIOUS
  <2>2. /\ c \in Clients /\ now \in Nat
        /\ Found(c, now) = Bucket!Refilled(ideal[c], now) /\ Found(c, now) \in Bucket!Buckets
    BY <1>1, <2>1, Decides
  <2>3. Found(c, now).tokens < Window
    BY <1>1, <2>1, Zenon DEF Refuse
  <2>4. Found(c, now).tokens \in Nat
    BY <2>2, Constants DEF Bucket!Buckets, Bucket!Full, Full
  <2>5. ASSUME promised[c] # NoPromise, now >= promised[c] PROVE FALSE
    <3>1. Bucket!Refilled(ideal[c], now).tokens >= Window
      BY <1>1, <2>2, <2>5 DEF PromisesHold
    <3> QED
      BY <2>2, <2>3, <2>4, <3>1, Constants
  <2>6. promised[c] \in Nat \cup {NoPromise}
    BY <1>1, <2>2 DEF PromisesHold
  <2> QED
    BY <2>1, <2>2, <2>5, <2>6
<1>2. IInv /\ PromisesHold =>
        [\A h \in Handlers :
           Refuse(h) => LET c == request[h].client IN
                        promised[c] = NoPromise \/ request[h].at < promised[c]]_vars
  BY <1>1
<1>3. IInv /\ PromisesHold /\ [Next]_vars => PromisesHold'
  BY PromiseStep
<1> QED
  BY <1>2, <1>3, PromiseInit, Inductive, PTL DEF Spec, RetryAfterSuffices

-----------------------------------------------------------------------------
(* The sweep *)

\* No bucket in the map was idle when the last sweep ran.
SweptClean ==
  /\ lastSweep <= clock
  /\ \A c \in Clients : clients[c] # NoBucket => clients[c].lastSeen > lastSweep - IdleTTL

LEMMA SweptInit == Init => SweptClean
BY DEF Init, SweptClean

\* Handlers wait for less than the idle time.
LEMMA WaitIsShort == MaxWait < IdleTTL /\ IdleTTL \in Nat /\ IdleTTL > 0
<1>1. MaxWait < Window
  <2> SUFFICES ASSUME MaxWait >= Window PROVE FALSE
    BY Constants
  <2> DEFINE g == 2 * Window - 2 * MaxWait
  <2>1. g \in Int /\ g <= 0 /\ Full <= Limit * g
    BY Constants
  <2> HIDE DEF g
  <2>2. Limit * g <= 0
    BY <2>1, Constants
  <2>3. Limit * g \in Int
    BY <2>1, Constants
  <2> QED
    BY <2>1, <2>2, <2>3, Constants
<1> QED
  BY <1>1, Constants DEF IdleTTL

\* What a decision leaves in the map: the bucket of its client, seen at its time,
\* and others that were not idle then, or have been seen since the last sweep.
LEMMA DecisionLeaves ==
  ASSUME IInv, SweptClean, NEW h \in Handlers, Admit(h) \/ Refuse(h),
         NEW now, now = request[h].at, NEW d \in Clients, clients'[d] # NoBucket
  PROVE  /\ now - clients'[d].lastSeen < 2 * IdleTTL
         /\ clients'[d].lastSeen > lastSweep' - IdleTTL
         /\ lastSweep' <= clock'
<1>1. PICK c : c = request[h].client
  OBVIOUS
<1>2. /\ c \in Clients /\ now \in Nat /\ now <= clock /\ clock <= now + MaxWait
      /\ clock \in Nat /\ lastSweep \in Nat /\ lastSweep <= clock
  BY <1>1, Decides, Constants DEF IInv, TypeOK, SweptClean
<1>3. PICK b, cost : Store(c, now, b, cost)
  BY <1>1, Zenon DEF Admit, Refuse
<1>4. /\ clients' = [AfterSweep(now) EXCEPT
           ![c] = [tokens |-> b.tokens - cost, last |-> b.last, lastSeen |-> now]]
      /\ lastSweep' = LastSweep(now) /\ clock' = clock
  BY <1>3, Zenon DEF Store
<1>5. lastSweep' = now \/ (lastSweep' = lastSweep /\ ~SweepDue(now))
  BY <1>4 DEF LastSweep
<1>6. MaxWait < IdleTTL /\ IdleTTL \in Nat /\ IdleTTL > 0 /\ MaxWait \in Nat
  BY WaitIsShort, Constants
<1>7. lastSweep' <= clock'
  BY <1>2, <1>4, <1>5
<1>8. CASE d = c
  <2>1. clients'[d].lastSeen = now
    BY <1>2, <1>4, <1>8 DEF AfterSweep
  <2> QED
    BY <1>2, <1>5, <1>6, <1>7, <2>1
<1>9. CASE d # c
  <2>1. clients'[d] = AfterSweep(now)[d]
    BY <1>4, <1>9 DEF AfterSweep
  <2>2. clients'[d] = clients[d] /\ (SweepDue(now) => d \in Kept(now))
    BY <2>1 DEF AfterSweep
  <2>3. PICK seen \in Nat : seen = clients[d].lastSeen
    BY <2>2, Constants DEF IInv, TypeOK
  <2>4. seen > lastSweep - IdleTTL
    BY <2>2, <2>3 DEF SweptClean
  <2>5. CASE SweepDue(now)
    <3>1. now - seen < IdleTTL
      BY <2>2, <2>3, <2>5 DEF Kept
    <3>2. lastSweep' = now
      BY <1>4, <2>5 DEF LastSweep
    <3> QED
      BY <1>2, <1>6, <1>7, <2>2, <2>3, <3>1, <3>2
  <2>6. CASE ~SweepDue(now)
    <3>1. ~(now - lastSweep >= IdleTTL)
      BY <2>2, <2>6 DEF SweepDue
    <3>2. lastSweep' = lastSweep
      BY <1>4, <2>6 DEF LastSweep
    <3> QED
      BY <1>2, <1>6, <1>7, <2>2, <2>3, <2>4, <3>1, <3>2
  <2> QED
    BY <2>5, <2>6
<1> QED
  BY <1>8, <1>9

LEMMA SweptStep ==
  ASSUME IInv, SweptClean, [Next]_vars
  PROVE  SweptClean'
<1>1. clock \in Nat /\ lastSweep \in Nat /\ lastSweep <= clock
  BY Constants DEF IInv, TypeOK, SweptClean
<1>2. CASE UNCHANGED <<clients, lastSweep>> /\ (clock' = clock \/ clock' = clock + 1)
  BY <1>1, <1>2 DEF SweptClean
<1>3. ASSUME NEW h \in Handlers, Admit(h) \/ Refuse(h)
      PROVE  SweptClean'
  <2>1. PICK now : now = request[h].at
    OBVIOUS
  <2>2. PICK c : c = request[h].client
    OBVIOUS
  <2>3. /\ lastSweep' \in {now, lastSweep} /\ clock' = clock
    BY <1>3, <2>1 DEF Admit, Refuse, Store, LastSweep
  <2>4. lastSweep' <= clock'
    BY <1>1, <1>3, <2>1, <2>2, <2>3, Decides
  <2>5. \A d \in Clients : clients'[d] # NoBucket => clients'[d].lastSeen > lastSweep' - IdleTTL
    BY <1>3, <2>1, DecisionLeaves
  <2> QED
    BY <2>4, <2>5 DEF SweptClean
<1> QED
  BY <1>2, <1>3 DEF Next, Tick, ReadClock, vars

\* A sweep happens often enough, in whatever order handlers get the lock: after
\* any decision no bucket is left of a client silent for two idle times, although
\* no sweep runs but in a call of Allow, and none before it is due
\* (ratelimit.go:98-110).
THEOREM TheSilentAreForgotten == Spec => SilentClientsAreForgotten
<1>1. ASSUME IInv, SweptClean, NEW h \in Handlers, Admit(h) \/ Refuse(h),
             NEW c \in Clients, clients'[c] # NoBucket
      PROVE  request[h].at - clients'[c].lastSeen < 2 * IdleTTL
  <2>1. PICK now : now = request[h].at
    OBVIOUS
  <2> QED
    BY <1>1, <2>1, DecisionLeaves
<1>2. IInv /\ SweptClean =>
        [\A h \in Handlers : (Admit(h) \/ Refuse(h)) =>
           \A c \in Clients : clients'[c] # NoBucket =>
             request[h].at - clients'[c].lastSeen < 2 * IdleTTL]_vars
  BY <1>1
<1>3. IInv /\ SweptClean /\ [Next]_vars => SweptClean'
  BY SweptStep
<1> QED
  BY <1>2, <1>3, SweptInit, Inductive, PTL DEF Spec, SilentClientsAreForgotten

=============================================================================
