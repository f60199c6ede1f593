----------------------------- MODULE RateLimiter -----------------------------
(***************************************************************************)
(* The rate limiter of the WebSocket transport, transport/wsapi: a token   *)
(* bucket per client, made full when the client is first seen, and swept   *)
(* away when it has been idle for two windows.                             *)
(*                                                                         *)
(* Handlers of concurrent requests call Allow.  A handler reads the clock  *)
(* before it gets the lock, so readings reach the buckets out of order;    *)
(* MaxWait bounds how old one may be.  Tokens are counted in the parts of  *)
(* module TokenBucket, where the code has floating-point fractions.        *)
(***************************************************************************)
EXTENDS Integers

CONSTANTS
  Clients, Limit, Window, Burst,  \* as in TokenBucket
  Handlers,  \* concurrent handlers
  MaxWait,   \* bound on the ticks a handler waits for the lock
  MaxTime    \* bound on the clock

\* A bucket that was idle for two windows is full again.  WithRateLimit does
\* not check this: of a burst above 2 * Limit the sweep gives tokens away.
ASSUME RateAssumption ==
  /\ Limit \in Nat \ {0} /\ Window \in Nat \ {0} /\ Burst \in Nat \ {0}
  /\ MaxWait \in Nat /\ MaxTime \in Nat
  /\ Burst * Window <= Limit * (2 * Window - 2 * MaxWait)

VARIABLES
  clock,
  clients,    \* l.clients: the bucket of each client, or NoBucket
  lastSweep,  \* l.lastSweep
  request,    \* the request of each handler and the time it has read, or Idle
  ideal,      \* history: the bucket of each client, never dropped
  promised    \* history: when a refused client may expect to be admitted

vars == <<clock, clients, lastSweep, request, ideal, promised>>

Bucket == INSTANCE TokenBucket WITH bucket <- ideal, Times <- 0 .. MaxTime

Full == Burst * Window

IdleTTL == 2 * Window

NoClient == "none"

Min2(a, b) == IF a < b THEN a ELSE b

Idle == [client |-> NoClient, at |-> -1]

NoPromise == -1

NoBucket == [tokens |-> -1, last |-> 0, lastSeen |-> 0]

Init ==
  /\ clock = 0
  /\ clients = [c \in Clients |-> NoBucket]
  /\ lastSweep = 0
  /\ request = [h \in Handlers |-> Idle]
  /\ Bucket!Init
  /\ promised = [c \in Clients |-> NoPromise]

\* The clock does not run away from a handler that waits for the lock.
Tick ==
  /\ clock < MaxTime
  /\ \A h \in Handlers : request[h] # Idle => clock < request[h].at + MaxWait
  /\ clock' = clock + 1
  /\ UNCHANGED <<clients, lastSweep, request, ideal, promised>>

\* A request of client c: its handler reads the clock.
ReadClock(h, c) ==
  /\ request[h] = Idle
  /\ request' = [request EXCEPT ![h] = [client |-> c, at |-> clock]]
  /\ UNCHANGED <<clock, clients, lastSweep, ideal, promised>>

SweepDue(now) ==
  /\ \E c \in Clients : clients[c] # NoBucket
  /\ now - lastSweep >= IdleTTL

\* The clients whose bucket the sweep keeps.
Kept(now) ==
  {c \in Clients : clients[c] # NoBucket /\ now - clients[c].lastSeen < IdleTTL}

AfterSweep(now) ==
  [c \in Clients |-> IF SweepDue(now) /\ c \notin Kept(now) THEN NoBucket ELSE clients[c]]

\* Mutant: the time of the last sweep is set although it was not due.
MutantLastSweep(now) == now

LastSweep(now) == IF SweepDue(now) THEN now ELSE lastSweep

\* The bucket Allow starts from: the one it finds after the sweep, or a full one.
Start(c, now) ==
  LET found == AfterSweep(now)[c] IN
  IF found = NoBucket THEN [tokens |-> Full, last |-> now]
                      ELSE [tokens |-> found.tokens, last |-> found.last]

\* Mutant: a reading older than the bucket's takes tokens and turns last back.
MutantRefill(b, now) == [tokens |-> Min2(Full, b.tokens + (now - b.last) * Limit), last |-> now]

\* The refill; an older reading than the bucket's changes nothing.
Refill(b, now) ==
  IF now - b.last > 0
  THEN [tokens |-> Min2(Full, b.tokens + (now - b.last) * Limit), last |-> now]
  ELSE b

Found(c, now) == Refill(Start(c, now), now)

\* The swept buckets, with what is left in that of client c.
Store(c, now, b, cost) ==
  /\ clients' = [AfterSweep(now) EXCEPT
                   ![c] = [tokens |-> b.tokens - cost, last |-> b.last, lastSeen |-> now]]
  /\ lastSweep' = LastSweep(now)
  /\ UNCHANGED clock

\* The history's bucket follows the decision, whatever it holds.
Ideally(c, now, cost) ==
  ideal' = [ideal EXCEPT ![c] =
    LET b == Bucket!Refilled(@, now) IN [b EXCEPT !.tokens = @ - cost]]

\* Mutant: a part of a token is enough.
MutantAdmit(h) ==
  LET c == request[h].client  now == request[h].at  b == Found(c, now) IN
  /\ request[h] # Idle
  /\ b.tokens > 0
  /\ Store(c, now, b, Window)
  /\ request' = [request EXCEPT ![h] = Idle]
  /\ Ideally(c, now, Window)
  /\ promised' = [promised EXCEPT ![c] = NoPromise]

\* Allow returns Allowed.
Admit(h) ==
  LET c == request[h].client  now == request[h].at  b == Found(c, now) IN
  /\ request[h] # Idle
  /\ b.tokens >= Window
  /\ Store(c, now, b, Window)
  /\ request' = [request EXCEPT ![h] = Idle]
  /\ Ideally(c, now, Window)
  /\ promised' = [promised EXCEPT ![c] = NoPromise]

\* Mutant: the time to wait is rounded down.
MutantRetryAfter(b) == (Window - b.tokens) \div Limit

\* Ticks until there is a whole token, rounded up.
RetryAfter(b) == (Window - b.tokens + Limit - 1) \div Limit

\* Allow returns not Allowed, with RetryAfter.
Refuse(h) ==
  LET c == request[h].client  now == request[h].at  b == Found(c, now) IN
  /\ request[h] # Idle
  /\ b.tokens < Window
  /\ Store(c, now, b, 0)
  /\ request' = [request EXCEPT ![h] = Idle]
  /\ Ideally(c, now, 0)
  /\ promised' = [promised EXCEPT ![c] = clock + RetryAfter(b)]

Next ==
  \/ Tick
  \/ \E h \in Handlers, c \in Clients : ReadClock(h, c)
  \/ \E h \in Handlers : Admit(h) \/ Refuse(h)

Spec == Init /\ [][Next]_vars

-----------------------------------------------------------------------------
(* What the limiter guarantees *)

\* Every variable has its type; a bucket is neither overdrawn nor overfull.
TypeOK ==
  /\ clock \in 0 .. MaxTime
  /\ clients \in [Clients -> [tokens : 0 .. Full, last : 0 .. MaxTime,
                              lastSeen : 0 .. MaxTime] \cup {NoBucket}]
  /\ lastSweep \in 0 .. MaxTime
  /\ request \in [Handlers -> [client : Clients, at : 0 .. MaxTime] \cup {Idle}]
  /\ ideal \in [Clients -> Bucket!Buckets]

\* A client is admitted exactly when a bucket that had never been swept away
\* would have admitted it, for any order in which handlers get the lock: the
\* sweep (ratelimit.go:98-110) neither gives tokens to a client nor takes any.
LimitsLikeBuckets == Bucket!Spec

\* A refused client that waits as long as RetryAfter says, and asks nothing
\* in between, is admitted.
RetryAfterSuffices ==
  [][\A h \in Handlers :
       Refuse(h) => LET c == request[h].client IN
                    promised[c] = NoPromise \/ request[h].at < promised[c]]_vars

\* When a request has been served, no bucket is left of a client that had been
\* silent for twice the idle time: the map does not grow with every address
\* ever seen.
SilentClientsAreForgotten ==
  [][\A h \in Handlers : (Admit(h) \/ Refuse(h)) =>
       \A c \in Clients : clients'[c] # NoBucket =>
         request[h].at - clients'[c].lastSeen < 2 * IdleTTL]_vars

=============================================================================
