----------------------------- MODULE TokenBucket -----------------------------
(***************************************************************************)
(* What a rate limiter promises each of its clients: a bucket of Burst     *)
(* tokens that is refilled with Limit tokens in every Window, is never     *)
(* replaced or forgotten, and pays for each request that is admitted.  A   *)
(* request is refused only when there is no token.  Module RateLimiter     *)
(* implements it with buckets that it drops.                               *)
(*                                                                         *)
(* Tokens are counted in parts: a tick brings Limit parts, and a request   *)
(* costs Window of them.                                                   *)
(***************************************************************************)
EXTENDS Integers

\* Positive, but for Clients and Times: newClientRateLimiter makes no limiter of
\* other values.
CONSTANTS
  Clients,  \* addresses of clients
  Limit,    \* requests a client may make in a window, in the long run
  Window,   \* length of a window in ticks
  Burst,    \* requests it may make at once
  Times     \* the times at which requests are decided

VARIABLE bucket   \* the bucket of each client: its tokens at time last

Full == Burst * Window

Buckets == [tokens : 0 .. Full, last : Nat]

Min2(a, b) == IF a < b THEN a ELSE b

\* Bucket b at time now; a time before the last one adds nothing.
Refilled(b, now) ==
  IF now > b.last
  THEN [b EXCEPT !.tokens = Min2(Full, @ + (now - b.last) * Limit), !.last = now]
  ELSE b

Init == bucket = [c \in Clients |-> [tokens |-> Full, last |-> 0]]

Admit(c, now) ==
  LET b == Refilled(bucket[c], now) IN
  /\ b.tokens >= Window
  /\ bucket' = [bucket EXCEPT ![c] = [b EXCEPT !.tokens = @ - Window]]

Refuse(c, now) ==
  LET b == Refilled(bucket[c], now) IN
  /\ b.tokens < Window
  /\ bucket' = [bucket EXCEPT ![c] = b]

Next == \E c \in Clients, now \in Times : Admit(c, now) \/ Refuse(c, now)

Spec == Init /\ [][Next]_bucket

=============================================================================
