---------------------------- MODULE MCRateLimiter ----------------------------
(* RateLimiter with interchangeable clients and handlers. *)
EXTENDS RateLimiter, TLC

Symmetry == Permutations(Clients) \cup Permutations(Handlers)

=============================================================================
