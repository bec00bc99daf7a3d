--------------------------- MODULE MCRateLimiter ----------------------------
(* RateLimiter on small instances.                                          *)
EXTENDS RateLimiter, TLC

Sym == Permutations(Threads) \cup Permutations(Clients)
=============================================================================
