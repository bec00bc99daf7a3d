--------------------------- MODULE MCApiKeyCache ----------------------------
(* ApiKeyCache on small instances.                                          *)
EXTENDS ApiKeyCache, TLC

Sym == Permutations(Threads)
=============================================================================
