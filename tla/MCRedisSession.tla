--------------------------- MODULE MCRedisSession ---------------------------
(* RedisSession on small instances.                                         *)
EXTENDS RedisSession
=============================================================================
