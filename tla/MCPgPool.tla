------------------------------ MODULE MCPgPool ------------------------------
(* PgPool on small instances.                                               *)
EXTENDS PgPool
=============================================================================
