-------------------------- MODULE MCResourceCache ---------------------------
(* ResourceCache on small instances.                                        *)
EXTENDS ResourceCache
=============================================================================
