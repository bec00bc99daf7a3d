----------------------------- MODULE MCStartUp ------------------------------
(* StartUp on small instances.                                              *)
EXTENDS StartUp
=============================================================================
