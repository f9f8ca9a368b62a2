---------------------------- MODULE MCRegistryStore ----------------------------
(* Two processes and no failure, for the reads through the cache. *)
EXTENDS RegistryStore
=============================================================================
