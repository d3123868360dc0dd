-------------------------- MODULE MCResourceManager --------------------------
(* Instances of ResourceManager for TLC. *)
EXTENDS ResourceManager
==============================================================================
