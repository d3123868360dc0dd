--------------------------- MODULE MCOutputStream ---------------------------
(* Instances of OutputStream for TLC. *)
EXTENDS OutputStream
==============================================================================
