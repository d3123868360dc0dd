------------------------------ MODULE MCHandlers ------------------------------
(* Instances of Handlers for TLC. *)
EXTENDS Handlers

(* Drivers with none, one, all but one and all of the optional interfaces. *)
MCDrivers == {i \in SUBSET Optional : Cardinality(i) \in {0, 1, 7, 8}}

(* Detected, and two sets a driver may declare itself.  *)
MCDeclarations == {{}, {"list-file", "link-file"}, Capabilities}
MCDetected == {{}}
==============================================================================
