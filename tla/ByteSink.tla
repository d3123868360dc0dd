------------------------------ MODULE ByteSink ------------------------------
(***************************************************************************)
(* What an io.Writer onto a stream promises.  The bytes of all the writes  *)
(* on one stream are numbered 1, 2, 3, ...; the sink takes them in order,  *)
(* without a gap and without a repetition, and a write that succeeds has   *)
(* had every byte taken.  Once a write has failed nothing more is taken,   *)
(* whatever else the writer is given.                                      *)
(***************************************************************************)
EXTENDS Naturals, Sequences

VARIABLES
  given,     (* bytes handed to the writer           *)
  received,  (* bytes the sink has taken, in order         *)
  state      (* "idle", "writing" or "broken"              *)

vars == <<given, received, state>>

FirstBytes(n) == [i \in 1 .. n |-> i]

Init == given = 0 /\ received = <<>> /\ state = "idle"

Begin ==
  /\ state # "writing" /\ state' = IF state = "idle" THEN "writing" ELSE state
  /\ given' \in Nat /\ given <= given'
  /\ UNCHANGED received

Take ==
  /\ state = "writing"
  /\ \E n \in Len(received) .. given : received' = FirstBytes(n)
  /\ UNCHANGED <<given, state>>

Succeed ==
  /\ state = "writing" /\ Len(received) = given /\ state' = "idle"
  /\ UNCHANGED <<given, received>>

(* The failing write may have had some of its bytes taken. *)
Fail ==
  /\ state = "writing" /\ state' = "broken"
  /\ \E n \in Len(received) .. given : received' = FirstBytes(n)
  /\ UNCHANGED given

Next == Begin \/ Take \/ Succeed \/ Fail

Spec == Init /\ [][Next]_vars
==============================================================================
