---------------------------- MODULE MCCancellable ----------------------------
(* Instances of Cancellable for TLC. *)
EXTENDS Cancellable

MCAnswers == {TRUE, FALSE}
MCDenies == {FALSE}
==============================================================================
