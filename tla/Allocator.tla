------------------------------ MODULE Allocator ------------------------------
(***************************************************************************)
(* What cabi_realloc and cabi_free promise their callers, whatever the     *)
(* allocator does inside: blocks nobody else holds, with the data of the   *)
(* old block when one was given up for them, and payloads that only their  *)
(* holders write.  A call gives up its block when it starts and takes      *)
(* effect in one step when it returns.                                     *)
(***************************************************************************)
EXTENDS Integers

CONSTANTS
  Threads,     (* callers                                               *)
  Blocks,      (* what can be handed out                                *)
  Requests,    (* sizes and alignments requested                        *)
  ZeroAligns,  (* alignments for which zero bytes need no block         *)
  Words,       (* what the first word of a payload may hold             *)
  Data         (* what a holder writes there                            *)

VARIABLES
  heap,        (* block that is held -> its size, alignment and data    *)
  calls        (* thread -> the call it has in progress                 *)

vars == <<heap, calls>>

(* yields: "block" or "nothing"; data: the contents the block may have. *)
Idle == [yields |-> "idle", size |-> 0, align |-> 0, data |-> {}]
Yields(size, align, data) ==
  [yields |-> "block", size |-> size, align |-> align, data |-> data]
YieldsNothing == [Idle EXCEPT !.yields = "nothing"]

Init == heap = [b \in {} |-> Idle] /\ calls = [t \in Threads |-> Idle]

(* Thread t, which is in no call, starts one; block b goes with it. *)
Start(t, call) == calls' = [calls EXCEPT ![t] = call]
With(b) == heap' = [a \in DOMAIN heap \ {b} |-> heap[a]]

(* cabi_realloc without a block. *)
Malloc(t, r) == Start(t, Yields(r.size, r.align, Words)) /\ UNCHANGED heap

(* cabi_realloc of block b: what b holds is in the block returned. *)
Realloc(t, b, r) ==
  /\ Start(t, Yields(r.size, r.align, IF heap[b].size > 0 THEN {heap[b].data} ELSE Words))
  /\ With(b)

(* cabi_realloc of block b to zero bytes. *)
Release(t, b, align) ==
  /\ Start(t, IF align \in ZeroAligns THEN YieldsNothing ELSE Yields(0, align, Words))
  /\ With(b)

(* cabi_free. *)
Free(t, b) == Start(t, YieldsNothing) /\ With(b)

Call(t) ==
  /\ calls[t] = Idle
  /\ \/ \E r \in Requests : Malloc(t, r)
     \/ \E b \in DOMAIN heap :
          \/ Free(t, b)
          \/ \E r \in Requests : Realloc(t, b, r) \/ Release(t, b, r.align)

(* A call returns a block that nobody holds, or nothing. *)
Answer(t) ==
  /\ calls[t].yields = "block"
  /\ calls' = [calls EXCEPT ![t] = Idle]
  /\ \E b \in Blocks \ DOMAIN heap, d \in calls[t].data :
       heap' = [a \in DOMAIN heap \cup {b} |->
                  IF a = b THEN [size |-> calls[t].size, align |-> calls[t].align, data |-> d]
                  ELSE heap[a]]

Return(t) ==
  /\ calls[t].yields = "nothing"
  /\ calls' = [calls EXCEPT ![t] = Idle]
  /\ UNCHANGED heap

(* The holder of a block writes it. *)
Store(b) ==
  /\ heap[b].size > 0
  /\ heap' = [heap EXCEPT ![b].data = Data]
  /\ UNCHANGED calls

Next ==
  \/ \E t \in Threads : Call(t) \/ Answer(t) \/ Return(t)
  \/ \E b \in DOMAIN heap : Store(b)

Spec == Init /\ [][Next]_vars
==============================================================================
