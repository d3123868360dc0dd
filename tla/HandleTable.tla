----------------------------- MODULE HandleTable -----------------------------
(***************************************************************************)
(* What the resource manager promises its callers, whatever its locks do:  *)
(* a table on which every operation takes effect in one step between its   *)
(* call and its return, and answers with what the table held in that step. *)
(***************************************************************************)
EXTENDS Naturals

CONSTANTS
  Threads, Resources,
  Handles,     (* handles the callers pass                               *)
  Numbers,     (* handles Add may give out                               *)
  Nothing      (* in place of a resource                                 *)

VARIABLES
  entries,     (* handle -> resource                                     *)
  issued,      (* handles that have been used                            *)
  destroyed,   (* resource -> calls of its destructor                    *)
  calls        (* thread -> the call it has in progress                  *)

vars == <<entries, issued, destroyed, calls>>

(* answer: the entries the caller learns of. *)
Idle == [stage |-> "idle", op |-> "none", handle |-> 0, res |-> Nothing, answer |-> {}]
Pending(op, h, r) == [stage |-> "pending", op |-> op, handle |-> h, res |-> r, answer |-> {}]
Answered(found) ==
  [stage |-> "answered", op |-> "none", handle |-> 0, res |-> Nothing, answer |-> found]

Init ==
  /\ entries = [h \in {} |-> Nothing] /\ issued = {}
  /\ destroyed = [r \in Resources |-> 0]
  /\ calls = [t \in Threads |-> Idle]

(* The entry under handle h, if there is one; the table with and without. *)
Found(h) == {<<x, entries[x]>> : x \in DOMAIN entries \cap {h}}
With(h, r) == [x \in DOMAIN entries \cup {h} |-> IF x = h THEN r ELSE entries[x]]
Without(h) == [x \in DOMAIN entries \ {h} |-> entries[x]]

Call(t, op, h, r) ==
  /\ calls[t] = Idle
  /\ calls' = [calls EXCEPT ![t] = Pending(op, h, r)]
  /\ UNCHANGED <<entries, issued, destroyed>>

Doing(t, op) == calls[t].stage = "pending" /\ calls[t].op = op
Answer(t, found) == calls' = [calls EXCEPT ![t] = Answered(found)]

Set(t) ==
  /\ Doing(t, "Set")
  /\ entries' = With(calls[t].handle, calls[t].res)
  /\ issued' = issued \cup {calls[t].handle}
  /\ Answer(t, {}) /\ UNCHANGED destroyed

(* Add gives out a handle that was never in use. *)
Add(t) ==
  /\ Doing(t, "Add")
  /\ \E h \in Numbers \ issued :
       /\ entries' = With(h, calls[t].res) /\ issued' = issued \cup {h}
       /\ Answer(t, {<<h, calls[t].res>>})
  /\ UNCHANGED destroyed

Get(t) ==
  /\ Doing(t, "Get") /\ Answer(t, Found(calls[t].handle))
  /\ UNCHANGED <<entries, issued, destroyed>>

(* Remove destroys the resource and takes it out in the same step. *)
Remove(t) ==
  LET h == calls[t].handle
  IN  /\ Doing(t, "Remove")
      /\ entries' = Without(h)
      /\ destroyed' = [r \in Resources |->
            IF <<h, r>> \in Found(h) THEN destroyed[r] + 1 ELSE destroyed[r]]
      /\ Answer(t, Found(h)) /\ UNCHANGED issued

Pop(t) ==
  LET h == calls[t].handle
  IN  /\ Doing(t, "Pop")
      /\ entries' = Without(h)
      /\ Answer(t, Found(h)) /\ UNCHANGED <<issued, destroyed>>

(* Range sees entries of one table, and misses all of them only if there   *)
(* are none.                                                               *)
Range(t) ==
  /\ Doing(t, "Range")
  /\ \E seen \in SUBSET {<<h, entries[h]>> : h \in DOMAIN entries} :
       /\ seen = {} => DOMAIN entries = {}
       /\ Answer(t, seen)
  /\ UNCHANGED <<entries, issued, destroyed>>

Return(t) ==
  /\ calls[t].stage = "answered"
  /\ calls' = [calls EXCEPT ![t] = Idle]
  /\ UNCHANGED <<entries, issued, destroyed>>

Next ==
  \E t \in Threads :
    \/ \E op \in {"Set", "Add"}, h \in Handles, r \in Resources : Call(t, op, h, r)
    \/ \E op \in {"Get", "Remove", "Pop", "Range"}, h \in Handles : Call(t, op, h, Nothing)
    \/ Set(t) \/ Add(t) \/ Get(t) \/ Remove(t) \/ Pop(t) \/ Range(t)
    \/ Return(t)

Spec == Init /\ [][Next]_vars
==============================================================================
