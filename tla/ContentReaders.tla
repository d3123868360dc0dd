--------------------------- MODULE ContentReaders ---------------------------
(***************************************************************************)
(* What an upload promises the driver, whatever handles and blocks it uses *)
(* below: every reader gives the bytes of its own range, in order and from *)
(* the first one on, until it ends, fails or is given up.  Chunk follows   *)
(* chunk through the content, and a chunk that is reset comes again.       *)
(***************************************************************************)
EXTENDS Naturals, Sequences

CONSTANTS
  Total,    (* bytes of content, numbered 1 .. Total *)
  Peeks     (* <<offset, length>> that is peeked at  *)

VARIABLES
  readers,  (* those the driver was given            *)
  next      (* where the next chunk begins           *)

vars == <<readers, next>>

Bytes(lo, hi) == [i \in 1 .. hi - lo |-> lo + i]
GivenUp == [kind |-> "none", lo |-> 0, hi |-> 0, got |-> <<>>, state |-> "given up"]

Init == readers = <<>> /\ next = 0

Open(lo, hi, kind) ==
  readers' = Append(readers, [kind |-> kind, lo |-> lo, hi |-> hi, got |-> <<>>, state |-> "open"])

Stream == Open(0, Total, "stream") /\ UNCHANGED next
Peek(offset, length) == Open(offset, offset + length, "peek") /\ UNCHANGED next
NextChunk(hi) == Open(next, hi, "chunk") /\ next' = hi
Chunks == next' = 0 /\ UNCHANGED readers

(* The reader has given its range up to at. *)
Read(r, at) ==
  /\ readers[r].state = "open" /\ Len(readers[r].got) <= at - readers[r].lo
  /\ readers' = [readers EXCEPT ![r].got = Bytes(readers[r].lo, at)]
  /\ UNCHANGED next

Fail(r) ==
  /\ readers[r].state = "open"
  /\ readers' = [readers EXCEPT ![r].state = "failed"]
  /\ UNCHANGED next

(* It ends when it has given its whole range. *)
End(r) ==
  /\ readers[r].state = "open" /\ Len(readers[r].got) = readers[r].hi - readers[r].lo
  /\ readers' = [readers EXCEPT ![r].state = "EOF"]
  /\ UNCHANGED next

GiveUp(r) ==
  /\ readers[r].state # "given up"
  /\ readers' = [readers EXCEPT ![r] = GivenUp]

Close(r) == GiveUp(r) /\ UNCHANGED next
Reset(r) == readers[r].kind = "chunk" /\ GiveUp(r) /\ next' = readers[r].lo

Next ==
  \/ Stream \/ Chunks
  \/ \E p \in Peeks : Peek(p[1], p[2])
  \/ \E hi \in next + 1 .. Total : NextChunk(hi)
  \/ \E r \in DOMAIN readers :
       \/ \E at \in readers[r].lo .. readers[r].hi : Read(r, at)
       \/ Fail(r) \/ End(r) \/ Close(r) \/ Reset(r)

Spec == Init /\ [][Next]_vars
==============================================================================
