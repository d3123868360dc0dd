---------------------------- MODULE OutputStream ----------------------------
(***************************************************************************)
(* adapter/streams.go OutputStream: the io.WriteCloser a driver gets for   *)
(* LinkRange, on top of a WASI output-stream.  Write sends its buffer in   *)
(* chunks: check-write for a permit, block on the pollable while there is  *)
(* none, write at most as many bytes as permitted.                         *)
(*                                                                         *)
(* Bytes are numbered over the life of the stream; a slice of the buffer   *)
(* is the range of numbers from + 1 .. to.  The stream itself belongs to   *)
(* the host: its buffer drains, it is closed, or an operation fails, at    *)
(* any moment between two calls of the component.                          *)
(***************************************************************************)
EXTENDS Naturals, Sequences

CONSTANTS
  MaxLen,    (* largest buffer of one Write (bound)   *)
  MaxBytes,  (* bytes written in all (bound)          *)
  MaxRoom    (* capacity of the host's buffer (bound) *)

ASSUME OutputStreamAssumption ==
  MaxLen \in Nat /\ MaxBytes \in Nat /\ MaxRoom \in Nat \ {0}

VARIABLES
  (* the host's stream *)
  received,   (* bytes it has taken, in order                             *)
  room,       (* bytes it could take now                                  *)
  permit,     (* what the last check-write allowed                        *)
  status,     (* "open", "failing" (the next call reports it) or "closed" *)
  (* the writer *)
  pc,         (* where Write or Close is, "idle" between calls            *)
  from, to,   (* p: the bytes from + 1 .. to are still to be written      *)
  total,      (* len(p) at the start of this Write                        *)
  writeSize,  (* its local of that name                                   *)
  ret,        (* what the last call returned: bytes written and error     *)
  before,     (* bytes the host had when this Write began                 *)
  broken,     (* has a Write failed?                                      *)
  streamOpen, pollOpen  (* the handles inner and pollable are not dropped *)

hostVars == <<received, room, permit, status>>
writerVars == <<from, to, total, writeSize, ret, before, broken>>
vars == <<hostVars, writerVars, pc, streamOpen, pollOpen>>

Errors == {"nil", "EOF", "failed"}
Bytes(lo, hi) == [i \in 1 .. hi - lo |-> lo + i]

Init ==
  /\ received = <<>> /\ room \in 0 .. MaxRoom /\ permit = 0 /\ status = "open"
  /\ pc = "idle" /\ from = 0 /\ to = 0 /\ total = 0 /\ writeSize = 0
  /\ ret = [n |-> 0, err |-> "nil"] /\ before = 0 /\ broken = FALSE
  /\ streamOpen = TRUE /\ pollOpen = TRUE

-----------------------------------------------------------------------------
(* The driver calls Write with n new bytes. *)
Write(n) ==
  /\ pc = "idle" /\ streamOpen
  /\ from' = to /\ to' = to + n /\ total' = n /\ writeSize' = n
  /\ before' = Len(received)
  /\ pc' = IF n > 0 THEN "check" ELSE "done"
  /\ UNCHANGED <<hostVars, ret, broken, streamOpen, pollOpen>>

(* Write returns total - writeSize bytes and an error. *)
FailWith(err) ==
  /\ ret' = [n |-> total - writeSize, err |-> err] /\ broken' = TRUE
  /\ pc' = "idle"

(* Mutant of CheckWrite: the chunk is not cut to the permit. *)
CheckWriteUncut ==
  /\ pc = "check"
  /\ CASE status = "open" ->
            /\ permit' = room
            /\ pc' = IF room > 0 THEN "write" ELSE "block"
            /\ UNCHANGED <<status, ret, broken, writeSize>>
       [] status = "failing" ->
            FailWith("failed") /\ status' = "closed" /\ UNCHANGED <<permit, writeSize>>
       [] status = "closed" ->
            FailWith("EOF") /\ UNCHANGED <<status, permit, writeSize>>
  /\ UNCHANGED <<received, room, from, to, total, before, streamOpen, pollOpen>>

(* Mutant of Block: after the wait the old permit is taken for a new one. *)
BlockThenWrite ==
  /\ pc = "block" /\ (room > 0 \/ status # "open")
  /\ pc' = "write"
  /\ UNCHANGED <<hostVars, writerVars, streamOpen, pollOpen>>

CheckWrite ==
  /\ pc = "check"
  /\ CASE status = "open" ->
            /\ permit' = room
            /\ pc' = IF room > 0 THEN "write" ELSE "block"
            /\ writeSize' = IF 0 < room /\ room < writeSize THEN room ELSE writeSize
            /\ UNCHANGED <<status, ret, broken>>
       [] status = "failing" ->
            FailWith("failed") /\ status' = "closed" /\ UNCHANGED <<permit, writeSize>>
       [] status = "closed" ->
            FailWith("EOF") /\ UNCHANGED <<status, permit, writeSize>>
  /\ UNCHANGED <<received, room, from, to, total, before, streamOpen, pollOpen>>

(* pollable.Block returns when there is room or something to report. *)
Block ==
  /\ pc = "block" /\ (room > 0 \/ status # "open")
  /\ pc' = "check"
  /\ UNCHANGED <<hostVars, writerVars, streamOpen, pollOpen>>

(* Mutants of WriteChunk: Write stops after its first chunk; the buffer is *)
(* not cut, so the chunk is sent again.                                    *)
WriteChunkOnce ==
  /\ pc = "write"
  /\ CASE status = "open" ->
            /\ received' = received \o Bytes(from, from + writeSize)
            /\ room' = room - writeSize /\ permit' = 0
            /\ from' = from + writeSize /\ writeSize' = to - from'
            /\ pc' = "done"
            /\ UNCHANGED <<status, ret, broken>>
       [] status = "failing" ->
            /\ received' = received /\ FailWith("failed") /\ status' = "closed"
            /\ UNCHANGED <<room, permit, from, writeSize>>
       [] status = "closed" ->
            FailWith("EOF") /\ UNCHANGED <<received, room, permit, status, from, writeSize>>
  /\ UNCHANGED <<to, total, before, streamOpen, pollOpen>>

WriteChunkAgain ==
  /\ pc = "write"
  /\ CASE status = "open" ->
            /\ received' = received \o Bytes(from, from + writeSize)
            /\ room' = room - writeSize /\ permit' = 0
            /\ writeSize' = to - from - writeSize
            /\ pc' = IF writeSize' > 0 THEN "check" ELSE "done"
            /\ UNCHANGED <<status, ret, broken, from>>
       [] status # "open" ->
            FailWith("failed") /\ UNCHANGED <<received, room, permit, status, from, writeSize>>
  /\ UNCHANGED <<to, total, before, streamOpen, pollOpen>>

(* The host takes the chunk; p = p[writeSize:], writeSize = len(p).        *)
WriteChunk ==
  /\ pc = "write"
  /\ CASE status = "open" ->
            /\ received' = received \o Bytes(from, from + writeSize)
            /\ room' = room - writeSize /\ permit' = 0
            /\ from' = from + writeSize /\ writeSize' = to - from'
            /\ pc' = IF from' < to THEN "check" ELSE "done"
            /\ UNCHANGED <<status, ret, broken>>
       [] status = "failing" ->
            /\ \E k \in 0 .. writeSize : received' = received \o Bytes(from, from + k)
            /\ FailWith("failed") /\ status' = "closed"
            /\ UNCHANGED <<room, permit, from, writeSize>>
       [] status = "closed" ->
            FailWith("EOF") /\ UNCHANGED <<received, room, permit, status, from, writeSize>>
  /\ UNCHANGED <<to, total, before, streamOpen, pollOpen>>

(* The loop is over. *)
Finish ==
  /\ pc = "done" /\ pc' = "idle"
  /\ ret' = [n |-> total, err |-> "nil"]
  /\ UNCHANGED <<hostVars, from, to, total, writeSize, before, broken, streamOpen, pollOpen>>

(* Mutant of BlockingFlush: the deferred drops run in the other order. *)
BlockingFlushStreamFirst ==
  /\ pc = "flush" /\ (status = "open" => room = MaxRoom)
  /\ pc' = "drop_stream" /\ status' = IF status = "failing" THEN "closed" ELSE status
  /\ UNCHANGED <<received, room, permit, writerVars, streamOpen, pollOpen>>

(* Mutant of BlockingFlush: a failed flush is waited for again. *)
BlockingFlushUntilEmpty ==
  /\ pc = "flush" /\ room = MaxRoom
  /\ pc' = "drop_poll" /\ status' = IF status = "failing" THEN "closed" ELSE status
  /\ UNCHANGED <<received, room, permit, writerVars, streamOpen, pollOpen>>

(* Close: flush, then the deferred drops, pollable before stream. *)
Close ==
  /\ pc = "idle" /\ streamOpen /\ pc' = "flush"
  /\ UNCHANGED <<hostVars, writerVars, streamOpen, pollOpen>>

BlockingFlush ==
  /\ pc = "flush" /\ (status = "open" => room = MaxRoom)
  /\ pc' = "drop_poll" /\ status' = IF status = "failing" THEN "closed" ELSE status
  /\ UNCHANGED <<received, room, permit, writerVars, streamOpen, pollOpen>>

DropPollable ==
  /\ pc = "drop_poll" /\ pollOpen' = FALSE /\ pc' = "drop_stream"
  /\ UNCHANGED <<hostVars, writerVars, streamOpen>>

DropStream ==
  /\ pc = "drop_stream" /\ streamOpen' = FALSE /\ pc' = "idle"
  /\ UNCHANGED <<hostVars, writerVars, pollOpen>>

-----------------------------------------------------------------------------
(* The reader at the other end drains the buffer, or goes away. *)
Drain ==
  /\ status = "open" /\ room' \in room + 1 .. MaxRoom
  /\ UNCHANGED <<received, permit, status, writerVars, pc, streamOpen, pollOpen>>

PeerCloses ==
  /\ status = "open" /\ status' \in {"closed", "failing"}
  /\ UNCHANGED <<received, room, permit, writerVars, pc, streamOpen, pollOpen>>

WriterStep ==
  \/ CheckWrite \/ Block \/ WriteChunk \/ Finish
  \/ BlockingFlush \/ DropPollable \/ DropStream

Next ==
  \/ \E n \in 0 .. MaxLen : to + n <= MaxBytes /\ Write(n)
  \/ Close \/ WriterStep \/ Drain \/ PeerCloses

Spec == Init /\ [][Next]_vars

(* The component runs, and the reader keeps draining a stream it has not   *)
(* closed.                                                                 *)
FairSpec == Spec /\ WF_vars(WriterStep) /\ WF_vars(Drain)

-----------------------------------------------------------------------------
TypeOK ==
  /\ received \in Seq(Nat) /\ room \in 0 .. MaxRoom /\ permit \in 0 .. MaxRoom
  /\ status \in {"open", "failing", "closed"}
  /\ pc \in {"idle", "check", "block", "write", "done", "flush", "drop_poll", "drop_stream"}
  /\ from \in Nat /\ to \in Nat /\ total \in Nat /\ writeSize \in Nat /\ before \in Nat
  /\ ret \in [n : Nat, err : Errors] /\ broken \in BOOLEAN
  /\ streamOpen \in BOOLEAN /\ pollOpen \in BOOLEAN

(* A chunk is never larger than the last permit, and never empty: a larger *)
(* one traps (streams.wit:144), an empty one would make Write spin.        *)
PermitKept == pc = "write" => 0 < writeSize /\ writeSize <= permit

(* What a Write reports as written when it succeeds has all been taken.    *)
SuccessIsComplete ==
  pc = "idle" /\ ~ broken => Len(received) = to /\ ret.err = "nil" /\ ret.n = total

(* A write that finds the stream closed took nothing with its last chunk,  *)
(* so it reports just the bytes of its earlier chunks.                     *)
CountExact == pc = "idle" /\ ret.err = "EOF" => ret.n = Len(received) - before

(* The pollable, a child of the stream, is dropped before it.              *)
ChildFirst == pollOpen => streamOpen

(* Every call returns, as long as the reader drains the stream or closes it. *)
CallsReturn == pc # "idle" ~> pc = "idle"

(* The inductive invariant: the host has taken the first bytes of all that *)
(* were given, p begins right after them until a Write fails, and a Write  *)
(* fails only when the stream is closed for good.                          *)
FirstBytes(n) == [i \in 1 .. n |-> i]

Taken ==
  /\ received = FirstBytes(Len(received))
  /\ from <= to /\ Len(received) <= to
  /\ ~ broken => Len(received) = from
  /\ broken => status = "closed"

Progress ==
  /\ pc \in {"check", "block", "write"} => to - from <= total
  /\ pc \in {"check", "block"} => 0 < writeSize /\ writeSize = to - from
  /\ pc = "write" => writeSize <= to - from /\ (status = "open" => permit <= room)
  /\ pc \notin {"check", "block", "write"} /\ ~ broken => from = to
  /\ pc \in {"idle", "flush", "drop_poll", "drop_stream"} /\ ~ broken =>
       ret.err = "nil" /\ ret.n = total

IInv == TypeOK /\ Taken /\ Progress /\ PermitKept

(* The writer keeps the promise of ByteSink. *)
Sink == INSTANCE ByteSink WITH
  given <- to,
  state <- IF broken THEN "broken"
           ELSE IF pc \in {"check", "block", "write", "done"} THEN "writing" ELSE "idle"

SinkSpec == Sink!Spec
==============================================================================
