-------------------------- MODULE OutputStreamProofs --------------------------
(***************************************************************************)
(* What OutputStream guarantees whatever the sizes of buffers and permits: *)
(* the inductive invariant IInv, and that the writer implements ByteSink.  *)
(***************************************************************************)
EXTENDS OutputStream, SequenceTheorems, TLAPS

(* Bytes and FirstBytes are sequences of numbers of the length they say.   *)
LEMMA BytesSeq ==
  ASSUME NEW lo \in Nat, NEW k \in Nat
  PROVE  /\ Bytes(lo, lo + k) \in Seq(Nat) /\ Len(Bytes(lo, lo + k)) = k
         /\ \A i \in 1 .. k : Bytes(lo, lo + k)[i] = lo + i
<1> DEFINE s == [i \in 1 .. k |-> lo + i]
<1>1. Bytes(lo, lo + k) = s
  BY DEF Bytes
<1>2. s \in Seq(Nat) /\ Len(s) = k
  OBVIOUS
<1> QED
  BY <1>1, <1>2

(* The same of the first bytes.                                            *)
LEMMA FirstBytesSeq ==
  ASSUME NEW n \in Nat
  PROVE  FirstBytes(n) \in Seq(Nat) /\ Len(FirstBytes(n)) = n
BY DEF FirstBytes

(* A chunk that begins where the bytes taken end prolongs them.            *)
LEMMA Prolong ==
  ASSUME NEW n \in Nat, NEW k \in Nat
  PROVE  FirstBytes(n) \o Bytes(n, n + k) = FirstBytes(n + k)
<1> DEFINE s == FirstBytes(n)
           t == Bytes(n, n + k)
           u == FirstBytes(n + k)
<1>1. s \in Seq(Nat) /\ Len(s) = n /\ u \in Seq(Nat) /\ Len(u) = n + k
  BY FirstBytesSeq
<1>2. t \in Seq(Nat) /\ Len(t) = k /\ \A i \in 1 .. k : t[i] = n + i
  BY BytesSeq
<1>3. \A i \in 1 .. n : s[i] = i
  BY DEF FirstBytes
<1>4. \A i \in 1 .. n + k : u[i] = i
  BY DEF FirstBytes
<1> HIDE DEF s, t, u
<1>5. /\ s \o t \in Seq(Nat) /\ Len(s \o t) = n + k
      /\ \A i \in 1 .. n + k : (s \o t)[i] = IF i <= n THEN s[i] ELSE t[i - n]
  BY <1>1, <1>2, ConcatProperties
<1>6. ASSUME NEW i \in 1 .. n + k PROVE (s \o t)[i] = u[i]
  <2>1. CASE i <= n
    BY <2>1, <1>3, <1>4, <1>5
  <2>2. CASE ~ (i <= n)
    <3>1. i - n \in 1 .. k
      BY <2>2
    <3> QED
      BY <3>1, <2>2, <1>2, <1>4, <1>5
  <2> QED
    BY <2>1, <2>2
<1>7. s \o t = u
  BY <1>1, <1>5, <1>6, SeqEqual
<1> QED
  BY <1>7 DEF s, t, u

(* Whatever part of a chunk the host takes, the bytes stay the first ones. *)
LEMMA TakesChunk ==
  ASSUME IInv, ~ broken, NEW k \in Nat
  PROVE  /\ received \o Bytes(from, from + k) = FirstBytes(from + k)
         /\ Len(FirstBytes(from + k)) = from + k
         /\ FirstBytes(from + k) \in Seq(Nat)
<1>1. from \in Nat /\ received = FirstBytes(from)
  BY DEF IInv, TypeOK, Taken
<1>2. received \o Bytes(from, from + k) = FirstBytes(from + k)
  BY <1>1, Prolong
<1>3. from + k \in Nat
  BY <1>1
<1> QED
  BY <1>2, <1>3, FirstBytesSeq

(* The invariant holds before the first call.                              *)
LEMMA InvInit == Init => IInv
<1> SUFFICES ASSUME Init PROVE IInv
  OBVIOUS
<1>1. TypeOK
  <2>1. received \in Seq(Nat)
    BY EmptySeq DEF Init
  <2>2. room \in 0 .. MaxRoom /\ permit \in 0 .. MaxRoom
    BY OutputStreamAssumption DEF Init
  <2>3. ret \in [n : Nat, err : Errors]
    BY DEF Init, Errors
  <2> QED
    BY <2>1, <2>2, <2>3 DEF Init, TypeOK
<1>2. Taken
  <2>1. FirstBytes(0) \in Seq(Nat) /\ Len(FirstBytes(0)) = 0
    BY FirstBytesSeq
  <2>2. FirstBytes(0) = <<>>
    BY <2>1, EmptySeq
  <2> QED
    BY <2>1, <2>2 DEF Init, Taken
<1> QED
  BY <1>1, <1>2 DEF Init, IInv, Progress, PermitKept

(* Steps that neither take bytes nor fail leave the bytes as they are.     *)
LEMMA WriteInv ==
  ASSUME IInv, NEW n \in 0 .. MaxLen, Write(n)
  PROVE  IInv'
<1>1. n \in Nat
  BY OutputStreamAssumption
<1>2. TypeOK'
  BY <1>1 DEF IInv, TypeOK, Write, hostVars, Errors
<1>3. Taken'
  BY <1>1 DEF IInv, TypeOK, Taken, Progress, Write, hostVars
<1>4. Progress' /\ PermitKept'
  BY <1>1 DEF IInv, TypeOK, Taken, Progress, PermitKept, Write, hostVars
<1> QED
  BY <1>2, <1>3, <1>4 DEF IInv

(* A Write that fails before its chunk is taken.                           *)
LEMMA FailInv ==
  ASSUME IInv, pc \in {"check", "write"}, NEW err \in Errors \ {"nil"}, FailWith(err),
         status # "open", status' = "closed",
         UNCHANGED <<received, room, permit, from, to, total, writeSize, before,
                     streamOpen, pollOpen>>
  PROVE  IInv'
<1>1. total - writeSize \in Nat
  BY DEF IInv, TypeOK, Progress
<1>2. TypeOK'
  <2>1. ret' \in [n : Nat, err : Errors]
    BY <1>1 DEF FailWith
  <2> QED
    BY <2>1 DEF IInv, TypeOK, FailWith
<1>3. Taken'
  BY DEF IInv, Taken, FailWith
<1>4. Progress' /\ PermitKept'
  BY DEF Progress, PermitKept, FailWith
<1> QED
  BY <1>2, <1>3, <1>4 DEF IInv

(* check-write answers with a permit, or the Write fails.                  *)
LEMMA CheckWriteInv ==
  ASSUME IInv, CheckWrite
  PROVE  IInv'
<1>0. /\ from \in Nat /\ to \in Nat /\ writeSize \in Nat /\ room \in 0 .. MaxRoom
      /\ writeSize = to - from /\ 0 < writeSize /\ MaxRoom \in Nat
      /\ pc = "check" /\ status \in {"open", "failing", "closed"}
  BY OutputStreamAssumption DEF IInv, TypeOK, Progress, CheckWrite
<1>1. CASE status = "open"
  <2>1. /\ permit' = room
        /\ pc' = IF room > 0 THEN "write" ELSE "block"
        /\ writeSize' = IF 0 < room /\ room < writeSize THEN room ELSE writeSize
        /\ UNCHANGED <<received, room, status, ret, broken, from, to, total, before,
                        streamOpen, pollOpen>>
    BY <1>1 DEF CheckWrite
  <2>2. TypeOK'
    BY <2>1, <1>0 DEF IInv, TypeOK
  <2>3. Taken'
    BY <2>1 DEF IInv, Taken
  <2>4. Progress' /\ PermitKept'
    BY <2>1, <1>0 DEF IInv, Progress, PermitKept
  <2> QED
    BY <2>2, <2>3, <2>4 DEF IInv
<1>2. CASE status # "open"
  <2>1. PICK err \in {"failed", "EOF"} : FailWith(err)
    BY <1>0, <1>2 DEF CheckWrite
  <2>2. /\ status' = "closed"
        /\ UNCHANGED <<received, room, permit, from, to, total, writeSize, before,
                        streamOpen, pollOpen>>
    BY <1>0, <1>2 DEF CheckWrite
  <2>3. err \in Errors \ {"nil"}
    BY DEF Errors
  <2> QED
    BY <1>0, <1>2, <2>1, <2>2, <2>3, FailInv
<1> QED
  BY <1>1, <1>2

(* The host takes a chunk, or a part of one and reports a failure.         *)
LEMMA WriteChunkInv ==
  ASSUME IInv, WriteChunk
  PROVE  IInv'
<1>0. /\ from \in Nat /\ to \in Nat /\ writeSize \in Nat /\ room \in 0 .. MaxRoom
      /\ writeSize <= to - from /\ 0 < writeSize /\ to - from <= total /\ total \in Nat
  BY DEF IInv, TypeOK, Progress, PermitKept, WriteChunk
<1>1. CASE status = "open"
  <2>1. ~ broken /\ writeSize <= room
    BY <1>1, <1>0 DEF IInv, TypeOK, Taken, Progress, PermitKept, WriteChunk
  <2>2. received' = received \o Bytes(from, from + writeSize)
    BY <1>1 DEF WriteChunk
  <2>3. received' = FirstBytes(from + writeSize) /\ Len(received') = from + writeSize
        /\ received' \in Seq(Nat)
    BY <2>1, <2>2, <1>0, TakesChunk
  <2>4. /\ room' = room - writeSize /\ permit' = 0
        /\ from' = from + writeSize /\ writeSize' = to - from'
        /\ pc' = IF from' < to THEN "check" ELSE "done"
        /\ UNCHANGED <<status, ret, broken, to, total, before, streamOpen, pollOpen>>
    BY <1>1 DEF WriteChunk
  <2>5. TypeOK'
    BY <2>1, <2>3, <2>4, <1>0, OutputStreamAssumption DEF IInv, TypeOK
  <2>6. Taken'
    BY <2>1, <2>3, <2>4, <1>0, <1>1 DEF Taken
  <2>7. Progress' /\ PermitKept'
    BY <2>1, <2>4, <1>0 DEF Progress, PermitKept
  <2> QED
    BY <2>5, <2>6, <2>7 DEF IInv
<1>2. CASE status = "failing"
  <2>1. ~ broken
    BY <1>2 DEF IInv, Taken
  <2>2. PICK k \in 0 .. writeSize : received' = received \o Bytes(from, from + k)
    BY <1>2 DEF WriteChunk
  <2>3. received' = FirstBytes(from + k) /\ Len(received') = from + k /\ received' \in Seq(Nat)
    <3>1. k \in Nat
      BY <1>0
    <3> QED
      BY <3>1, <2>1, <2>2, TakesChunk
  <2>4. /\ FailWith("failed") /\ status' = "closed"
        /\ UNCHANGED <<room, permit, from, writeSize, to, total, before, streamOpen, pollOpen>>
    BY <1>2 DEF WriteChunk
  <2>5. TypeOK'
    <3>1. total - writeSize \in Nat
      BY <1>0, <2>1 DEF IInv, TypeOK, Progress
    <3> QED
      BY <3>1, <2>3, <2>4 DEF IInv, TypeOK, FailWith, Errors
  <2>6. Taken'
    BY <2>2, <2>3, <2>4, <1>0 DEF Taken, FailWith
  <2>7. Progress' /\ PermitKept'
    BY <2>4 DEF Progress, PermitKept, FailWith
  <2> QED
    BY <2>5, <2>6, <2>7 DEF IInv
<1>3. CASE status = "closed"
  <2>1. /\ FailWith("EOF") /\ pc = "write"
        /\ UNCHANGED <<received, room, permit, status, from, to, total, writeSize, before,
                        streamOpen, pollOpen>>
    BY <1>3 DEF WriteChunk
  <2>2. "EOF" \in Errors \ {"nil"} /\ status # "open" /\ status' = "closed"
    BY <1>3, <2>1 DEF Errors
  <2> QED
    BY <2>1, <2>2, FailInv
<1> QED
  BY <1>1, <1>2, <1>3 DEF IInv, TypeOK

(* The other steps of the writer.                                          *)
LEMMA QuietInv ==
  ASSUME IInv,
         Block \/ Finish \/ Close \/ BlockingFlush \/ DropPollable \/ DropStream
  PROVE  IInv'
<1>1. received' = received /\ room' = room /\ permit' = permit /\ from' = from /\ to' = to
      /\ writeSize' = writeSize /\ total' = total /\ before' = before /\ broken' = broken
  BY DEF Block, Finish, Close, BlockingFlush, DropPollable, DropStream, hostVars, writerVars
<1>2. /\ status' \in {status, "closed"}
      /\ status' # status => status # "open"
      /\ pc # "write" /\ pc' # "write"
  BY DEF Block, Finish, Close, BlockingFlush, DropPollable, DropStream, hostVars
<1>3. TypeOK'
  <2>1. ret' \in [n : Nat, err : Errors]
    <3>1. CASE Finish
      BY <3>1 DEF IInv, TypeOK, Finish, Errors
    <3>2. CASE ~ Finish
      BY <3>2 DEF IInv, TypeOK, Block, Close, BlockingFlush, DropPollable, DropStream, writerVars
    <3> QED
      BY <3>1, <3>2
  <2>2. pc' \in {"idle", "check", "flush", "drop_poll", "drop_stream"}
    BY DEF Block, Finish, Close, BlockingFlush, DropPollable, DropStream
  <2>3. streamOpen' \in BOOLEAN /\ pollOpen' \in BOOLEAN
    BY DEF IInv, TypeOK, Block, Finish, Close, BlockingFlush, DropPollable, DropStream
  <2> QED
    BY <1>1, <1>2, <2>1, <2>2, <2>3 DEF IInv, TypeOK
<1>4. Taken'
  BY <1>1, <1>2 DEF IInv, TypeOK, Taken
<1>5. Progress'
  <2>1. CASE Block
    BY <2>1 DEF IInv, TypeOK, Progress, Block, hostVars, writerVars
  <2>2. CASE Finish
    BY <2>2 DEF IInv, TypeOK, Progress, Finish, hostVars
  <2>3. CASE Close \/ BlockingFlush \/ DropPollable \/ DropStream
    BY <2>3 DEF IInv, TypeOK, Progress, Close, BlockingFlush, DropPollable, DropStream,
                writerVars
  <2> QED
    BY <2>1, <2>2, <2>3
<1>6. PermitKept'
  BY <1>2 DEF PermitKept
<1> QED
  BY <1>3, <1>4, <1>5, <1>6 DEF IInv

(* The reader drains the stream or closes it.                              *)
LEMMA ReaderInv ==
  ASSUME IInv, Drain \/ PeerCloses
  PROVE  IInv'
<1>1. UNCHANGED <<received, permit, writerVars, pc, streamOpen, pollOpen>>
  BY DEF Drain, PeerCloses
<1>2. /\ room' \in 0 .. MaxRoom /\ room <= room' /\ status = "open"
      /\ status' \in {"open", "closed", "failing"}
  BY OutputStreamAssumption DEF IInv, TypeOK, Drain, PeerCloses
<1>3. TypeOK'
  BY <1>1, <1>2 DEF IInv, TypeOK, writerVars
<1>4. Taken'
  BY <1>1, <1>2 DEF IInv, Taken, writerVars
<1>5. Progress' /\ PermitKept'
  BY <1>1, <1>2 DEF IInv, TypeOK, Progress, PermitKept, writerVars
<1> QED
  BY <1>3, <1>4, <1>5 DEF IInv

(* Every step keeps the invariant.                                         *)
LEMMA InvNext == IInv /\ [Next]_vars => IInv'
<1> SUFFICES ASSUME IInv, [Next]_vars PROVE IInv'
  OBVIOUS
<1>1. ASSUME NEW n \in 0 .. MaxLen, Write(n) PROVE IInv'
  BY <1>1, WriteInv
<1>2. CASE CheckWrite
  BY <1>2, CheckWriteInv
<1>3. CASE WriteChunk
  BY <1>3, WriteChunkInv
<1>4. CASE Block \/ Finish \/ Close \/ BlockingFlush \/ DropPollable \/ DropStream
  BY <1>4, QuietInv
<1>5. CASE Drain \/ PeerCloses
  BY <1>5, ReaderInv
<1>6. CASE UNCHANGED vars
  BY <1>6 DEF vars, hostVars, writerVars, IInv, TypeOK, Taken, Progress, PermitKept
<1> QED
  BY <1>1, <1>2, <1>3, <1>4, <1>5, <1>6 DEF Next, WriterStep

(* The inductive invariant holds in every reachable state.                 *)
THEOREM Invariant == Spec => []IInv
<1>1. Init => IInv
  BY InvInit
<1>2. IInv /\ [Next]_vars => IInv'
  BY InvNext
<1> QED
  BY <1>1, <1>2, PTL DEF Spec

(* The variables keep their types, whatever the host does between calls.   *)
THEOREM TypesHold == Spec => []TypeOK
<1>1. IInv => TypeOK
  BY DEF IInv
<1> QED
  BY <1>1, Invariant, PTL

(* No chunk exceeds the permit or is empty.                                *)
THEOREM ChunksPermitted == Spec => []PermitKept
<1>1. IInv => PermitKept
  BY DEF IInv
<1> QED
  BY <1>1, Invariant, PTL

(* A Write that reports success has had every byte taken.                  *)
THEOREM SuccessComplete == Spec => []SuccessIsComplete
<1>1. IInv => SuccessIsComplete
  BY DEF IInv, TypeOK, Taken, Progress, SuccessIsComplete
<1> QED
  BY <1>1, Invariant, PTL

(* Close drops the pollable before the stream it belongs to, on every path *)
(* (the deferred drops of OutputStream.Close).                             *)
THEOREM PollableFirst == Spec => []ChildFirst
<1> DEFINE DropsInv == (pc = "drop_stream" => ~ pollOpen) /\ ChildFirst
<1>1. Init => DropsInv
  BY DEF Init, ChildFirst
<1>2. IInv /\ DropsInv /\ [Next]_vars => DropsInv'
  <2> SUFFICES ASSUME IInv, DropsInv, [Next]_vars PROVE DropsInv'
    OBVIOUS
  <2>1. CASE DropPollable
    BY <2>1 DEF DropPollable, ChildFirst
  <2>2. CASE DropStream
    BY <2>2 DEF DropStream, ChildFirst
  <2>3. CASE UNCHANGED vars
    BY <2>3 DEF vars, ChildFirst
  <2>4. CASE ~ (DropPollable \/ DropStream \/ UNCHANGED vars)
    <3>1. UNCHANGED <<streamOpen, pollOpen>>
      BY <2>4 DEF Next, WriterStep, Write, Close, CheckWrite, Block, WriteChunk, Finish,
                  BlockingFlush, Drain, PeerCloses
    <3>2. pc' # "drop_stream" \/ pc' = pc
      BY <2>4 DEF IInv, TypeOK, Next, WriterStep, Write, Close, CheckWrite, Block, WriteChunk, Finish,
                  BlockingFlush, Drain, PeerCloses, FailWith
    <3> QED
      BY <3>1, <3>2 DEF ChildFirst
  <2> QED
    BY <2>1, <2>2, <2>3, <2>4
<1>3. DropsInv => ChildFirst
  OBVIOUS
<1> QED
  BY <1>1, <1>2, <1>3, Invariant, PTL DEF Spec

-----------------------------------------------------------------------------
(* The writer's first states are those of an empty sink.                   *)
LEMMA RefinesInit == Init => Sink!Init
BY DEF Init, Sink!Init

(* A Write that fails is a Fail of the sink, the first time.               *)
LEMMA FailRefines ==
  ASSUME IInv, pc \in {"check", "write"}, broken', received' = received, to' = to
  PROVE  [Sink!Next]_(Sink!vars)
<1>1. CASE broken
  BY <1>1 DEF Sink!vars
<1>2. CASE ~ broken
  <2>1. received' = Sink!FirstBytes(Len(received))
    BY DEF IInv, Taken, FirstBytes, Sink!FirstBytes
  <2>2. Len(received) \in Len(received) .. to
    BY DEF IInv, TypeOK, Taken
  <2>3. Sink!Fail
    BY <1>2, <2>1, <2>2 DEF Sink!Fail
  <2> QED
    BY <2>3 DEF Sink!Next
<1> QED
  BY <1>1, <1>2

(* A chunk is a Take, or a Fail, of the sink.                              *)
LEMMA ChunkRefines ==
  ASSUME IInv, WriteChunk
  PROVE  [Sink!Next]_(Sink!vars)
<1>0. /\ from \in Nat /\ to \in Nat /\ writeSize \in Nat /\ writeSize <= to - from
      /\ pc = "write" /\ to' = to
  BY DEF IInv, TypeOK, Progress, WriteChunk
<1>1. CASE status = "open"
  <2>1. ~ broken /\ Len(received) = from
    BY <1>1 DEF IInv, Taken
  <2>2. received' = FirstBytes(from + writeSize)
    BY <1>0, <1>1, <2>1, TakesChunk DEF WriteChunk
  <2>3. ~ broken' /\ pc' \in {"check", "done"}
    BY <1>1, <2>1 DEF WriteChunk
  <2>4. received' = Sink!FirstBytes(from + writeSize)
    BY <2>2 DEF FirstBytes, Sink!FirstBytes
  <2>5. from + writeSize \in Len(received) .. to
    BY <1>0, <2>1
  <2>6. Sink!Take
    BY <1>0, <2>1, <2>3, <2>4, <2>5 DEF Sink!Take
  <2> QED
    BY <2>6 DEF Sink!Next
<1>2. CASE status = "failing"
  <2>1. ~ broken /\ Len(received) = from
    BY <1>2 DEF IInv, Taken
  <2>2. PICK k \in 0 .. writeSize : received' = received \o Bytes(from, from + k)
    BY <1>2 DEF WriteChunk
  <2>3. received' = FirstBytes(from + k)
    <3>1. k \in Nat
      BY <1>0
    <3> QED
      BY <3>1, <2>1, <2>2, TakesChunk
  <2>4. broken'
    BY <1>2 DEF WriteChunk, FailWith
  <2>5. received' = Sink!FirstBytes(from + k) /\ from + k \in Len(received) .. to
    BY <1>0, <2>1, <2>3 DEF FirstBytes, Sink!FirstBytes
  <2>6. Sink!Fail
    BY <1>0, <2>1, <2>4, <2>5 DEF Sink!Fail
  <2> QED
    BY <2>6 DEF Sink!Next
<1>3. CASE status = "closed"
  <2>1. broken' /\ received' = received
    BY <1>3 DEF WriteChunk, FailWith
  <2> QED
    BY <1>0, <2>1, FailRefines
<1> QED
  BY <1>1, <1>2, <1>3 DEF IInv, TypeOK

(* check-write changes nothing the sink shows, unless it fails.            *)
LEMMA CheckRefines ==
  ASSUME IInv, CheckWrite
  PROVE  [Sink!Next]_(Sink!vars)
<1>0. pc = "check" /\ received' = received /\ to' = to /\ status \in {"open", "failing", "closed"}
  BY DEF IInv, TypeOK, CheckWrite
<1>1. CASE status = "open"
  <2>1. broken' = broken /\ pc' \in {"write", "block"}
    BY <1>1 DEF CheckWrite
  <2> QED
    BY <1>0, <2>1 DEF Sink!vars
<1>2. CASE status # "open"
  <2>1. broken'
    BY <1>0, <1>2 DEF CheckWrite, FailWith
  <2> QED
    BY <1>0, <2>1, FailRefines
<1> QED
  BY <1>1, <1>2

(* Every step of the stream is a step of the sink, or none.                *)
LEMMA RefinesNext == IInv /\ [Next]_vars => [Sink!Next]_(Sink!vars)
<1> SUFFICES ASSUME IInv, [Next]_vars PROVE [Sink!Next]_(Sink!vars)
  OBVIOUS
<1>1. ASSUME NEW n \in 0 .. MaxLen, Write(n) PROVE [Sink!Next]_(Sink!vars)
  <2>1. to' \in Nat /\ to <= to' /\ received' = received /\ broken' = broken
    BY <1>1, OutputStreamAssumption DEF IInv, TypeOK, Write, hostVars
  <2>2. pc = "idle" /\ pc' \in {"check", "done"}
    BY <1>1 DEF Write
  <2>3. Sink!Begin
    BY <2>1, <2>2 DEF Sink!Begin
  <2> QED
    BY <2>3 DEF Sink!Next
<1>2. CASE CheckWrite
  BY <1>2, CheckRefines
<1>3. CASE WriteChunk
  BY <1>3, ChunkRefines
<1>4. CASE Finish
  <2>1. received' = received /\ to' = to /\ broken' = broken /\ pc = "done" /\ pc' = "idle"
    BY <1>4 DEF Finish, hostVars
  <2>2. CASE broken
    BY <2>1, <2>2 DEF Sink!vars
  <2>3. CASE ~ broken
    <3>1. Len(received) = to
      BY <2>1, <2>3 DEF IInv, Taken, Progress
    <3>2. Sink!Succeed
      BY <2>1, <2>3, <3>1 DEF Sink!Succeed
    <3> QED
      BY <3>2 DEF Sink!Next
  <2> QED
    BY <2>2, <2>3
<1>5. CASE Block \/ Close \/ BlockingFlush \/ DropPollable \/ DropStream
  <2>1. received' = received /\ to' = to /\ broken' = broken
    BY <1>5 DEF Block, Close, BlockingFlush, DropPollable, DropStream, hostVars, writerVars
  <2>2. \/ pc \in {"check", "block"} /\ pc' \in {"check", "block"}
        \/ pc \notin {"check", "block", "write", "done"}
           /\ pc' \notin {"check", "block", "write", "done"}
    BY <1>5 DEF Block, Close, BlockingFlush, DropPollable, DropStream
  <2> QED
    BY <2>1, <2>2 DEF Sink!vars
<1>6. CASE Drain \/ PeerCloses \/ UNCHANGED vars
  <2>1. received' = received /\ to' = to /\ broken' = broken /\ pc' = pc
    BY <1>6 DEF Drain, PeerCloses, vars, hostVars, writerVars
  <2> QED
    BY <2>1 DEF Sink!vars
<1> QED
  BY <1>1, <1>2, <1>3, <1>4, <1>5, <1>6 DEF Next, WriterStep

(* OutputStream implements ByteSink.                                       *)
THEOREM Implements == Spec => SinkSpec
<1>1. Init => Sink!Init
  BY RefinesInit
<1>2. IInv /\ [Next]_vars => [Sink!Next]_(Sink!vars)
  BY RefinesNext
<1> QED
  BY <1>1, <1>2, Invariant, PTL DEF Spec, SinkSpec, Sink!Spec
==============================================================================
