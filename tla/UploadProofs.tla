----------------------------- MODULE UploadProofs -----------------------------
(***************************************************************************)
(* An upload, for any content, chunks, peeks, readers and blocks.  None of *)
(* the properties is inductive.  What they need beside themselves: a       *)
(* reader's handle is in use and inside its range, which is what keeps a   *)
(* free handle for the errors of the host; what the driver holds is not    *)
(* freed; and what the host keeps under a handle is written from a struct  *)
(* that the driver has tried to save since it was last promised one.       *)
(***************************************************************************)
EXTENDS Upload, TLAPS, FiniteSetTheorems, SequenceTheorems

Records == [kind : {"none", "stream", "peek", "chunk"}, lo : 0 .. Total,
            hi : 0 .. Total, got : Seq(Nat), state : {"open", "failed", "EOF", "given up"}]

ReadableOK == chunkSize \in 0 .. Total /\ nextAt \in 0 .. Total /\ streamed \in BOOLEAN

HandlesOK ==
  /\ table \in [TableSlots -> {"free", "stream", "error"}]
  /\ position \in [TableSlots -> 0 .. Total]

(* A live reader of the range up to hi has passed on all it was given. *)
ReaderOK(r) ==
  LET h == inner[r]
  IN  /\ h \in TableSlots /\ table[h] # "free"
      /\ readers[r].lo <= position[h] /\ position[h] <= readers[r].hi
      /\ readers[r].got = Bytes(readers[r].lo, position[h])
      /\ readers[r].state = "EOF" => position[h] = readers[r].hi

ReadersOK ==
  /\ readers \in Seq(Records) /\ Len(readers) <= MaxReaders
  /\ inner \in Seq(Nat) /\ Len(inner) = Len(readers)
  /\ \A r \in Live : ReaderOK(r)

Owned ==
  /\ \A h \in TableSlots : table[h] # "free" => \E r \in Live : inner[r] = h
  /\ \A r, q \in Live : inner[r] = inner[q] => r = q

BlocksOK ==
  /\ freed \subseteq Blocks /\ held \subseteq Blocks \X {"message", "value"}
  /\ DOMAIN content = Blocks
  /\ \A item \in held : item[1] \notin freed /\ content[item[1]] = item[2]

(* Once a handle has been promised something, the host keeps under it what *)
(* some attempt since then is written as.                                  *)
ConfigOK ==
  /\ hostHeadle = told /\ told \in InstanceHandles \cup {0}
  /\ stored \in [InstanceHandles -> Texts]
  /\ promised \in [InstanceHandles -> BOOLEAN]
  /\ attempts \in [InstanceHandles -> SUBSET Configs]
  /\ \A h \in InstanceHandles :
       promised[h] => \E v \in attempts[h] : Marshalable(v) /\ stored[h] = Marshal(v)

ReadingInv == HandlesOK /\ ReadersOK /\ Owned
IInv == ReadableOK /\ ReadingInv /\ BlocksOK /\ ConfigOK

-----------------------------------------------------------------------------
LEMMA Bounds == Total \in Nat /\ MaxReaders \in Nat /\ MaxRead \in Nat /\ 0 \in 0 .. Total
BY UploadAssumption

(* A Read asks for no more than fits and than the stream has left.         *)
LEMMA ReadFits ==
  ASSUME NEW lo \in 0 .. Total, NEW at \in 0 .. Total, NEW hi \in 0 .. Total, lo <= at, at <= hi,
         NEW n \in Nat, NEW count \in 0 .. Lesser(Wanted(n), hi - at)
  PROVE  /\ count \in Nat /\ Lesser(n, count) = count
         /\ at + count \in 0 .. Total /\ lo <= at + count /\ at + count <= hi
         /\ lo \in Nat /\ at \in Nat /\ at + count \in Nat /\ at <= at + count
BY Bounds DEF Lesser, Wanted

LEMMA BytesSeq ==
  ASSUME NEW lo \in Nat, NEW hi \in Nat, lo <= hi
  PROVE  Bytes(lo, hi) \in Seq(Nat) /\ Len(Bytes(lo, hi)) = hi - lo
BY DEF Bytes

(* Bytes that begin where the bytes given end prolong them. *)
LEMMA BytesJoin ==
  ASSUME NEW lo \in Nat, NEW mid \in Nat, NEW hi \in Nat, lo <= mid, mid <= hi
  PROVE  Bytes(lo, mid) \o Bytes(mid, hi) = Bytes(lo, hi)
<1> DEFINE s == Bytes(lo, mid)
           t == Bytes(mid, hi)
           u == Bytes(lo, hi)
<1>1. /\ s \in Seq(Nat) /\ Len(s) = mid - lo /\ t \in Seq(Nat) /\ Len(t) = hi - mid
      /\ u \in Seq(Nat) /\ Len(u) = hi - lo
  <2>1. lo <= hi
    OBVIOUS
  <2> QED
    BY <2>1, BytesSeq
<1>2. /\ \A i \in 1 .. mid - lo : s[i] = lo + i
      /\ \A i \in 1 .. hi - mid : t[i] = mid + i
      /\ \A i \in 1 .. hi - lo : u[i] = lo + i
  BY DEF Bytes
<1> HIDE DEF s, t, u
<1>3. /\ s \o t \in Seq(Nat) /\ Len(s \o t) = hi - lo
      /\ \A i \in 1 .. hi - lo : (s \o t)[i] = IF i <= mid - lo THEN s[i] ELSE t[i - (mid - lo)]
  <2>1. /\ s \o t \in Seq(Nat) /\ Len(s \o t) = Len(s) + Len(t)
        /\ \A i \in 1 .. Len(s) + Len(t) : (s \o t)[i] = IF i <= Len(s) THEN s[i] ELSE t[i - Len(s)]
    BY <1>1, ConcatProperties
  <2>2. Len(s) + Len(t) = hi - lo
    BY <1>1
  <2> QED
    BY <1>1, <2>1, <2>2
<1>4. ASSUME NEW i \in 1 .. hi - lo PROVE (s \o t)[i] = u[i]
  <2>1. CASE i <= mid - lo
    BY <2>1, <1>2, <1>3
  <2>2. CASE ~ (i <= mid - lo)
    <3>1. i - (mid - lo) \in 1 .. hi - mid
      BY <2>2
    <3> QED
      BY <3>1, <2>2, <1>2, <1>3
  <2> QED
    BY <2>1, <2>2
<1> QED
  BY <1>1, <1>3, <1>4, SeqEqual DEF u, s, t

(* The table has one handle more than there can be readers, so the host    *)
(* can always make an error resource.                                      *)
LEMMA FreeHandle ==
  ASSUME ReadingInv
  PROVE  Free # {} /\ NewHandle \in Free
<1> SUFFICES ASSUME Free = {} PROVE FALSE
  BY DEF NewHandle
<1> DEFINE f == [h \in TableSlots |-> CHOOSE r \in Live : inner[r] = h]
           N == Len(readers)
<1>1. \A h \in TableSlots : f[h] \in Live /\ inner[f[h]] = h
  BY DEF Free, ReadingInv, Owned
<1>2. N \in Nat /\ N <= MaxReaders /\ Live \subseteq 1 .. N /\ MaxReaders \in Nat
  BY LenProperties, Bounds DEF ReadingInv, ReadersOK, Live
<1>3. f \in [TableSlots -> 1 .. N]
  BY <1>1, <1>2
<1> HIDE DEF f, N
<1>4. /\ IsFiniteSet(TableSlots) /\ Cardinality(TableSlots) = MaxReaders + 1
      /\ IsFiniteSet(1 .. N) /\ Cardinality(1 .. N) = N
  <2>1. 1 \in Int /\ MaxReaders + 1 \in Int /\ N \in Int
    BY <1>2
  <2>2. /\ IsFiniteSet(1 .. MaxReaders + 1) /\ Cardinality(1 .. MaxReaders + 1) = MaxReaders + 1
    BY <1>2, <2>1, FS_Interval
  <2>3. /\ IsFiniteSet(1 .. N) /\ Cardinality(1 .. N) = N
    BY <1>2, <2>1, FS_Interval
  <2> QED
    BY <2>2, <2>3 DEF TableSlots
<1>5. \E g, h \in TableSlots : g # h /\ f[g] = f[h]
  BY <1>2, <1>3, <1>4, FS_PigeonHole
<1> QED
  BY <1>1, <1>5

-----------------------------------------------------------------------------
(* A reader is made, on a handle of its own. *)
LEMMA OpenStep ==
  ASSUME ReadingInv, NEW lo \in 0 .. Total, NEW hi \in 0 .. Total, lo <= hi,
         NEW kind \in {"none", "stream", "peek", "chunk"}, Open(lo, hi, kind)
  PROVE  ReadingInv'
<1>0. PICK h, n : h = NewHandle /\ n = Len(readers)
  OBVIOUS
<1> DEFINE new == [kind |-> kind, lo |-> lo, hi |-> hi, got |-> <<>>, state |-> "open"]
<1>1. h \in TableSlots /\ table[h] = "free"
  BY <1>0, FreeHandle DEF Free
<1>2. TableSlots \subseteq Nat /\ Total \in Nat /\ MaxReaders \in Nat
  BY Bounds DEF TableSlots
<1>3. /\ n < MaxReaders /\ table' = [table EXCEPT ![h] = "stream"]
      /\ position' = [position EXCEPT ![h] = lo]
      /\ readers' = Append(readers, new) /\ inner' = Append(inner, h)
  BY <1>0 DEF Open
<1>4. new \in Records
  <2>1. <<>> \in Seq(Nat)
    BY EmptySeq
  <2> QED
    BY <1>1, <1>2, <2>1 DEF Records
<1>5. /\ readers' \in Seq(Records) /\ Len(readers') = n + 1 /\ n \in Nat /\ DOMAIN readers = 1 .. n
      /\ DOMAIN readers' = 1 .. n + 1
      /\ \A r \in 1 .. n : readers'[r] = readers[r]
      /\ readers'[n + 1] = new
  BY <1>0, <1>3, <1>4, AppendProperties, LenProperties DEF ReadingInv, ReadersOK
<1>5a. /\ inner' \in Seq(Nat) /\ Len(inner') = n + 1 /\ inner'[n + 1] = h
       /\ \A r \in 1 .. n : inner'[r] = inner[r]
  BY <1>0, <1>1, <1>2, <1>3, AppendProperties, LenProperties DEF ReadingInv, ReadersOK
<1>6. Live' = Live \cup {n + 1} /\ n + 1 \notin Live
  <2>1. new.state # "given up"
    OBVIOUS
  <2>2. \A r \in 1 .. n + 1 : r \in 1 .. n \/ r = n + 1
    BY <1>5
  <2>3. n + 1 \notin 1 .. n /\ 1 .. n \subseteq 1 .. n + 1 /\ n + 1 \in 1 .. n + 1
    BY <1>5
  <2> HIDE DEF new
  <2> QED
    BY <1>5, <2>1, <2>2, <2>3 DEF Live
<1>7. \A r \in Live : r \in 1 .. n /\ inner[r] # h /\ ReaderOK(r)
  BY <1>1, <1>5 DEF ReadingInv, ReadersOK, ReaderOK, Live
<1>8. HandlesOK'
  BY <1>1, <1>3 DEF ReadingInv, HandlesOK, TableSlots
<1>9. ReaderOK(n + 1)'
  <2>1. position'[h] = lo /\ table'[h] = "stream" /\ Bytes(lo, lo) = <<>>
    <3>1. Bytes(lo, lo) \in Seq(Nat) /\ Len(Bytes(lo, lo)) = 0
      BY <1>2, BytesSeq
    <3> QED
      BY <1>1, <1>3, <3>1, EmptySeq DEF ReadingInv, HandlesOK
  <2>2. /\ inner'[n + 1] = h /\ readers'[n + 1].lo = lo /\ readers'[n + 1].hi = hi
        /\ readers'[n + 1].got = <<>> /\ readers'[n + 1].state = "open"
    BY <1>5, <1>5a
  <2> QED
    BY <1>1, <1>2, <2>1, <2>2 DEF ReaderOK, TableSlots
<1>10. ASSUME NEW r \in Live PROVE ReaderOK(r)'
  BY <1>3, <1>5, <1>5a, <1>7 DEF ReadingInv, HandlesOK, ReaderOK, TableSlots
<1>11. ReadersOK'
  <2>1. Len(readers') <= MaxReaders
    BY <1>2, <1>3, <1>5
  <2>2. ASSUME NEW r \in Live' PROVE ReaderOK(r)'
    BY <1>6, <1>9, <1>10
  <2> QED
    BY <1>5, <1>5a, <2>1, <2>2 DEF ReadersOK
<1>12. Owned'
  <2>1. ASSUME NEW g \in TableSlots, table'[g] # "free"
        PROVE  \E r \in Live' : inner'[r] = g
    <3>1. CASE g = h
      BY <3>1, <1>5a, <1>6
    <3>2. CASE g # h
      <4>1. table[g] # "free"
        BY <3>2, <2>1, <1>1, <1>3 DEF ReadingInv, HandlesOK
      <4>2. PICK r \in Live : inner[r] = g
        BY <4>1 DEF ReadingInv, Owned
      <4> QED
        BY <4>2, <1>5a, <1>6, <1>7
    <3> QED
      BY <3>1, <3>2
  <2>2. ASSUME NEW r \in Live', NEW q \in Live', inner'[r] = inner'[q] PROVE r = q
    BY <2>2, <1>5a, <1>6, <1>7 DEF ReadingInv, Owned
  <2>3. TableSlots' = TableSlots
    BY DEF TableSlots
  <2> QED
    BY <2>1, <2>2, <2>3 DEF Owned
<1> QED
  BY <1>8, <1>11, <1>12 DEF ReadingInv

(* A reader is given up, and its handle with it. *)
LEMMA GiveUpStep ==
  ASSUME ReadingInv, NEW r \in DOMAIN readers, GiveUp(r), position' = position
  PROVE  ReadingInv'
<1> DEFINE h == inner[r]
<1>1. r \in Live /\ ReaderOK(r) /\ h \in TableSlots
  BY DEF GiveUp, Live, ReadingInv, ReadersOK, ReaderOK
<1>2. GivenUp \in Records
  <2>1. <<>> \in Seq(Nat)
    BY EmptySeq
  <2> QED
    BY <2>1, Bounds DEF GivenUp, Records
<1>3. DOMAIN readers = 1 .. Len(readers) /\ DOMAIN inner = 1 .. Len(readers)
  BY LenProperties DEF ReadingInv, ReadersOK
<1>4. /\ readers' \in Seq(Records) /\ Len(readers') = Len(readers) /\ DOMAIN readers' = DOMAIN readers
      /\ \A q \in DOMAIN readers : readers'[q] = IF q = r THEN GivenUp ELSE readers[q]
  BY <1>2, <1>3, ExceptSeq DEF GiveUp, ReadingInv, ReadersOK
<1>4a. /\ inner' \in Seq(Nat) /\ Len(inner') = Len(inner)
       /\ \A q \in DOMAIN readers : inner'[q] = IF q = r THEN 0 ELSE inner[q]
  <2>1. /\ inner' = [inner EXCEPT ![r] = 0] /\ inner \in Seq(Nat) /\ 0 \in Nat
        /\ r \in 1 .. Len(inner) /\ DOMAIN readers = 1 .. Len(inner)
    BY <1>3 DEF GiveUp, ReadingInv, ReadersOK
  <2> QED
    BY <2>1, ExceptSeq
<1>5. Live' = Live \ {r}
  <2>1. readers'[r].state = "given up"
    <3>1. readers'[r] = GivenUp
      BY <1>4
    <3>2. GivenUp.state = "given up"
      BY DEF GivenUp
    <3> QED
      BY <3>1, <3>2
  <2>2. \A q \in DOMAIN readers \ {r} : readers'[q] = readers[q]
    BY <1>4
  <2> QED
    BY <1>4, <2>1, <2>2 DEF Live
<1>6. \A q \in Live' : /\ q \in Live /\ readers'[q] = readers[q] /\ inner'[q] = inner[q]
                      /\ inner[q] # h /\ ReaderOK(q)
  BY <1>1, <1>4, <1>4a, <1>5 DEF ReadingInv, ReadersOK, Owned, Live
<1>7. table' = [table EXCEPT ![h] = "free"]
  BY DEF GiveUp
<1> HIDE DEF h
<1>8. HandlesOK'
  BY <1>1, <1>7 DEF ReadingInv, HandlesOK, TableSlots
<1>9. ReadersOK'
  <2>1. ASSUME NEW q \in Live' PROVE ReaderOK(q)'
    <3>1. /\ q \in Live /\ readers'[q] = readers[q] /\ inner'[q] = inner[q]
          /\ inner[q] # h /\ ReaderOK(q) /\ TableSlots' = TableSlots
      BY <1>6 DEF TableSlots
    <3>2. table'[inner[q]] = table[inner[q]]
      BY <3>1, <1>7 DEF ReadingInv, HandlesOK, ReaderOK
    <3> QED
      BY <3>1, <3>2 DEF ReaderOK, Bytes
  <2> QED
    BY <2>1, <1>4, <1>4a DEF ReadingInv, ReadersOK
<1>10. Owned'
  <2>1. ASSUME NEW g \in TableSlots, table'[g] # "free"
        PROVE  \E q \in Live' : inner'[q] = g
    <3>1. g # h /\ table[g] # "free"
      BY <2>1, <1>1, <1>7 DEF ReadingInv, HandlesOK
    <3>2. PICK q \in Live : inner[q] = g
      BY <3>1 DEF ReadingInv, Owned
    <3>3. q # r
      BY <3>1, <3>2 DEF h
    <3> QED
      BY <3>2, <3>3, <1>5, <1>6
  <2>2. TableSlots' = TableSlots
    BY DEF TableSlots
  <2>3. ASSUME NEW p \in Live', NEW q \in Live', inner'[p] = inner'[q] PROVE p = q
    <3>1. p \in Live /\ q \in Live /\ inner[p] = inner[q]
      BY <2>3, <1>6
    <3> QED
      BY <3>1 DEF ReadingInv, Owned
  <2> QED
    BY <2>1, <2>2, <2>3 DEF Owned
<1> QED
  BY <1>8, <1>9, <1>10 DEF ReadingInv

(* Some of a live reader's fields change, and the host's place in its      *)
(* stream; no handle changes hands.                                        *)
LEMMA AdvanceStep ==
  ASSUME ReadingInv, NEW r \in Live, NEW new \in Records, NEW at \in 0 .. Total,
         new.lo = readers[r].lo, new.hi = readers[r].hi,
         new.state # "given up", new.lo <= at, at <= new.hi, new.got = Bytes(new.lo, at),
         new.state = "EOF" => at = new.hi,
         readers' = [readers EXCEPT ![r] = new], inner' = inner,
         position' = [position EXCEPT ![inner[r]] = at], table' = table
  PROVE  ReadingInv'
<1> DEFINE h == inner[r]
<1>1. r \in DOMAIN readers /\ ReaderOK(r) /\ h \in TableSlots /\ table[h] # "free"
  BY DEF Live, ReadingInv, ReadersOK, ReaderOK
<1>2. DOMAIN readers = 1 .. Len(readers)
  BY LenProperties DEF ReadingInv, ReadersOK
<1>3. /\ readers' \in Seq(Records) /\ Len(readers') = Len(readers) /\ DOMAIN readers' = DOMAIN readers
      /\ \A q \in DOMAIN readers : readers'[q] = IF q = r THEN new ELSE readers[q]
  BY <1>1, <1>2, ExceptSeq DEF ReadingInv, ReadersOK
<1>4. Live' = Live
  BY <1>3 DEF Live
<1>5. \A q \in Live : q \in DOMAIN readers /\ inner'[q] = inner[q]
  BY <1>3 DEF Live
<1>6. TableSlots' = TableSlots
  BY DEF TableSlots
<1>7. HandlesOK'
  BY <1>1, <1>6 DEF ReadingInv, HandlesOK
<1>8. ReadersOK'
  <2>1. ReaderOK(r)'
    <3>1. readers'[r] = new /\ position'[h] = at
      BY <1>1, <1>3 DEF ReadingInv, HandlesOK
    <3>2. new.got = Bytes(new.lo, position'[h])
      BY <3>1
    <3> QED
      BY <3>1, <3>2, <1>1, <1>6 DEF ReaderOK
  <2>2. ASSUME NEW q \in Live, q # r PROVE ReaderOK(q)'
    <3>1. readers'[q] = readers[q] /\ inner[q] # h /\ ReaderOK(q)
      BY <2>2, <1>3, <1>5 DEF ReadingInv, ReadersOK, Owned
    <3>2. position'[inner[q]] = position[inner[q]]
      BY <3>1 DEF ReadingInv, HandlesOK, ReaderOK
    <3> QED
      BY <3>1, <3>2, <1>6 DEF ReaderOK, Bytes
  <2>3. \A q \in Live' : ReaderOK(q)'
    BY <2>1, <2>2, <1>4
  <2> QED
    BY <2>3, <1>3 DEF ReadingInv, ReadersOK
<1>9. Owned'
  <2>1. ASSUME NEW p \in Live', NEW q \in Live', inner'[p] = inner'[q] PROVE p = q
    <3>1. p \in Live /\ q \in Live /\ inner[p] = inner[q]
      BY <2>1, <1>4, <1>5
    <3> QED
      BY <3>1 DEF ReadingInv, Owned
  <2>2. ASSUME NEW g \in TableSlots, table'[g] # "free"
        PROVE  \E q \in Live' : inner'[q] = g
    BY <2>2, <1>4, <1>5 DEF ReadingInv, Owned
  <2> QED
    BY <2>1, <2>2, <1>6 DEF Owned
<1> QED
  BY <1>7, <1>8, <1>9 DEF ReadingInv

(* What is known of a live reader. *)
LEMMA LiveReader ==
  ASSUME ReadingInv, NEW r \in DOMAIN readers, readers[r].state # "given up"
  PROVE  /\ r \in Live /\ inner[r] \in TableSlots /\ readers[r] \in Records
         /\ position[inner[r]] \in 0 .. Total
         /\ readers[r].lo \in 0 .. Total /\ readers[r].hi \in 0 .. Total
         /\ readers[r].lo <= position[inner[r]] /\ position[inner[r]] <= readers[r].hi
         /\ readers[r].got = Bytes(readers[r].lo, position[inner[r]])
         /\ readers[r].state \in {"open", "failed", "EOF"}
         /\ (readers[r].state = "EOF" => position[inner[r]] = readers[r].hi)
<1>1. r \in Live /\ ReaderOK(r)
  BY DEF Live, ReadingInv, ReadersOK
<1>2. readers[r] \in Records
  <2>1. DOMAIN readers = 1 .. Len(readers)
    BY LenProperties DEF ReadingInv, ReadersOK
  <2> QED
    BY <2>1, ElementOfSeq DEF ReadingInv, ReadersOK
<1>3. /\ readers[r].lo \in 0 .. Total /\ readers[r].hi \in 0 .. Total
      /\ readers[r].state \in {"open", "failed", "EOF"}
  BY <1>2 DEF Records
<1> QED
  BY <1>1, <1>2, <1>3 DEF ReaderOK, ReadingInv, HandlesOK

(* After a Read that gives bytes the driver has the reader's range up to   *)
(* where the host is now.                                                  *)
LEMMA ReadBytesGives ==
  ASSUME ReadingInv, NEW r \in DOMAIN readers, readers[r].state = "open", NEW n \in Nat,
         NEW count \in 0 .. Lesser(Wanted(n), readers[r].hi - position[inner[r]]),
         ReadBytes(r, n, count)
  PROVE  \E at \in 0 .. Total :
           /\ readers[r].lo <= at /\ position[inner[r]] <= at /\ at <= readers[r].hi
           /\ readers' = [readers EXCEPT ![r] = [@ EXCEPT !.got = Bytes(readers[r].lo, at)]]
           /\ position' = [position EXCEPT ![inner[r]] = at]
<1> DEFINE old == readers[r]
           start == position[inner[r]]
<1>1. PICK lo, hi, p : lo = old.lo /\ hi = old.hi /\ p = start
  OBVIOUS
<1>2. /\ lo \in 0 .. Total /\ hi \in 0 .. Total /\ p \in 0 .. Total /\ lo <= p /\ p <= hi
      /\ old.got = Bytes(lo, p) /\ count \in 0 .. Lesser(Wanted(n), hi - p)
  BY <1>1, LiveReader
<1>3. /\ Lesser(n, count) = count
      /\ p + count \in 0 .. Total /\ p + count <= hi
      /\ lo <= p + count /\ lo \in Nat /\ p \in Nat /\ p + count \in Nat /\ p <= p + count
  BY <1>2, ReadFits
<1>4. Bytes(lo, p) \o Bytes(p, p + count) = Bytes(lo, p + count)
  BY <1>2, <1>3, BytesJoin
<1>5. /\ readers' = [readers EXCEPT ![r] = [@ EXCEPT !.got = Bytes(lo, p + count)]]
      /\ position' = [position EXCEPT ![inner[r]] = p + count]
  <2>1. /\ readers' = [readers EXCEPT ![r].got = old.got \o Bytes(start, start + Lesser(n, count))]
        /\ position' = [position EXCEPT ![inner[r]] = start + count]
    BY DEF ReadBytes
  <2>2. old.got \o Bytes(start, start + Lesser(n, count)) = Bytes(lo, p + count)
    BY <1>1, <1>2, <1>3, <1>4
  <2> QED
    BY <1>1, <2>1, <2>2
<1> QED
  BY <1>1, <1>3, <1>5

(* A Read of any outcome. *)
LEMMA ReadStep ==
  ASSUME ReadingInv, NEW r \in DOMAIN readers, Read(r)
  PROVE  ReadingInv'
<1> DEFINE h == inner[r]
           old == readers[r]
<1>1. /\ r \in Live /\ h \in TableSlots /\ old.lo <= position[h] /\ position[h] <= old.hi
      /\ old.got = Bytes(old.lo, position[h]) /\ (old.state = "EOF" => position[h] = old.hi)
      /\ old.state # "given up"
  BY LiveReader DEF Read
<1>2. Total \in Nat
  BY Bounds
<1>3. old \in Records /\ position[h] \in 0 .. Total
  BY <1>1, LiveReader
<1>4. old.lo \in 0 .. Total /\ old.hi \in 0 .. Total
  BY <1>3 DEF Records
<1>5. CASE old.state = "open" /\ \E n \in 0 .. MaxLen :
             \E count \in 0 .. Lesser(Wanted(n), old.hi - position[h]) : ReadBytes(r, n, count)
  <2>1. \E at \in 0 .. Total :
           /\ old.lo <= at /\ position[h] <= at /\ at <= old.hi
           /\ readers' = [readers EXCEPT ![r] = [@ EXCEPT !.got = Bytes(old.lo, at)]]
           /\ position' = [position EXCEPT ![h] = at]
    <3>1. 0 .. MaxLen \subseteq Nat
      BY UploadAssumption
    <3> QED
      BY <3>1, <1>5, ReadBytesGives
  <2>2. PICK at \in 0 .. Total :
           /\ old.lo <= at /\ position[h] <= at /\ at <= old.hi
           /\ readers' = [readers EXCEPT ![r] = [@ EXCEPT !.got = Bytes(old.lo, at)]]
           /\ position' = [position EXCEPT ![h] = at]
    BY <2>1
  <2> DEFINE new == [old EXCEPT !.got = Bytes(old.lo, at)]
  <2>3. old.lo \in Nat /\ at \in Nat /\ old.lo <= at /\ at <= old.hi
    <3>1. old.lo <= at /\ at <= old.hi
      BY <2>2, Zenon
    <3> QED
      BY <3>1, <1>2, <1>4
  <2>4. Bytes(old.lo, at) \in Seq(Nat)
    BY <2>3, BytesSeq
  <2>5. /\ new \in Records /\ new.lo = old.lo /\ new.hi = old.hi
        /\ new.state = "open" /\ new.got = Bytes(old.lo, at)
    BY <1>3, <1>5, <2>4 DEF Records
  <2>6. readers' = [readers EXCEPT ![r] = new] /\ position' = [position EXCEPT ![h] = at]
    BY <2>2, Zenon
  <2>7. table' = table /\ inner' = inner
    BY <1>5 DEF ReadBytes
  <2> HIDE DEF new
  <2> QED
    BY <1>1, <2>3, <2>5, <2>6, <2>7, AdvanceStep
<1>6. CASE \E b \in Blocks : old.state = "open" /\ ReadFailed(r, b)
  <2> DEFINE new == [old EXCEPT !.state = "failed"]
  <2>1. /\ readers' = [readers EXCEPT ![r] = new] /\ position' = position /\ inner' = inner
        /\ table' = [table EXCEPT ![NewHandle] = "free"]
    BY <1>6 DEF ReadFailed
  <2>2. table' = table
    BY <2>1, FreeHandle DEF Free, ReadingInv, HandlesOK
  <2>3. position' = [position EXCEPT ![h] = position[h]]
    BY <2>1, <1>1 DEF ReadingInv, HandlesOK
  <2>4. /\ new \in Records /\ new.lo = old.lo /\ new.hi = old.hi
        /\ new.state = "failed" /\ new.got = old.got
    BY <1>3 DEF Records
  <2> HIDE DEF new
  <2> QED
    BY <1>1, <1>3, <2>1, <2>2, <2>3, <2>4, AdvanceStep
<1>7. CASE ReadEnd(r)
  <2> DEFINE end == IF old.state = "failed" THEN "failed" ELSE "EOF"
             new == [old EXCEPT !.state = end]
  <2>1. /\ readers' = [readers EXCEPT ![r] = new] /\ position' = position /\ table' = table /\ inner' = inner
        /\ position[h] = old.hi \/ old.state = "failed"
    BY <1>7 DEF ReadEnd
  <2>2. position' = [position EXCEPT ![h] = position[h]]
    BY <2>1, <1>1 DEF ReadingInv, HandlesOK
  <2>3. /\ new \in Records /\ new.lo = old.lo /\ new.hi = old.hi
        /\ new.state \in {"failed", "EOF"} /\ (new.state = "EOF" => position[h] = old.hi)
        /\ new.got = old.got
    BY <1>3, <2>1 DEF Records
  <2> HIDE DEF new
  <2> QED
    BY <1>1, <1>3, <2>1, <2>2, <2>3, AdvanceStep
<1> QED
  BY <1>5, <1>6, <1>7 DEF Read

LEMMA ReadingUnchanged == ReadingInv /\ UNCHANGED handleVars => ReadingInv'
<1> SUFFICES ASSUME ReadingInv, UNCHANGED handleVars PROVE ReadingInv'
  OBVIOUS
<1>1. table' = table /\ position' = position /\ readers' = readers /\ inner' = inner
  BY DEF handleVars
<1>2. Live' = Live /\ TableSlots' = TableSlots
  BY <1>1 DEF Live, TableSlots
<1>3. ASSUME NEW r \in Live PROVE ReaderOK(r)'
  <2>1. ReaderOK(r)
    BY DEF ReadingInv, ReadersOK
  <2> QED
    BY <1>1, <1>2, <2>1 DEF ReaderOK, Bytes
<1>4. HandlesOK' /\ Owned'
  BY <1>1, <1>2 DEF ReadingInv, HandlesOK, Owned
<1>5. ReadersOK'
  BY <1>1, <1>2, <1>3 DEF ReadingInv, ReadersOK
<1> QED
  BY <1>4, <1>5 DEF ReadingInv

LEMMA ReadableUnchanged == ReadableOK /\ UNCHANGED readableVars => ReadableOK'
BY DEF ReadableOK, readableVars

LEMMA BlocksUnchanged == BlocksOK /\ UNCHANGED blockVars => BlocksOK'
BY DEF BlocksOK, blockVars

-----------------------------------------------------------------------------
(* A block that the driver holds is not freed, so no answer gets it. *)
LEMMA NotHeld ==
  ASSUME BlocksOK, NEW b, b \notin Busy
  PROVE  \A item \in held : item[1] # b
BY DEF BlocksOK, Busy

LEMMA AnswerStep ==
  ASSUME BlocksOK, NEW b \in Blocks, NEW what, Answer(b, what), held' = held
  PROVE  BlocksOK'
<1>1. \A item \in held : item[1] # b /\ item[1] \in Blocks
  BY NotHeld DEF Answer, BlocksOK
<1>2. /\ DOMAIN content' = Blocks /\ freed' \subseteq Blocks
      /\ \A c \in Blocks \ {b} : content'[c] = content[c] /\ (c \in freed' => c \in freed)
  BY DEF Answer, BlocksOK
<1> QED
  BY <1>1, <1>2 DEF BlocksOK

LEMMA MessageStep ==
  ASSUME BlocksOK, NEW b \in Blocks, Message(b)
  PROVE  BlocksOK'
<1>1. \A item \in held : item[1] # b /\ item[1] \in Blocks
  BY NotHeld DEF Message, Answer, BlocksOK
<1>2. /\ DOMAIN content' = Blocks /\ freed' \subseteq Blocks /\ b \notin freed' /\ content'[b] = "message"
      /\ \A c \in Blocks \ {b} : content'[c] = content[c] /\ (c \in freed' => c \in freed)
  BY DEF Message, Answer, BlocksOK
<1>3. held' = held \cup {<<b, "message">>}
  BY DEF Message
<1>4. held' \subseteq Blocks \X {"message", "value"}
  BY <1>3 DEF BlocksOK
<1>5. ASSUME NEW item \in held' PROVE item[1] \notin freed' /\ content'[item[1]] = item[2]
  BY <1>1, <1>2, <1>3, <1>5 DEF BlocksOK
<1> QED
  BY <1>2, <1>4, <1>5 DEF BlocksOK

LEMMA ReadBytesBlocks ==
  ASSUME BlocksOK, NEW r, NEW n, NEW count, ReadBytes(r, n, count)
  PROVE  BlocksOK'
<1>1. CASE UNCHANGED blockVars
  BY <1>1, BlocksUnchanged
<1>2. CASE \E b \in Blocks \ Busy :
             content' = [content EXCEPT ![b] = "data"] /\ freed' = freeWasiSlice(freed, b) /\ UNCHANGED held
  <2>1. PICK b \in Blocks \ Busy :
               content' = [content EXCEPT ![b] = "data"] /\ freed' = freeWasiSlice(freed, b) /\ UNCHANGED held
    BY <1>2
  <2>2. \A item \in held : item[1] # b
    BY NotHeld
  <2> QED
    BY <2>1, <2>2 DEF BlocksOK, freeWasiSlice
<1> QED
  BY <1>1, <1>2 DEF ReadBytes

LEMMA RefusedStep ==
  ASSUME ReadableOK, ReadingInv, BlocksOK, HostRefuses
  PROVE  ReadableOK' /\ ReadingInv' /\ BlocksOK'
BY ReadingUnchanged, ReadableUnchanged, MessageStep DEF HostRefuses

LEMMA GetHashStep ==
  ASSUME ReadableOK, ReadingInv, BlocksOK, GetHash
  PROVE  ReadableOK' /\ ReadingInv' /\ BlocksOK'
<1>1. CASE HostRefuses
  BY <1>1, RefusedStep
<1>2. CASE ~ HostRefuses
  <2>1. PICK b, v \in Blocks \ Busy :
           /\ b # v
           /\ content' = [content EXCEPT ![b] = "infos", ![v] = "value"]
           /\ freed' = (freed \ {v}) \cup {b} /\ held' = held \cup {<<v, "value">>}
           /\ UNCHANGED <<readableVars, handleVars>>
    BY <1>2 DEF GetHash, freeWasiSlice
  <2>2. \A item \in held : item[1] # b /\ item[1] # v /\ item[1] \in Blocks
    BY <2>1, NotHeld DEF BlocksOK
  <2>3. /\ DOMAIN content' = Blocks /\ freed' \subseteq Blocks /\ v \notin freed' /\ content'[v] = "value"
        /\ \A c \in Blocks \ {b, v} : content'[c] = content[c] /\ (c \in freed' => c \in freed)
    BY <2>1 DEF BlocksOK
  <2>4. held' \subseteq Blocks \X {"message", "value"}
    BY <2>1 DEF BlocksOK
  <2>5. ASSUME NEW item \in held' PROVE item[1] \notin freed' /\ content'[item[1]] = item[2]
    BY <2>1, <2>2, <2>3, <2>5 DEF BlocksOK
  <2>6. BlocksOK'
    BY <2>3, <2>4, <2>5 DEF BlocksOK
  <2> QED
    BY <2>1, <2>6, ReadingUnchanged, ReadableUnchanged
<1> QED
  BY <1>1, <1>2

-----------------------------------------------------------------------------
LEMMA PutStep ==
  ASSUME ReadableOK, ReadingInv, BlocksOK, Put
  PROVE  ReadableOK' /\ ReadingInv' /\ BlocksOK'
<1>1. CASE HostRefuses
  BY <1>1, RefusedStep
<1>2. CASE Streams /\ ~ HostRefuses
  <2>1. Open(0, Total, "stream") /\ streamed' = TRUE /\ UNCHANGED <<chunkSize, nextAt, blockVars>>
    BY <1>2 DEF Streams
  <2>2. 0 \in 0 .. Total /\ Total \in 0 .. Total /\ 0 <= Total
    BY Bounds
  <2>3. ReadingInv'
    BY <2>1, <2>2, OpenStep
  <2> QED
    BY <2>1, <2>3, BlocksUnchanged DEF ReadableOK
<1>3. CASE NextChunk /\ ~ HostRefuses
  <2> DEFINE end == Lesser(nextAt + chunkSize, Total)
  <2>1. /\ nextAt < Total /\ Open(nextAt, end, "chunk") /\ nextAt' = end
        /\ UNCHANGED <<chunkSize, streamed, blockVars>>
    BY <1>3 DEF NextChunk
  <2>2. nextAt \in 0 .. Total /\ end \in 0 .. Total /\ nextAt <= end
    BY <2>1, Bounds DEF ReadableOK, Lesser
  <2>3. ReadingInv'
    BY <2>1, <2>2, OpenStep
  <2> QED
    BY <2>1, <2>2, <2>3, BlocksUnchanged DEF ReadableOK
<1>4. CASE Forget
  <2>1. held' = {} /\ UNCHANGED <<readableVars, handleVars, content, freed>>
    BY <1>4 DEF Forget
  <2>2. BlocksOK'
    BY <2>1 DEF BlocksOK
  <2> QED
    BY <2>1, <2>2, ReadingUnchanged, ReadableUnchanged
<1>5. ASSUME NEW p \in Peeks, Peek(p[1], p[2]), ~ HostRefuses PROVE ReadableOK' /\ ReadingInv' /\ BlocksOK'
  <2>1. Open(p[1], p[1] + p[2], "peek") /\ UNCHANGED <<readableVars, blockVars>>
    BY <1>5 DEF Peek
  <2>2. p[1] \in 0 .. Total /\ p[1] + p[2] \in 0 .. Total /\ p[1] <= p[1] + p[2]
    BY UploadAssumption
  <2>3. ReadingInv'
    BY <2>1, <2>2, OpenStep
  <2> QED
    BY <2>1, <2>3, BlocksUnchanged, ReadableUnchanged
<1>6. ASSUME NEW size \in ChunkSizes, Chunks(size), ~ HostRefuses PROVE ReadableOK' /\ ReadingInv' /\ BlocksOK'
  <2>1. chunkSize' = size /\ nextAt' = 0 /\ UNCHANGED <<streamed, handleVars, blockVars>>
    BY <1>6 DEF Chunks
  <2>2. size \in 0 .. Total /\ 0 \in 0 .. Total
    BY UploadAssumption
  <2> QED
    BY <2>1, <2>2, ReadingUnchanged, BlocksUnchanged DEF ReadableOK
<1>7. ASSUME NEW r \in DOMAIN readers, ChunkReset(r) PROVE ReadableOK' /\ ReadingInv' /\ BlocksOK'
  <2>1. readers[r] \in Records
    <3>1. DOMAIN readers = 1 .. Len(readers)
      BY LenProperties DEF ReadingInv, ReadersOK
    <3> QED
      BY <3>1, ElementOfSeq DEF ReadingInv, ReadersOK
  <2>2. nextAt' \in 0 .. Total /\ UNCHANGED <<chunkSize, streamed>>
    BY <1>7, <2>1 DEF ChunkReset, Records, ReadableOK
  <2>3. BlocksOK'
    BY <1>7, BlocksUnchanged, MessageStep DEF ChunkReset
  <2>4. ReadingInv'
    BY <1>7, GiveUpStep DEF ChunkReset
  <2> QED
    BY <2>2, <2>3, <2>4 DEF ReadableOK
<1>8. ASSUME NEW r \in DOMAIN readers, Close(r) PROVE ReadableOK' /\ ReadingInv' /\ BlocksOK'
  <2>1. ReadingInv'
    BY <1>8, GiveUpStep DEF Close
  <2> QED
    BY <1>8, <2>1, BlocksUnchanged, ReadableUnchanged DEF Close
<1>9. ASSUME NEW r \in DOMAIN readers, Read(r)
      PROVE  ReadableOK' /\ ReadingInv' /\ BlocksOK'
  <2>2. ReadingInv'
    BY <1>9, ReadStep
  <2>3. BlocksOK'
    <3>1. CASE \E n, count : ReadBytes(r, n, count)
      BY <3>1, ReadBytesBlocks
    <3>2. CASE \E b \in Blocks : ReadFailed(r, b)
      BY <3>2, MessageStep DEF ReadFailed
    <3>3. CASE ReadEnd(r)
      BY <3>3, BlocksUnchanged DEF ReadEnd
    <3> QED
      BY <1>9, <3>1, <3>2, <3>3 DEF Read
  <2> QED
    BY <1>9, <2>2, <2>3, ReadableUnchanged DEF Read
<1> QED
  BY <1>1, <1>2, <1>3, <1>4, <1>5, <1>6, <1>7, <1>8, <1>9, GetHashStep DEF Put

LEMMA PutKeepsConfig == Put => UNCHANGED configVars
BY DEF Put, Streams, NextChunk, Forget, Peek, Chunks, ChunkReset, Close, Read, GetHash, HostRefuses

(* A struct that is written as JSON is an object without a mistyped        *)
(* member, and reads back as itself where JSON carries it.                 *)
LEMMA MarshalLoads ==
  ASSUME NEW v \in Configs, Marshalable(v)
  PROVE  Marshal(v) \in Texts /\ Loads(Marshal(v)) /\ Fitting(Marshal(v)) = DOMAIN Marshal(v)
<1> DEFINE members == {f \in Fields : f \notin Omitted \/ v[f] # Zero}
<1>1. \A f \in members : v[f] \in JSONValues /\ v[f] # Mistyped
  BY ConfigAssumption DEF Structs, JSONValues, Marshalable
<1>2. DOMAIN Marshal(v) = members /\ \A f \in members : Marshal(v)[f] = v[f]
  BY DEF Marshal
<1>3. Marshal(v) \in [members -> JSONValues] /\ members \in SUBSET Fields
  BY <1>1 DEF Marshal
<1>4. Marshal(v) \in Objects
  BY <1>3 DEF Objects
<1>5. Fitting(Marshal(v)) = DOMAIN Marshal(v)
  BY <1>1, <1>2 DEF Fitting
<1> QED
  BY <1>4, <1>5, ConfigAssumption DEF Texts, Loads

LEMMA MarshalRestores ==
  ASSUME NEW v \in Configs, Marshalable(v), NEW before \in Configs
  PROVE  Restored(v, before, Unmarshal(Marshal(v), before))
<1> DEFINE after == Unmarshal(Marshal(v), before)
<1>1. /\ Marshal(v) # NotJSON
      /\ Fitting(Marshal(v)) = {f \in Fields : f \notin Omitted \/ v[f] # Zero}
  BY MarshalLoads DEF Loads, Marshal
<1>2. \A f \in Fields \cup Hidden :
        after[f] = IF f \in Fitting(Marshal(v)) THEN Marshal(v)[f] ELSE before[f]
  BY <1>1 DEF Unmarshal
<1>3. \A f \in Fitting(Marshal(v)) : Marshal(v)[f] = v[f]
  BY <1>1 DEF Marshal
<1> HIDE DEF after
<1>4. ASSUME NEW f \in Fields
      PROVE  after[f] = v[f] \/ (f \in Omitted /\ v[f] = Zero /\ after[f] = before[f])
  BY <1>1, <1>2, <1>3
<1>5. ASSUME NEW f \in Hidden PROVE after[f] = before[f]
  BY <1>1, <1>2, ConfigAssumption
<1> QED
  BY <1>4, <1>5 DEF Restored, after

LEMMA SaveStep ==
  ASSUME ConfigOK, NEW val \in Configs, NEW err \in ConfigErrors, SaveConfig(val, err)
  PROVE  ConfigOK'
<1>1. /\ hostHeadle' = hostHeadle /\ told' = told /\ told = hostHeadle
      /\ err = "json" <=> ~ Marshalable(val)
      /\ err = "nil" => told \in InstanceHandles
  BY DEF ConfigOK, SaveConfig
<1>2. \/ err # "nil" /\ stored' = stored
      \/ Marshalable(val) /\ stored' = [h \in InstanceHandles |-> IF h = told THEN Marshal(val) ELSE stored[h]]
  BY <1>1 DEF SaveConfig
<1>3. stored' \in [InstanceHandles -> Texts]
  BY <1>2, MarshalLoads DEF ConfigOK
<1>4. /\ promised' \in [InstanceHandles -> BOOLEAN]
      /\ \A h \in InstanceHandles : promised'[h] <=> promised[h] \/ (h = told /\ err = "nil")
  BY DEF ConfigOK, SaveConfig
<1>5. /\ attempts' \in [InstanceHandles -> SUBSET Configs]
      /\ \A h \in InstanceHandles : attempts'[h] =
           IF h # told \/ err = "json" THEN attempts[h]
           ELSE IF err = "nil" THEN {val} ELSE attempts[h] \cup {val}
  BY DEF ConfigOK, SaveConfig
<1>6. ASSUME NEW h \in InstanceHandles, promised'[h]
      PROVE  \E v \in attempts'[h] : Marshalable(v) /\ stored'[h] = Marshal(v)
  <2>1. CASE stored'[h] = Marshal(val) /\ Marshalable(val) /\ h = told
    <3>1. val \in attempts'[h]
      BY <2>1, <1>1, <1>5
    <3> QED
      BY <2>1, <3>1
  <2>2. CASE stored'[h] = stored[h] /\ (h # told \/ err # "nil")
    <3>1. promised[h] /\ attempts[h] \subseteq attempts'[h]
      BY <2>2, <1>4, <1>5, <1>6
    <3> QED
      BY <2>2, <3>1 DEF ConfigOK
  <2> QED
    BY <2>1, <2>2, <1>2
<1> QED
  BY <1>1, <1>3, <1>4, <1>5, <1>6 DEF ConfigOK

LEMMA ConfigureStep ==
  ASSUME IInv, Configure
  PROVE  IInv'
<1>1. ReadableOK' /\ ReadingInv'
  BY ReadingUnchanged, ReadableUnchanged DEF IInv, Configure
<1>2. ASSUME NEW h \in InstanceHandles, SetHandle(h), UNCHANGED blockVars PROVE BlocksOK' /\ ConfigOK'
  <2>1. BlocksOK'
    BY <1>2, BlocksUnchanged DEF IInv
  <2>2. ConfigOK'
    BY <1>2 DEF IInv, SetHandle, ConfigOK
  <2> QED
    BY <2>1, <2>2
<1>3. ASSUME NEW err, NEW b \in Blocks, UNCHANGED configVars,
             IF err = "host" THEN Message(b) ELSE Answer(b, "config") /\ UNCHANGED held
      PROVE  BlocksOK' /\ ConfigOK'
  <2>1. BlocksOK'
    BY <1>3, MessageStep, AnswerStep DEF IInv
  <2>2. ConfigOK'
    BY <1>3 DEF IInv, ConfigOK, configVars
  <2> QED
    BY <2>1, <2>2
<1>4. ASSUME NEW val \in Configs, NEW err \in ConfigErrors, SaveConfig(val, err),
             IF err = "host" THEN \E b \in Blocks : Message(b) ELSE UNCHANGED blockVars
      PROVE  BlocksOK' /\ ConfigOK'
  <2>1. BlocksOK'
    BY <1>4, MessageStep, BlocksUnchanged DEF IInv
  <2>2. ConfigOK'
    BY <1>4, SaveStep DEF IInv
  <2> QED
    BY <2>1, <2>2
<1>5. BlocksOK' /\ ConfigOK'
  BY <1>2, <1>3, <1>4 DEF Configure
<1> QED
  BY <1>1, <1>5 DEF IInv

-----------------------------------------------------------------------------
LEMMA InitIInv == Init => IInv
<1> SUFFICES ASSUME Init PROVE IInv
  OBVIOUS
<1>1. ReadableOK
  BY Bounds DEF Init, ReadableOK
<1>2. /\ readers \in Seq(Records) /\ Len(readers) = 0 /\ DOMAIN readers = {}
      /\ inner \in Seq(Nat) /\ Len(inner) = 0
  <2>1. readers = <<>> /\ inner = <<>>
    BY DEF Init
  <2>2. /\ readers \in Seq(Records) /\ Len(readers) = 0
        /\ inner \in Seq(Nat) /\ Len(inner) = 0
    BY <2>1, EmptySeq
  <2>3. DOMAIN readers = 1 .. 0
    BY <2>2, LenProperties
  <2> QED
    BY <2>2, <2>3
<1>3. Live = {}
  BY <1>2 DEF Live
<1>4. ReadingInv
  BY <1>2, <1>3, Bounds DEF Init, ReadingInv, HandlesOK, ReadersOK, Owned
<1>5. BlocksOK
  BY DEF Init, BlocksOK
<1>6. ConfigOK
  BY ConfigAssumption DEF Init, ConfigInit, ConfigOK
<1> QED
  BY <1>1, <1>4, <1>5, <1>6 DEF IInv

LEMMA NextIInv == IInv /\ [Next]_vars => IInv'
<1> SUFFICES ASSUME IInv, [Next]_vars PROVE IInv'
  OBVIOUS
<1>1. CASE Put
  <2>1. ReadableOK' /\ ReadingInv' /\ BlocksOK'
    BY <1>1, PutStep DEF IInv
  <2>2. ConfigOK'
    BY <1>1, PutKeepsConfig DEF IInv, ConfigOK, configVars
  <2> QED
    BY <2>1, <2>2 DEF IInv
<1>2. CASE Configure
  BY <1>2, ConfigureStep
<1>3. CASE UNCHANGED vars
  <2>1. ReadableOK' /\ ReadingInv' /\ BlocksOK'
    BY <1>3, ReadingUnchanged, ReadableUnchanged, BlocksUnchanged DEF IInv, vars
  <2>2. ConfigOK'
    BY <1>3 DEF IInv, ConfigOK, vars, configVars
  <2> QED
    BY <2>1, <2>2 DEF IInv
<1> QED
  BY <1>1, <1>2, <1>3 DEF Next

LEMMA Inductive == Spec => []IInv
BY InitIInv, NextIInv, PTL DEF Spec

-----------------------------------------------------------------------------
(* Whatever is read, closed, reset, loaded and saved, the state has the    *)
(* types that the handlers in adapter/streams.go and manager.go expect.    *)
THEOREM TypesHold == Spec => []TypeOK
<1>1. IInv => TypeOK
  BY DEF IInv, ReadableOK, ReadingInv, HandlesOK, ReadersOK, BlocksOK, ConfigOK, TypeOK
<1> QED
  BY <1>1, Inductive, PTL

(* Read leaves none of the host's bytes behind, however short the driver's *)
(* buffer is: a reader has passed on what the host has given, in order     *)
(* (InputStream.Read).                                                     *)
THEOREM ReadsSkipNothing == Spec => []NothingSkipped
<1>1. IInv => NothingSkipped
  BY DEF IInv, ReadingInv, ReadersOK, ReaderOK, NothingSkipped
<1> QED
  BY <1>1, Inductive, PTL

(* io.EOF means that the whole range was read, and never that the host     *)
(* failed (the error cases of InputStream.Read).                           *)
THEOREM EOFMeansWhole == Spec => []WholeAtEOF
<1>1. IInv => WholeAtEOF
  <2> SUFFICES ASSUME IInv, NEW r \in DOMAIN readers, readers[r].state = "EOF"
               PROVE  readers[r].got = Bytes(readers[r].lo, readers[r].hi)
    BY DEF WholeAtEOF
  <2>1. r \in Live
    BY DEF Live
  <2> QED
    BY <2>1 DEF IInv, ReadingInv, ReadersOK, ReaderOK
<1> QED
  BY <1>1, Inductive, PTL

(* Failed reads, peeks and reset chunks leave no handle behind, for any    *)
(* number of readers (InputStream.Close and the drops of UploadRequest).   *)
THEOREM HandlesOwned == Spec => []OwnedExactly
<1>1. IInv => OwnedExactly
  BY DEF IInv, ReadingInv, ReadersOK, ReaderOK, Owned, OwnedExactly
<1> QED
  BY <1>1, Inductive, PTL

(* No freeing helper frees a block to which what the driver holds points   *)
(* (freeWasiSlice in GetHash and Read).                                    *)
THEOREM HeldNotOverwritten == Spec => []HeldIntact
<1>1. IInv => HeldIntact
  BY DEF IInv, BlocksOK, HeldIntact
<1> QED
  BY <1>1, Inductive, PTL

(* What is saved comes back: through the conversion to JSON and from it,   *)
(* into a struct that has values already, with a host that fails before or *)
(* after it has stored the text, under any number of handles (LoadConfig   *)
(* and SaveConfig).                                                        *)
THEOREM SavedIsLoaded == Spec => []RoundTrip
<1>1. IInv => RoundTrip
  <2> SUFFICES ASSUME IInv, NEW before \in Configs, NEW r \in LoadConfig(before)
               PROVE  /\ r.err = "host" => r.val = before
                      /\ told \in InstanceHandles /\ promised[told] /\ r.err # "host" =>
                           r.err = "nil" /\ \E v \in attempts[told] : Restored(v, before, r.val)
    BY DEF RoundTrip
  <2>1. CASE r = [err |-> "host", val |-> before]
    BY <2>1
  <2>2. ASSUME NEW text \in {stored[h] : h \in {hostHeadle} \cap InstanceHandles},
               r = [err |-> IF Loads(text) THEN "nil" ELSE "json", val |-> Unmarshal(text, before)]
        PROVE  /\ r.err # "host"
               /\ promised[told] =>
                    r.err = "nil" /\ \E v \in attempts[told] : Restored(v, before, r.val)
    <3>1. told \in InstanceHandles /\ text = stored[told] /\ r.val = Unmarshal(text, before)
      BY <2>2 DEF IInv, ConfigOK
    <3>2. r.err = IF Loads(text) THEN "nil" ELSE "json"
      BY <2>2
    <3>3. ASSUME promised[told]
          PROVE  r.err = "nil" /\ \E v \in attempts[told] : Restored(v, before, r.val)
      <4>1. PICK v \in attempts[told] : v \in Configs /\ Marshalable(v) /\ text = Marshal(v)
        BY <3>1, <3>3 DEF IInv, ConfigOK
      <4>2. Loads(text) /\ Restored(v, before, r.val)
        BY <3>1, <4>1, MarshalLoads, MarshalRestores
      <4> QED
        BY <3>2, <4>2
    <3> QED
      BY <3>2, <3>3
  <2> QED
    BY <2>1, <2>2 DEF LoadConfig
<1> QED
  BY <1>1, Inductive, PTL

-----------------------------------------------------------------------------
(* What the driver sees of the steps of the upload. *)
LEMMA ReadKeepsPromise ==
  ASSUME ReadingInv, NEW r \in DOMAIN readers, Read(r)
  PROVE  [Promised!Next]_(Promised!vars)
<1> DEFINE h == inner[r]
           old == readers[r]
<1>1. /\ old \in Records /\ old.state \in {"open", "failed", "EOF"}
      /\ old.lo \in 0 .. Total /\ old.hi \in 0 .. Total /\ position[h] \in 0 .. Total
      /\ old.lo <= position[h] /\ position[h] <= old.hi /\ old.got = Bytes(old.lo, position[h])
      /\ nextAt' = nextAt
  BY LiveReader DEF Read, readableVars
<1>2. Len(old.got) = position[h] - old.lo
  BY <1>1, BytesSeq
<1>3. CASE old.state = "open" /\ \E n \in 0 .. MaxLen :
             \E count \in 0 .. Lesser(Wanted(n), old.hi - position[h]) : ReadBytes(r, n, count)
  <2>1. \E at \in 0 .. Total :
           /\ old.lo <= at /\ position[h] <= at /\ at <= old.hi
           /\ readers' = [readers EXCEPT ![r] = [@ EXCEPT !.got = Bytes(old.lo, at)]]
    <3>1. 0 .. MaxLen \subseteq Nat
      BY UploadAssumption
    <3> QED
      BY <3>1, <1>3, ReadBytesGives
  <2>2. PICK at \in 0 .. Total :
           /\ old.lo <= at /\ position[h] <= at /\ at <= old.hi
           /\ readers' = [readers EXCEPT ![r] = [@ EXCEPT !.got = Bytes(old.lo, at)]]
    BY <2>1
  <2>3. at \in old.lo .. old.hi /\ Len(old.got) <= at - old.lo
    BY <2>2, <1>1, <1>2
  <2>4. Promised!Read(r, at)
    BY <1>1, <1>3, <2>2, <2>3 DEF Promised!Read, Promised!Bytes, Bytes
  <2> QED
    BY <2>3, <2>4 DEF Promised!Next
<1>4. CASE old.state = "open" /\ \E b \in Blocks : ReadFailed(r, b)
  <2>1. Promised!Fail(r)
    BY <1>1, <1>4 DEF ReadFailed, Promised!Fail
  <2> QED
    BY <2>1 DEF Promised!Next
<1>5. CASE ReadEnd(r)
  <2>1. /\ readers' = [readers EXCEPT ![r].state = IF @ = "failed" THEN "failed" ELSE "EOF"]
        /\ position[h] = old.hi \/ old.state = "failed"
    BY <1>5 DEF ReadEnd
  <2>2. CASE old.state = "open"
    <3>1. Promised!End(r)
      BY <1>1, <1>2, <2>1, <2>2 DEF Promised!End
    <3> QED
      BY <3>1 DEF Promised!Next
  <2>3. CASE old.state # "open"
    <3>1. readers' = [readers EXCEPT ![r] = [old EXCEPT !.state = old.state]]
      BY <1>1, <2>1, <2>3
    <3>2. [old EXCEPT !.state = old.state] = old
      BY <1>1 DEF Records
    <3>3. readers' = readers
      BY <3>1, <3>2, LenProperties DEF ReadingInv, ReadersOK
    <3> QED
      BY <3>3, <1>1 DEF Promised!vars
  <2> QED
    BY <2>2, <2>3
<1> QED
  BY <1>3, <1>4, <1>5 DEF Read

LEMMA PutKeepsPromise ==
  ASSUME ReadableOK, ReadingInv, Put
  PROVE  [Promised!Next]_(Promised!vars)
<1>1. CASE UNCHANGED <<readableVars, handleVars>>
  BY <1>1 DEF readableVars, handleVars, Promised!vars
<1>2. ASSUME ~ UNCHANGED <<readableVars, handleVars>>, Streams PROVE Promised!Next
  BY <1>2 DEF Streams, HostRefuses, Open, Promised!Next, Promised!Stream, Promised!Open
<1>3. ASSUME ~ UNCHANGED <<readableVars, handleVars>>, NextChunk PROVE Promised!Next
  <2> DEFINE end == Lesser(nextAt + chunkSize, Total)
  <2>1. chunkSize > 0 /\ nextAt < Total /\ Open(nextAt, end, "chunk") /\ nextAt' = end
    BY <1>3 DEF NextChunk, HostRefuses
  <2>2. end \in nextAt + 1 .. Total
    BY <2>1, Bounds DEF ReadableOK, Lesser
  <2>3. Promised!NextChunk(end)
    BY <2>1 DEF Open, Promised!NextChunk, Promised!Open
  <2> QED
    BY <2>2, <2>3 DEF Promised!Next
<1>4. ASSUME ~ UNCHANGED <<readableVars, handleVars>>, NEW p \in Peeks, Peek(p[1], p[2]) PROVE Promised!Next
  <2>1. Promised!Peek(p[1], p[2])
    BY <1>4 DEF Peek, HostRefuses, Open, readableVars, Promised!Peek, Promised!Open
  <2> QED
    BY <2>1 DEF Promised!Next
<1>5. ASSUME ~ UNCHANGED <<readableVars, handleVars>>, NEW size \in ChunkSizes, Chunks(size)
      PROVE  Promised!Next
  BY <1>5 DEF Chunks, HostRefuses, handleVars, Promised!Next, Promised!Chunks
<1>6. ASSUME NEW r \in DOMAIN readers, ChunkReset(r) PROVE Promised!Next
  <2>1. Promised!Close(r) \/ Promised!Reset(r)
    BY <1>6 DEF ChunkReset, GiveUp, GivenUp, Promised!Close, Promised!Reset, Promised!GiveUp, Promised!GivenUp
  <2> QED
    BY <2>1 DEF Promised!Next
<1>7. ASSUME NEW r \in DOMAIN readers, Close(r) PROVE Promised!Next
  <2>1. Promised!Close(r)
    BY <1>7 DEF Close, GiveUp, GivenUp, readableVars, Promised!Close, Promised!GiveUp, Promised!GivenUp
  <2> QED
    BY <2>1 DEF Promised!Next
<1>8. Forget \/ GetHash => UNCHANGED <<readableVars, handleVars>>
  BY DEF Forget, GetHash, HostRefuses
<1> QED
  BY <1>1, <1>2, <1>3, <1>4, <1>5, <1>6, <1>7, <1>8, ReadKeepsPromise DEF Put

(* Whatever the host refuses, however often handles and blocks are used    *)
(* again, and whatever is loaded and saved meanwhile, the driver reads as  *)
(* from readers of its own (UploadRequest and InputStream).                *)
THEOREM UploadReadsAsPromised == Spec => ReadsAsPromised
<1>1. Init => Promised!Init
  BY DEF Init, Promised!Init
<1>2. IInv /\ [Next]_vars => [Promised!Next]_(Promised!vars)
  <2> SUFFICES ASSUME IInv, [Next]_vars PROVE [Promised!Next]_(Promised!vars)
    OBVIOUS
  <2>1. CASE Put
    BY <2>1, PutKeepsPromise DEF IInv
  <2>2. CASE Configure
    BY <2>2 DEF Configure, readableVars, handleVars, Promised!vars
  <2>3. CASE UNCHANGED vars
    BY <2>3 DEF vars, readableVars, handleVars, Promised!vars
  <2> QED
    BY <2>1, <2>2, <2>3 DEF Next
<1> QED
  BY <1>1, <1>2, Inductive, PTL DEF Spec, ReadsAsPromised, Promised!Spec
=============================================================================
