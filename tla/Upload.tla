-------------------------------- MODULE Upload --------------------------------
(***************************************************************************)
(* adapter/streams.go UploadRequest and InputStream: what the driver reads *)
(* in Put, from a readable that belongs to the host, while it may load and *)
(* save its configuration.  The content is numbered bytes 1 .. Total, of   *)
(* which a stream has a range lo + 1 .. hi; the driver reads it through an *)
(* io.ReadCloser and reads a chunk again after ChunkReset.                 *)
(*                                                                         *)
(* What the host returns lies in blocks of the component's allocator, and  *)
(* a freed block serves the host's next answer (the mempool build).  The   *)
(* driver closes a reader once, and not after it has given it to           *)
(* ChunkReset: the component does not look after that.                     *)
(***************************************************************************)
EXTENDS Config, Sequences, FiniteSets

CONSTANTS
  Total,       (* bytes of content                                   *)
  ChunkSizes,  (* that the driver asks chunks for                    *)
  Peeks,       (* <<offset, length>> that it peeks at                *)
  MaxReaders,  (* streams asked for (bound)                          *)
  MaxRead,     (* most bytes Read asks the host for (1 MiB)          *)
  MaxLen,      (* longest buffer of a Read (bound)                   *)
  Blocks       (* blocks the allocator has (bound)                   *)

ASSUME UploadAssumption ==
  /\ Total \in Nat /\ MaxReaders \in Nat /\ MaxLen \in Nat /\ MaxRead \in Nat \ {0}
  /\ IsFiniteSet(Blocks) /\ ChunkSizes \subseteq 1 .. Total
  /\ \A p \in Peeks : p[1] \in Nat /\ p[2] \in Nat /\ p[1] + p[2] <= Total

VARIABLES
  (* the host's readable and its handle table *)
  chunkSize,  (* of the last chunks call, 0 before it              *)
  nextAt,     (* where the next chunk begins                       *)
  streamed,   (* has streams been called?                          *)
  table,      (* handle -> "free", "stream" or "error"             *)
  position,   (* bytes the host has given of the stream of a handle *)
  (* the component *)
  readers,    (* the readers made, and what the driver got of them *)
  inner,      (* the handle of each, 0 when it is given up         *)
  (* blocks *)
  content,    (* what was last written into a block                *)
  freed,      (* blocks given back to the allocator                *)
  held        (* <<block, content>> the driver can reach           *)

readableVars == <<chunkSize, nextAt, streamed>>
handleVars == <<table, position, inner, readers>>
blockVars == <<content, freed, held>>
vars == <<configVars, readableVars, handleVars, blockVars>>

TableSlots == 1 .. MaxReaders + 1
Bytes(lo, hi) == [i \in 1 .. hi - lo |-> lo + i]
Free == {h \in TableSlots : table[h] = "free"}
NewHandle == CHOOSE h \in Free : TRUE
Lesser(a, b) == IF a < b THEN a ELSE b

Init ==
  /\ ConfigInit
  /\ chunkSize = 0 /\ nextAt = 0 /\ streamed = FALSE
  /\ table = [h \in TableSlots |-> "free"] /\ position = [h \in TableSlots |-> 0]
  /\ readers = <<>> /\ inner = <<>>
  /\ content = [b \in Blocks |-> "nothing"] /\ freed = {} /\ held = {}

-----------------------------------------------------------------------------
(* cabi_realloc for an answer of the host: any block that nobody holds. *)
Busy == {item[1] : item \in held} \ freed
Answer(b, what) ==
  /\ b \notin Busy
  /\ content' = [content EXCEPT ![b] = what] /\ freed' = freed \ {b}
Message(b) == Answer(b, "message") /\ held' = held \cup {<<b, "message">>}

GivenUp == [kind |-> "none", lo |-> 0, hi |-> 0, got |-> <<>>, state |-> "given up"]

(* NewInputStream on a stream of the range lo + 1 .. hi. *)
Open(lo, hi, kind) ==
  /\ Len(readers) < MaxReaders
  /\ table' = [table EXCEPT ![NewHandle] = "stream"]
  /\ position' = [position EXCEPT ![NewHandle] = lo]
  /\ inner' = Append(inner, NewHandle)
  /\ readers' = Append(readers, [kind |-> kind, lo |-> lo, hi |-> hi, got |-> <<>>, state |-> "open"])

GiveUp(r) ==
  /\ readers[r].state # "given up"
  /\ readers' = [readers EXCEPT ![r] = GivenUp] /\ inner' = [inner EXCEPT ![r] = 0]
  /\ table' = [table EXCEPT ![inner[r]] = "free"]

HostRefuses == \E b \in Blocks : Message(b) /\ UNCHANGED <<configVars, readableVars, handleVars>>

Streams ==
  \/ /\ ~ streamed /\ streamed' = TRUE
     /\ Open(0, Total, "stream") /\ UNCHANGED <<configVars, chunkSize, nextAt, blockVars>>
  \/ HostRefuses

Peek(offset, length) ==
  \/ Open(offset, offset + length, "peek") /\ UNCHANGED <<configVars, readableVars, blockVars>>
  \/ HostRefuses

Chunks(size) ==
  \/ chunkSize' = size /\ nextAt' = 0 /\ UNCHANGED <<configVars, streamed, handleVars, blockVars>>
  \/ HostRefuses

NextChunk ==
  \/ /\ chunkSize > 0 /\ nextAt < Total
     /\ Open(nextAt, Lesser(nextAt + chunkSize, Total), "chunk")
     /\ nextAt' = Lesser(nextAt + chunkSize, Total)
     /\ UNCHANGED <<configVars, chunkSize, streamed, blockVars>>
  \/ HostRefuses

(* The chunk's handle goes to the host with the call, whatever the answer. *)
(* (A reader that is no InputStream is refused before anything happens.)   *)
ChunkReset(r) ==
  /\ GiveUp(r)
  /\ \/ readers[r].kind = "chunk" /\ nextAt' = readers[r].lo /\ UNCHANGED blockVars
     \/ \E b \in Blocks : Message(b) /\ UNCHANGED nextAt
  /\ UNCHANGED <<configVars, chunkSize, streamed, position>>

Close(r) ==
  GiveUp(r) /\ UNCHANGED <<configVars, readableVars, position, blockVars>>

-----------------------------------------------------------------------------
(* The freed blocks, with b given back. *)
freeWasiSlice(blocks, b) == blocks \cup {b}

(* Mutant of Wanted: a whole buffer is asked for, however short p is. *)
WantedWhole(n) == MaxRead

(* What Read(p) asks for, with len(p) = n. *)
Wanted(n) == Lesser(n, MaxRead)

(* The host gives count bytes in a block, which is freed when copy has     *)
(* taken what fits.                                                        *)
ReadBytes(r, n, count) ==
  LET h == inner[r]
      taken == Lesser(n, count)
  IN  /\ position' = [position EXCEPT ![h] = @ + count]
      /\ readers' = [readers EXCEPT ![r].got = @ \o Bytes(position[h], position[h] + taken)]
      /\ IF count = 0 THEN UNCHANGED blockVars
         ELSE \E b \in Blocks \ Busy :
                /\ content' = [content EXCEPT ![b] = "data"] /\ freed' = freeWasiSlice(freed, b)
                /\ UNCHANGED held
      /\ UNCHANGED <<table, inner>>

(* Mutant of ReadFailed: the error resource is not dropped. *)
ReadFailedKeepingError(r, b) ==
  /\ Message(b)
  /\ table' = [table EXCEPT ![NewHandle] = "error"]
  /\ readers' = [readers EXCEPT ![r].state = "failed"]
  /\ UNCHANGED <<position, inner>>

(* Mutant of ReadFailed: a failure is taken for the end of the stream. *)
ReadFailedAsEnd(r, b) ==
  /\ Message(b)
  /\ table' = [table EXCEPT ![NewHandle] = "free"]
  /\ readers' = [readers EXCEPT ![r].state = "EOF"]
  /\ UNCHANGED <<position, inner>>

(* The host makes an error resource, which is dropped when its message has *)
(* been read.                                                              *)
ReadFailed(r, b) ==
  /\ Message(b)
  /\ table' = [table EXCEPT ![NewHandle] = "free"]
  /\ readers' = [readers EXCEPT ![r].state = "failed"]
  /\ UNCHANGED <<position, inner>>

(* The stream is closed: it has ended, or it failed before. *)
ReadEnd(r) ==
  /\ position[inner[r]] = readers[r].hi \/ readers[r].state = "failed"
  /\ readers' = [readers EXCEPT ![r].state = IF @ = "failed" THEN "failed" ELSE "EOF"]
  /\ UNCHANGED <<table, position, inner, blockVars>>

Read(r) ==
  /\ readers[r].state # "given up"
  /\ LET left == readers[r].hi - position[inner[r]]
     IN  \/ /\ readers[r].state = "open"
            /\ \E n \in 0 .. MaxLen : \E count \in 0 .. Lesser(Wanted(n), left) : ReadBytes(r, n, count)
         \/ readers[r].state = "open" /\ \E b \in Blocks : ReadFailed(r, b)
         \/ ReadEnd(r)
  /\ UNCHANGED <<configVars, readableVars>>

-----------------------------------------------------------------------------
(* Mutant of GetHash: the infos are freed but not cloned. *)
GetHashUncloned ==
  \/ /\ \E b, v \in Blocks \ Busy :
          /\ b # v
          /\ content' = [content EXCEPT ![b] = "infos", ![v] = "value"]
          /\ freed' = freeWasiSlice(freed \ {v}, b)
          /\ held' = held \cup {<<v, "value">>, <<b, "infos">>}
     /\ UNCHANGED <<configVars, readableVars, handleVars>>
  \/ HostRefuses

(* GetHash: the list of infos is cloned and its block freed; the values    *)
(* stay in their blocks, to which the clone points.                        *)
GetHash ==
  \/ /\ \E b, v \in Blocks \ Busy :
          /\ b # v
          /\ content' = [content EXCEPT ![b] = "infos", ![v] = "value"]
          /\ freed' = freeWasiSlice(freed \ {v}, b)
          /\ held' = held \cup {<<v, "value">>}
     /\ UNCHANGED <<configVars, readableVars, handleVars>>
  \/ HostRefuses

-----------------------------------------------------------------------------
(* The driver lets go of what it holds; the collector has those blocks. *)
Forget == held # {} /\ held' = {} /\ UNCHANGED <<configVars, readableVars, handleVars, content, freed>>

Put ==
  \/ Streams \/ NextChunk \/ GetHash \/ Forget
  \/ \E p \in Peeks : Peek(p[1], p[2])
  \/ \E size \in ChunkSizes : Chunks(size)
  \/ \E r \in DOMAIN readers : ChunkReset(r) \/ Close(r) \/ Read(r)

(* The configuration comes in a block, the host's errors as messages; the *)
(* struct it is read into has copies only.                                 *)
Configure ==
  /\ \/ \E h \in InstanceHandles : SetHandle(h) /\ UNCHANGED blockVars
     \/ \E val \in Configs, b \in Blocks : \E r \in LoadConfig(val) :
          /\ UNCHANGED configVars
          /\ IF r.err = "host" THEN Message(b) ELSE Answer(b, "config") /\ UNCHANGED held
     \/ \E val \in Configs, err \in ConfigErrors :
          /\ SaveConfig(val, err)
          /\ IF err = "host" THEN \E b \in Blocks : Message(b) ELSE UNCHANGED blockVars
  /\ UNCHANGED <<readableVars, handleVars>>

Next == Put \/ Configure

Spec == Init /\ [][Next]_vars

-----------------------------------------------------------------------------
TypeOK ==
  /\ hostHeadle \in InstanceHandles \cup {0} /\ stored \in [InstanceHandles -> Texts]
  /\ chunkSize \in 0 .. Total /\ nextAt \in 0 .. Total /\ streamed \in BOOLEAN
  /\ table \in [TableSlots -> {"free", "stream", "error"}]
  /\ position \in [TableSlots -> 0 .. Total]
  /\ Len(readers) <= MaxReaders
  /\ freed \subseteq Blocks /\ held \subseteq Blocks \X {"message", "value"}

Live == {r \in DOMAIN readers : readers[r].state # "given up"}

(* What a reader has given the driver is what the host has given of its    *)
(* stream, from the first byte on: Read leaves nothing behind when the     *)
(* driver's buffer is short (InputStream.Read).                            *)
NothingSkipped ==
  \A r \in Live : readers[r].got = Bytes(readers[r].lo, position[inner[r]])

(* A reader that ends without an error has given its whole range, so the   *)
(* driver does not take a broken upload for a complete one (the error      *)
(* cases of InputStream.Read).                                             *)
WholeAtEOF ==
  \A r \in DOMAIN readers :
    readers[r].state = "EOF" => readers[r].got = Bytes(readers[r].lo, readers[r].hi)

(* The handles the component owns are those of the readers it has not      *)
(* closed or reset, one each: a failed Read, a Peek or a reset chunk       *)
(* leaves no resource behind, and nobody's handle is given to another      *)
(* (InputStream and UploadRequest).                                        *)
OwnedExactly ==
  /\ {h \in TableSlots : table[h] # "free"} = {inner[r] : r \in Live}
  /\ \A r, q \in Live : inner[r] = inner[q] => r = q

(* What the driver holds is not overwritten by a later answer of the host: *)
(* GetHash frees the list it has cloned, Read the bytes it has copied, and *)
(* neither frees what the result still points to.                          *)
HeldIntact == \A item \in held : content[item[1]] = item[2]

Promised == INSTANCE ContentReaders WITH next <- nextAt

(* Handles that are used again, blocks, errors and the configuration do    *)
(* not show: every reader gives its own range in order, ends only when it  *)
(* is through, and gives nothing after it has failed or was given up; the  *)
(* chunks leave no gap (UploadRequest and InputStream).                    *)
ReadsAsPromised == Promised!Spec
==============================================================================
