----------------------------- MODULE MemPoolInv -----------------------------
(***************************************************************************)
(* The inductive invariant of MemPool for correct callers: nobody frees a  *)
(* pointer twice (StaleFreers is empty) and only one thread allocates, any *)
(* number of threads may free.  This is the regime the wasm component runs *)
(* in.  Most of the invariant speaks about single blocks and successors;   *)
(* Chains gives every stack as a sequence, of which no more is needed than *)
(* that it can be extended and shortened at its top.                       *)
(***************************************************************************)
EXTENDS MemPool

(* Header, alignment and rounding can be added to the request without      *)
(* wrapping around.                                                        *)
Padded(size, align) == size + FallbackAlign(align) + HeaderSize + 7 < 2^WordBits

(* Callers that keep the rules, and requests that leave room for padding.  *)
CorrectCallers ==
  /\ StaleFreers = {}
  /\ \A t, u \in Allocators : t = u
  /\ \A r \in Requests : Padded(r.size, r.align)

(* Where a call can be, by what the caller asked for.                      *)
CallShape(t) ==
  LET f == frame[t]
  IN  /\ pc[t] = "idle" => f = NoFrame
      /\ f.kind # "stale"
      /\ f.kind = "free" => pc[t] \in Freeing \cup {"idle"}
      /\ f.kind # "free" => t \in Allocators
      /\ f.kind = "malloc" => pc[t] \in Popping \cup {"fallback"}
      /\ f.kind = "release" => pc[t] \in Freeing \cup {"fallback"} /\ f.size = 0
      /\ f.kind = "release" /\ pc[t] = "fallback" => f.align > HeaderSize
      /\ f.kind = "move" => f.size > 0
      /\ pc[t] \in {"inspect", "copy"} => f.kind = "move"
      /\ pc[t] \in Popping => ClassIndex(f.size) \in Classes /\ f.align <= HeaderSize
      /\ f.kind # "free" => Padded(f.size, f.align)

(* A block that is live, held or inside a call, says so in its header.     *)
LiveHeader(b) ==
  magic[b] = IF classIdx[b] = Unpooled THEN magicUnpooled ELSE magicPooled

CallHeaders(t) ==
  /\ \A b \in MovedFrom(t) \cup MovedTo(t) : LiveHeader(b)
  /\ pc[t] \in {"free_load", "free_cas"} => LiveHeader(frame[t].node)
  /\ pc[t] = "free_cas" => frame[t].seen = magic[frame[t].node]
  /\ pc[t] \in {"push_load", "push_store", "push_cas"} => classIdx[frame[t].node] \in Classes
  /\ pc[t] \in {"pop_clear", "pop_magic"} => classIdx[frame[t].head] = ClassIndex(frame[t].size)

(* What the popping thread has read is still true: nobody else takes a     *)
(* block off a stack, and pushes leave the blocks below them alone.        *)
PopReads(t) ==
  pc[t] \in {"pop_next", "pop_cas"} =>
    /\ frame[t].head \in Listed
    /\ classIdx[frame[t].head] = ClassIndex(frame[t].size)
    /\ pc[t] = "pop_cas" => frame[t].next = word[frame[t].head]

PushLinked(t) == pc[t] = "push_cas" => word[frame[t].node] = frame[t].head

CallMemory(t) ==
  /\ \A b \in MovedFrom(t) : frame[t].old <= cap[b].size
  /\ \A b \in MovedTo(t) : frame[t].size <= cap[b].size /\ frame[t].align <= cap[b].align

(* The blocks of one call are different blocks.                            *)
DistinctParts(t) ==
  /\ Popped(t) \cap MovedFrom(t) = {}
  /\ MovedTo(t) \cap (MovedFrom(t) \cup Dying(t)) = {}

CallInv(t) ==
  /\ Own(t) \subseteq Blocks /\ DistinctParts(t)
  /\ CallShape(t) /\ CallHeaders(t) /\ PopReads(t) /\ PushLinked(t) /\ CallMemory(t)

(* Successors stay on the stack of their class, no two blocks share one,   *)
(* and a top is nobody's successor.                                        *)
Links ==
  /\ \A b \in Listed :
       /\ word[b] \in Listed \cup {NULL}
       /\ word[b] # NULL => classIdx[word[b]] = classIdx[b]
  /\ \A c \in Classes : freeLists[c] # NULL => classIdx[freeLists[c]] = c
  /\ \A a, b \in Listed : word[a] = word[b] /\ word[a] # NULL => a = b
  /\ \A b \in Listed, c \in Classes : freeLists[c] # NULL => word[b] # freeLists[c]

(* s is the stack of class c from its top to its end: no block twice, each *)
(* linked to the next.                                                     *)
IsStack(c, n, s) ==
  /\ {s[i] : i \in 1 .. n} = {b \in Listed : classIdx[b] = c}
  /\ \A i, j \in 1 .. n : s[i] = s[j] => i = j
  /\ freeLists[c] = IF n = 0 THEN NULL ELSE s[1]
  /\ \A i \in 1 .. n : word[s[i]] = IF i = n THEN NULL ELSE s[i + 1]

Chains ==
  \A c \in Classes : \E n \in 0 .. Cardinality(Blocks) :
    \E s \in [1 .. n -> Blocks] : IsStack(c, n, s)

(* The memory behind a pooled block is that of its class, and the memory   *)
(* of an unpooled one has room for its padding.                            *)
Memory ==
  \A b \in Blocks \ fresh :
    /\ classIdx[b] \in Classes =>
         cap[b].size = UsableSize(classIdx[b]) /\ cap[b].align = HeaderSize
    /\ cap[b].align >= HeaderSize
    /\ classIdx[b] = Unpooled => Padded(cap[b].size, cap[b].align)

(* Written payloads belong to a holder or to a move in progress, which has *)
(* something to copy or has copied it.                                     *)
HasParty(b) ==
  \/ b \in held /\ want[b].size > 0
  \/ \E t \in Threads : \/ b \in MovedFrom(t) /\ frame[t].old > 0
                        \/ b \in MovedTo(t) /\ pc[t] # "copy"

IInv ==
  /\ TypeOK /\ SingleOwner
  /\ \A t \in Threads : CallInv(t)
  /\ \A b \in held : LiveHeader(b)
  /\ Links /\ Chains /\ Memory /\ Fits
  /\ PayloadIntact /\ \A b \in stored : HasParty(b)

-----------------------------------------------------------------------------
(* The allocator as its callers see it: the blocks they hold with what is  *)
(* in them, and the calls in progress.  A call that moves a block carries  *)
(* its data, in the old block until the copy and in the new one after it.  *)
Heap == [b \in held |-> [size |-> want[b].size, align |-> want[b].align, data |-> word[b]]]

Carried(t) ==
  IF frame[t].kind = "move" /\ frame[t].old > 0
  THEN {word[IF pc[t] \in Freeing THEN frame[t].newPtr ELSE frame[t].ptr]}
  ELSE Ref \cup {Data}

YieldsBlock(f) == f.kind \in {"malloc", "move"} \/ (f.kind = "release" /\ f.align > HeaderSize)

CallOf(t) ==
  LET f == frame[t]
  IN  IF pc[t] # "idle" /\ YieldsBlock(f)
      THEN [yields |-> "block", size |-> f.size, align |-> f.align, data |-> Carried(t)]
      ELSE [yields |-> IF pc[t] = "idle" THEN "idle" ELSE "nothing",
            size |-> 0, align |-> 0, data |-> {}]

Calls == [t \in Threads |-> CallOf(t)]

Promise == INSTANCE Allocator WITH
  ZeroAligns <- {a \in Nat : a <= HeaderSize},
  Words <- Ref \cup {Data}, heap <- Heap, calls <- Calls

(* Every call takes effect in one step, as the promise has it: no block is *)
(* handed out while another caller holds it, a payload changes only under  *)
(* its holder's hands, and cabi_realloc returns the data it was given.     *)
KeepsPromise == Promise!Spec
==============================================================================
