------------------------------- MODULE MemPool -------------------------------
(***************************************************************************)
(* The pooled allocator behind cabi_realloc and cabi_free                  *)
(* (alloc_mempool.go, build tag mempool): one lock-free stack of free      *)
(* blocks per size class, a header with a magic number in front of every   *)
(* payload, and blocks that bypass the pool.                               *)
(*                                                                         *)
(* One action is one access to memory other threads can reach; what a      *)
(* call does with memory only it can reach is part of the neighbouring     *)
(* action.  The first word of a payload is memoryBlock.next while the      *)
(* block is free and the holder's data while it is held.                   *)
(***************************************************************************)
EXTENDS SizeClass, FiniteSets

CONSTANTS
  Threads,      (* callers that may be inside the allocator at once          *)
  Allocators,   (* those of them that call cabi_realloc; the rest only free  *)
  StaleFreers,  (* those of them that may free a pointer a second time       *)
  Blocks,       (* blocks the Go heap can provide (bound)                    *)
  Requests,     (* sizes and alignments requested                            *)
  NULL,         (* the nil pointer                                           *)
  Data          (* what a holder writes into its payload                     *)

ASSUME MemPoolAssumption ==
  /\ Allocators \subseteq Threads /\ StaleFreers \subseteq Threads
  /\ NULL \notin Blocks /\ Data \notin Blocks /\ NULL # Data
  /\ Requests \subseteq [size : Nat, align : Nat]
  /\ IsFiniteSet(Blocks)

VARIABLES
  freeLists,  (* class -> block on top of its stack                      *)
  word,       (* block -> first word of its payload                      *)
  magic,      (* block -> blockHeader.magic                              *)
  classIdx,   (* block -> blockHeader.classIdx                           *)
  cap,        (* block -> bytes and alignment its memory really provides *)
  fresh,      (* blocks the Go heap has not handed out                   *)
  held,       (* blocks a caller holds                                   *)
  want,       (* block -> size and alignment its holder asked for        *)
  stored,     (* held blocks whose holder has written data               *)
  pc,         (* thread -> where it is in the allocator, or "idle"       *)
  frame       (* thread -> arguments and locals of the call it serves    *)

heapVars == <<freeLists, word, magic, classIdx, cap, fresh>>
callerVars == <<held, want, stored>>
vars == <<heapVars, callerVars, pc, frame>>

magicPooled == "BLOK"
magicUnpooled == "NONE"
magicFree == "0"
Magics == {magicPooled, magicUnpooled, magicFree}

(* kind: what the caller asked for; ptr, old, size, align: the arguments   *)
(* of cabi_realloc or cabi_free; head, next: locals of popBlock and         *)
(* pushBlock; node: the block being freed or popped; newPtr and seen        *)
(* (currentMagic): locals of cabi_realloc and cabi_free.                    *)
Kinds == {"malloc", "move", "release", "free", "stale"}
NoFrame == [kind |-> "free", ptr |-> NULL, old |-> 0, size |-> 0, align |-> 0,
            head |-> NULL, next |-> NULL, node |-> NULL, newPtr |-> NULL,
            seen |-> magicFree]
NoShape == [size |-> 0, align |-> 0]

Popping == {"pop_load", "pop_next", "pop_cas", "grow", "pop_clear", "pop_magic"}
Freeing == {"free_load", "free_cas", "push_load", "push_store", "push_cas"}
Steps == {"idle", "inspect", "fallback", "copy"} \cup Popping \cup Freeing

Goto(t, step) == pc' = [pc EXCEPT ![t] = step]

-----------------------------------------------------------------------------
Init ==
  /\ freeLists = [c \in Classes |-> NULL]
  /\ word = [b \in Blocks |-> NULL]
  /\ magic = [b \in Blocks |-> magicFree]
  /\ classIdx = [b \in Blocks |-> Unpooled]
  /\ cap = [b \in Blocks |-> NoShape]
  /\ fresh = Blocks
  /\ held = {} /\ stored = {}
  /\ want = [b \in Blocks |-> NoShape]
  /\ pc = [t \in Threads |-> "idle"]
  /\ frame = [t \in Threads |-> NoFrame]

(* Where poolAlloc starts: the fallback for a size above the largest class *)
(* or an alignment above the header's, the stack of its class otherwise.   *)
PoolAllocEntry(size, align) ==
  IF ClassIndex(size) = Unpooled \/ align > HeaderSize THEN "fallback" ELSE "pop_load"

(* Bound: the heap of the model is finite.  A call that may allocate       *)
(* starts only while every allocation in progress could get a new block,   *)
(* or alone, when the stack of its class can serve it.                     *)
AllIdle == \A t \in Threads : pc[t] = "idle"
Allocating == {t \in Threads : pc[t] # "idle" /\ frame[t].kind \notin {"free", "stale"}}

HeapHasRoom(size, align) ==
  \/ Cardinality(Allocating) < Cardinality(fresh)
  \/ /\ AllIdle
     /\ PoolAllocEntry(size, align) = "pop_load"
     /\ freeLists[ClassIndex(size)] # NULL

(* The caller hands pointer b back to the allocator. *)
GiveUp(b) ==
  /\ held' = held \ {b} /\ stored' = stored \ {b}
  /\ want' = [want EXCEPT ![b] = NoShape]

(* The call of thread t returns; its locals are gone. *)
ReturnFrom(t) == Goto(t, "idle") /\ frame' = [frame EXCEPT ![t] = NoFrame]

(* It returns block b to its caller. *)
HandOut(t, b) ==
  /\ held' = held \cup {b}
  /\ want' = [want EXCEPT ![b] = [size |-> frame[t].size, align |-> frame[t].align]]
  /\ ReturnFrom(t)

(* It goes on inside the allocator. *)
Continue(t, step) == Goto(t, step) /\ UNCHANGED <<held, want, frame>>

-----------------------------------------------------------------------------
(* The blocks only thread t may touch: the one it popped or is freeing,    *)
(* the one it moves from, and the one it moves to.                         *)
Popped(t) == IF pc[t] \in {"pop_clear", "pop_magic"} THEN {frame[t].head} ELSE {}

Dying(t) ==
  IF \/ pc[t] \in {"free_load", "free_cas"} /\ frame[t].kind # "stale"
     \/ pc[t] \in {"push_load", "push_store", "push_cas"}
  THEN {frame[t].node} ELSE {}

MovedFrom(t) ==
  IF frame[t].kind = "move" /\ pc[t] \in Popping \cup {"inspect", "fallback", "copy"}
  THEN {frame[t].ptr} ELSE {}

MovedTo(t) ==
  IF frame[t].kind = "move" /\ pc[t] \in Freeing \cup {"copy"}
  THEN {frame[t].newPtr} ELSE {}

Own(t) == Popped(t) \cup Dying(t) \cup MovedFrom(t) \cup MovedTo(t)

-----------------------------------------------------------------------------
(* Calls. *)

(* cabi_realloc(nil, _, align, size), the sentinel case aside: a request   *)
(* for zero bytes with ordinary alignment returns zeroPtr and touches      *)
(* nothing.                                                                *)
Malloc(t, r) ==
  /\ pc[t] = "idle" /\ t \in Allocators /\ HeapHasRoom(r.size, r.align)
  /\ r.size > 0 \/ r.align > HeaderSize
  /\ frame' = [frame EXCEPT ![t] =
       [NoFrame EXCEPT !.kind = "malloc", !.size = r.size, !.align = r.align]]
  /\ Goto(t, PoolAllocEntry(r.size, r.align))
  /\ UNCHANGED <<heapVars, callerVars>>

(* cabi_realloc(b, old, align, size) with size > 0.  The data in b stays   *)
(* the caller's until the call copies it.                                  *)
Realloc(t, b, r) ==
  /\ pc[t] = "idle" /\ t \in Allocators /\ HeapHasRoom(r.size, r.align)
  /\ b \in held /\ r.size > 0
  /\ held' = held \ {b} /\ want' = [want EXCEPT ![b] = NoShape]
  /\ frame' = [frame EXCEPT ![t] =
       [NoFrame EXCEPT !.kind = "move", !.ptr = b, !.old = want[b].size,
                       !.size = r.size, !.align = r.align]]
  /\ Goto(t, "inspect")
  /\ UNCHANGED <<heapVars, stored>>

(* cabi_realloc(b, _, align, 0): a free that answers with zeroPtr, or with *)
(* an empty block when the alignment is too large for the sentinel.        *)
Release(t, b, align) ==
  /\ pc[t] = "idle" /\ t \in Allocators /\ b \in held
  /\ align <= HeaderSize \/ HeapHasRoom(0, align)
  /\ GiveUp(b)
  /\ frame' = [frame EXCEPT ![t] =
       [NoFrame EXCEPT !.kind = "release", !.align = align, !.node = b]]
  /\ Goto(t, "free_load")
  /\ UNCHANGED heapVars

(* cabi_free(b) by the holder of b. *)
Free(t, b) ==
  /\ pc[t] = "idle" /\ b \in held
  /\ GiveUp(b)
  /\ frame' = [frame EXCEPT ![t] = [NoFrame EXCEPT !.node = b]]
  /\ Goto(t, "free_load")
  /\ UNCHANGED heapVars

(* cabi_free(b) a second time, while the first free is in progress or the  *)
(* block waits on its stack: the double free the magic number is there to  *)
(* catch.                                                                  *)
Dead(b) ==
  /\ b \notin held \cup fresh
  /\ \A u \in Threads : b \notin Popped(u) \cup MovedFrom(u) \cup MovedTo(u)

StaleFree(t, b) ==
  /\ pc[t] = "idle" /\ t \in StaleFreers /\ Dead(b)
  /\ frame' = [frame EXCEPT ![t] = [NoFrame EXCEPT !.kind = "stale", !.node = b]]
  /\ Goto(t, "free_load")
  /\ UNCHANGED <<heapVars, callerVars>>

(* A holder writes its payload. *)
Store(b) ==
  /\ b \in held /\ want[b].size > 0
  /\ word' = [word EXCEPT ![b] = Data]
  /\ stored' = stored \cup {b}
  /\ UNCHANGED <<freeLists, magic, classIdx, cap, fresh, held, want, pc, frame>>

-----------------------------------------------------------------------------
(* Mutant of FitsInPlace: the header's bytes count as payload.             *)
FitsInPlaceBlock(t) ==
  LET b == frame[t].ptr
  IN  /\ frame[t].align <= HeaderSize
      /\ \/ magic[b] = magicPooled /\ frame[t].size <= BlockSize(classIdx[b])
         \/ magic[b] = magicUnpooled /\ frame[t].size <= frame[t].old

(* cabi_realloc on a block: keep it when it is large and aligned enough.   *)
FitsInPlace(t) ==
  LET b == frame[t].ptr
  IN  /\ frame[t].align <= HeaderSize
      /\ \/ magic[b] = magicPooled /\ frame[t].size <= UsableSize(classIdx[b])
         \/ magic[b] = magicUnpooled /\ frame[t].size <= frame[t].old

Inspect(t) ==
  /\ pc[t] = "inspect"
  /\ IF FitsInPlace(t)
     THEN HandOut(t, frame[t].ptr)
     ELSE Continue(t, PoolAllocEntry(frame[t].size, frame[t].align))
  /\ UNCHANGED <<heapVars, stored>>

(* poolAlloc is done: cabi_realloc goes on to copy, or returns. *)
Deliver(t, b) ==
  IF frame[t].kind = "move"
  THEN /\ frame' = [frame EXCEPT ![t].newPtr = b]
       /\ Goto(t, "copy")
       /\ UNCHANGED <<held, want>>
  ELSE HandOut(t, b)

(* sysAlloc and the header a new block is given. *)
NewBlock(b, m, c, bytes, align) ==
  /\ b \in fresh
  /\ fresh' = fresh \ {b}
  /\ magic' = [magic EXCEPT ![b] = m]
  /\ classIdx' = [classIdx EXCEPT ![b] = c]
  /\ cap' = [cap EXCEPT ![b] = [size |-> bytes, align |-> align]]
  /\ word' = [word EXCEPT ![b] = NULL]
  /\ UNCHANGED freeLists

FallbackAlloc(t, b) ==
  /\ pc[t] = "fallback"
  /\ NewBlock(b, magicUnpooled, Unpooled, frame[t].size, FallbackAlign(frame[t].align))
  /\ Deliver(t, b)
  /\ UNCHANGED stored

(* The slow path of poolAlloc: the stack was empty. *)
Grow(t, b) ==
  /\ pc[t] = "grow"
  /\ LET c == ClassIndex(frame[t].size)
     IN  NewBlock(b, magicPooled, c, UsableSize(c), HeaderSize)
  /\ Deliver(t, b)
  /\ UNCHANGED stored

(* popBlock: load the top, load its successor, swing the top. *)
PopLoad(t) ==
  /\ pc[t] = "pop_load"
  /\ LET top == freeLists[ClassIndex(frame[t].size)]
     IN  /\ frame' = [frame EXCEPT ![t].head = top]
         /\ Goto(t, IF top = NULL THEN "grow" ELSE "pop_next")
  /\ UNCHANGED <<heapVars, callerVars>>

PopNext(t) ==
  /\ pc[t] = "pop_next"
  /\ frame' = [frame EXCEPT ![t].next = word[frame[t].head]]
  /\ Goto(t, "pop_cas")
  /\ UNCHANGED <<heapVars, callerVars>>

(* Mutant of PopCAS: a plain store in place of the compare-and-swap. *)
PopCASBlind(t) ==
  /\ pc[t] = "pop_cas"
  /\ freeLists' = [freeLists EXCEPT ![ClassIndex(frame[t].size)] = frame[t].next]
  /\ Goto(t, "pop_clear")
  /\ UNCHANGED <<word, magic, classIdx, cap, fresh, callerVars, frame>>

PopCAS(t) ==
  /\ pc[t] = "pop_cas"
  /\ LET c == ClassIndex(frame[t].size)
     IN  IF freeLists[c] = frame[t].head
         THEN /\ freeLists' = [freeLists EXCEPT ![c] = frame[t].next]
              /\ Goto(t, "pop_clear")
         ELSE Goto(t, "pop_load") /\ UNCHANGED freeLists
  /\ UNCHANGED <<word, magic, classIdx, cap, fresh, callerVars, frame>>

PopClear(t) ==
  /\ pc[t] = "pop_clear"
  /\ word' = [word EXCEPT ![frame[t].head] = NULL]
  /\ Goto(t, "pop_magic")
  /\ UNCHANGED <<freeLists, magic, classIdx, cap, fresh, callerVars, frame>>

(* Mutant of PopMagic: the block keeps the magic of a free one. *)
PopMagicKept(t) ==
  /\ pc[t] = "pop_magic"
  /\ Deliver(t, frame[t].head)
  /\ UNCHANGED <<freeLists, word, magic, classIdx, cap, fresh, stored>>

(* Back in poolAlloc: the block is live again. *)
PopMagic(t) ==
  /\ pc[t] = "pop_magic"
  /\ magic' = [magic EXCEPT ![frame[t].head] = magicPooled]
  /\ Deliver(t, frame[t].head)
  /\ UNCHANGED <<freeLists, word, classIdx, cap, fresh, stored>>

(* Mutant of Copy: the new block is returned without the old data. *)
CopyNothing(t) ==
  /\ pc[t] = "copy"
  /\ LET old == frame[t].ptr
         new == frame[t].newPtr
     IN  /\ stored' = IF old \in stored THEN (stored \ {old}) \cup {new} ELSE stored
         /\ frame' = [frame EXCEPT ![t].node = old]
  /\ Goto(t, "free_load")
  /\ UNCHANGED <<freeLists, word, magic, classIdx, cap, fresh, held, want>>

(* The copy of cabi_realloc, then on to cabi_free of the old block. *)
Copy(t) ==
  /\ pc[t] = "copy"
  /\ LET old == frame[t].ptr
         new == frame[t].newPtr
     IN  /\ word' = IF frame[t].old > 0 THEN [word EXCEPT ![new] = word[old]] ELSE word
         /\ stored' = IF old \in stored THEN (stored \ {old}) \cup {new} ELSE stored
         /\ frame' = [frame EXCEPT ![t].node = old]
  /\ Goto(t, "free_load")
  /\ UNCHANGED <<freeLists, magic, classIdx, cap, fresh, held, want>>

(* cabi_free is done: cabi_realloc returns newPtr or the zero-size answer. *)
FreeDone(t) ==
  CASE frame[t].kind = "move" -> HandOut(t, frame[t].newPtr)
    [] frame[t].kind = "release" /\ frame[t].align > HeaderSize -> Continue(t, "fallback")
    [] OTHER -> ReturnFrom(t) /\ UNCHANGED <<held, want>>

(* cabi_free: read the magic, then claim the block by resetting it. *)
FreeLoad(t) ==
  /\ pc[t] = "free_load"
  /\ LET m == magic[frame[t].node]
     IN  IF m = magicFree
         THEN FreeDone(t)
         ELSE /\ frame' = [frame EXCEPT ![t].seen = m]
              /\ Goto(t, "free_cas") /\ UNCHANGED <<held, want>>
  /\ UNCHANGED <<heapVars, stored>>

(* Mutant of FreeCAS: the magic of the freed block is not reset. *)
FreeCASNoReset(t) ==
  /\ pc[t] = "free_cas"
  /\ IF frame[t].seen = magicPooled /\ classIdx[frame[t].node] \in Classes
     THEN Continue(t, "push_load")
     ELSE FreeDone(t)
  /\ UNCHANGED <<heapVars, stored>>

FreeCAS(t) ==
  /\ pc[t] = "free_cas"
  /\ LET b == frame[t].node
         won == magic[b] = frame[t].seen
     IN  /\ magic' = IF won THEN [magic EXCEPT ![b] = magicFree] ELSE magic
         /\ IF won /\ frame[t].seen = magicPooled /\ classIdx[b] \in Classes
            THEN Continue(t, "push_load")
            ELSE FreeDone(t)
  /\ UNCHANGED <<freeLists, word, classIdx, cap, fresh, stored>>

(* pushBlock: load the top, link the block to it, swing the top. *)
PushLoad(t) ==
  /\ pc[t] = "push_load"
  /\ frame' = [frame EXCEPT ![t].head = freeLists[classIdx[frame[t].node]]]
  /\ Goto(t, "push_store")
  /\ UNCHANGED <<heapVars, callerVars>>

(* Mutant of PushStore: the link to the old top is not written. *)
PushStoreSkipped(t) ==
  /\ pc[t] = "push_store"
  /\ Goto(t, "push_cas")
  /\ UNCHANGED <<heapVars, callerVars, frame>>

PushStore(t) ==
  /\ pc[t] = "push_store"
  /\ word' = [word EXCEPT ![frame[t].node] = frame[t].head]
  /\ Goto(t, "push_cas")
  /\ UNCHANGED <<freeLists, magic, classIdx, cap, fresh, callerVars, frame>>

(* Mutant of PushCAS: a plain store in place of the compare-and-swap. *)
PushCASBlind(t) ==
  /\ pc[t] = "push_cas"
  /\ freeLists' = [freeLists EXCEPT ![classIdx[frame[t].node]] = frame[t].node]
  /\ FreeDone(t)
  /\ UNCHANGED <<word, magic, classIdx, cap, fresh, stored>>

PushCAS(t) ==
  /\ pc[t] = "push_cas"
  /\ LET c == classIdx[frame[t].node]
     IN  IF freeLists[c] = frame[t].head
         THEN freeLists' = [freeLists EXCEPT ![c] = frame[t].node] /\ FreeDone(t)
         ELSE Continue(t, "push_load") /\ UNCHANGED freeLists
  /\ UNCHANGED <<word, magic, classIdx, cap, fresh, stored>>

-----------------------------------------------------------------------------
(* The Go garbage collector takes back an unpooled block nobody holds.     *)
Collect(b) ==
  /\ b \notin fresh \cup held /\ classIdx[b] = Unpooled
  /\ \A t \in Threads : b \notin {frame[t].ptr, frame[t].node, frame[t].newPtr}
  /\ fresh' = fresh \cup {b}
  /\ word' = [word EXCEPT ![b] = NULL]
  /\ magic' = [magic EXCEPT ![b] = magicFree]
  /\ cap' = [cap EXCEPT ![b] = NoShape]
  /\ UNCHANGED <<freeLists, classIdx, callerVars, pc, frame>>

Step(t) ==
  \/ Inspect(t)
  \/ PopLoad(t) \/ PopNext(t) \/ PopCAS(t) \/ PopClear(t) \/ PopMagic(t)
  \/ Copy(t)
  \/ FreeLoad(t) \/ FreeCAS(t)
  \/ PushLoad(t) \/ PushStore(t) \/ PushCAS(t)
  \/ \E b \in Blocks : FallbackAlloc(t, b) \/ Grow(t, b)

Call(t) ==
  \/ \E r \in Requests : Malloc(t, r)
  \/ \E b \in Blocks :
       \/ \E r \in Requests : Realloc(t, b, r) \/ Release(t, b, r.align)
       \/ Free(t, b)
       \/ StaleFree(t, b)

Next ==
  \/ \E t \in Threads : Call(t) \/ Step(t)
  \/ \E b \in Blocks : Store(b) \/ Collect(b)

Spec == Init /\ [][Next]_vars

-----------------------------------------------------------------------------
(* Types of the variables; a stack top is a block, never a holder's data.  *)
Shape == [size : Nat, align : Nat]
Ref == Blocks \cup {NULL}

Frames == [kind : Kinds, ptr : Ref, old : Nat, size : Nat, align : Nat,
           head : Ref, next : Ref, node : Ref, newPtr : Ref, seen : Magics]

TypeOK ==
  /\ freeLists \in [Classes -> Ref]
  /\ word \in [Blocks -> Ref \cup {Data}]
  /\ magic \in [Blocks -> Magics]
  /\ classIdx \in [Blocks -> Classes \cup {Unpooled}]
  /\ cap \in [Blocks -> Shape]
  /\ fresh \subseteq Blocks /\ held \subseteq Blocks /\ stored \subseteq Blocks
  /\ want \in [Blocks -> Shape]
  /\ pc \in [Threads -> Steps]
  /\ frame \in [Threads -> Frames]

(* The blocks that wait to be reused: pooled, and nobody's. *)
Listed == {b \in Blocks : /\ classIdx[b] \in Classes /\ b \notin held \cup fresh
                          /\ \A t \in Threads : b \notin Own(t)}

(* A block belongs to one party only: to the Go heap, to the caller that   *)
(* holds it, or to one call inside the allocator; and the top of a stack,  *)
(* the next block to be handed out, is nobody's.  So no block is ever      *)
(* handed out twice (popBlock, pushBlock, cabi_free).                      *)
SingleOwner ==
  /\ held \cap fresh = {}
  /\ \A t \in Threads :
       /\ Own(t) \cap (held \cup fresh) = {}
       /\ \A u \in Threads \ {t} : Own(t) \cap Own(u) = {}
  /\ \A c \in Classes : freeLists[c] \in Listed \cup {NULL}

(* The n-th block of the stack of class c, NULL beyond its end. *)
Nth(c, n) ==
  LET at[i \in 0 .. n] == IF i = 0 THEN freeLists[c]
                          ELSE IF at[i - 1] \in Blocks THEN word[at[i - 1]] ELSE NULL
  IN  at[n]

Stack(c) == {Nth(c, n) : n \in 0 .. Cardinality(Blocks)} \ {NULL}

(* The stack of a class links exactly the pooled blocks of that class that *)
(* are nobody's, and it ends: no block is lost to the pool, none sits on   *)
(* the stack of another size, and no cycle makes a pop return a block      *)
(* twice (pushBlock and popBlock against concurrent frees).                *)
StacksExact ==
  \A c \in Classes : /\ Stack(c) = {b \in Listed : classIdx[b] = c}
                     /\ Nth(c, Cardinality(Blocks)) = NULL

(* What a caller gets is as large and as aligned as it asked for, also     *)
(* when cabi_realloc keeps the block in place.                             *)
Fits == \A b \in held : want[b].size <= cap[b].size /\ want[b].align <= cap[b].align

(* Wherever in the address space the Go heap puts the memory of an         *)
(* unpooled block, the payload handed out is aligned, and lies with its    *)
(* header inside that memory (fallbackAlloc).                              *)
FallbackInside ==
  \A b \in held : classIdx[b] = Unpooled =>
    \A base \in {HeaderSize * k : k \in 1 .. cap[b].align} :
      LET payload == FallbackPayload(base, cap[b].align)
          end == base + FallbackBytes(cap[b].size, cap[b].align)
      IN  end <= 2^WordBits => /\ payload % cap[b].align = 0
                               /\ base + HeaderSize <= payload
                               /\ payload + cap[b].size <= end

(* Data written to a payload stays until its holder gives the block up,    *)
(* and cabi_realloc carries it to the new block: no link of a stack is     *)
(* ever written over it.                                                   *)
PayloadIntact == \A b \in stored : word[b] = Data
==============================================================================
