---------------------------- MODULE MemPoolProofs ----------------------------
(***************************************************************************)
(* Theorems about MemPool, for every number of threads, blocks, classes    *)
(* and request sizes, and one allocating thread.                           *)
(***************************************************************************)
EXTENDS MemPoolSteps

(* It holds initially: nothing is allocated and nobody is in a call.      *)
LEMMA InvInit ==
  ASSUME Init PROVE IInv
<1>1. TypeOK
  BY NoFrameType DEF Init, TypeOK, Ref, Magics, Shape, NoShape, Steps
<1>2. \A t \in Threads : pc[t] = "idle" /\ frame[t] = NoFrame
  BY DEF Init
<1>3. \A t \in Threads : /\ Popped(t) = {} /\ Dying(t) = {} /\ MovedFrom(t) = {}
                         /\ MovedTo(t) = {} /\ Own(t) = {}
  BY <1>2, IdleParts
<1>4. Listed = {}
  BY UnpooledIsNoClass DEF Init, Listed
<1>5. SingleOwner
  BY <1>3 DEF Init, SingleOwner
<1>6. ASSUME NEW t \in Threads PROVE CallInv(t)
  <2>1. CallShape(t)
    BY <1>2, SizesAssumption DEF CallShape, NoFrame, Freeing, Popping
  <2> QED
    BY <1>2, <1>3, <2>1
       DEF CallInv, CallHeaders, PopReads, PushLinked, CallMemory, DistinctParts
<1>7. Links /\ Memory /\ Fits /\ PayloadIntact
  BY <1>4 DEF Init, Links, Memory, Fits, PayloadIntact
<1>8. Chains
  <2>1. ASSUME NEW c \in Classes, NEW s PROVE IsStack(c, 0, s)
    <3>1. 1 .. 0 = {}
      OBVIOUS
    <3> QED
      BY <1>4, <2>1, <3>1 DEF Init, IsStack
  <2>2. [i \in 1 .. 0 |-> NULL] \in [1 .. 0 -> Blocks] /\ 0 \in 0 .. Cardinality(Blocks)
    BY FS_CardinalityType, MemPoolAssumption DEF MemPoolAssumption
  <2> QED
    BY <2>1, <2>2 DEF Chains
<1> QED
  BY <1>1, <1>5, <1>6, <1>7, <1>8 DEF Init, IInv

(* Every step of the allocator and its callers keeps the invariant.        *)
LEMMA InvNext ==
  ASSUME IInv, CorrectCallers, [Next]_vars
  PROVE  IInv'
<1>1. CASE UNCHANGED vars
  <2>1. UNCHANGED <<freeLists, word, magic, classIdx, cap, fresh, held, want, stored, pc, frame>>
    BY <1>1 DEF vars, heapVars, callerVars
  <2>2. \A u : /\ Popped(u)' = Popped(u) /\ Dying(u)' = Dying(u) /\ Own(u)' = Own(u)
               /\ MovedFrom(u)' = MovedFrom(u) /\ MovedTo(u)' = MovedTo(u)
    BY <2>1, SameParts
  <2>3. Listed' = Listed
    BY <2>1, <2>2 DEF Listed
  <2>4. TypeOK' /\ SingleOwner'
    BY <2>1, <2>2, <2>3 DEF IInv, TypeOK, SingleOwner
  <2>5. ASSUME NEW u \in Threads PROVE CallInv(u)'
    <3>1. pc[u] \in {"pop_next", "pop_cas"} => frame[u].head \in Listed'
      BY <2>3, InvOf DEF PopReads
    <3> DEFINE W == {}
    <3>2. W \cap (Listed \cup Own(u)) = {}
      OBVIOUS
    <3> QED
      BY <2>1, <3>1, <3>2, OthersKeep
  <2>6. Links' /\ Memory' /\ Fits' /\ PayloadIntact' /\ \A b \in held' : LiveHeader(b)'
    BY <2>1, <2>3 DEF IInv, Links, Memory, Fits, PayloadIntact, LiveHeader
  <2>7. \A b \in stored' : HasParty(b)'
    BY <2>1, <2>2 DEF IInv, HasParty
  <2>8. Chains'
    BY <2>1, <2>3, StacksKept DEF IInv
  <2> QED
    BY <2>4, <2>5, <2>6, <2>7, <2>8 DEF IInv
<1>2. ASSUME NEW t \in Threads, Call(t) PROVE IInv'
  <2>1. CASE \E r \in Requests : Malloc(t, r)
    BY <2>1, MallocStep
  <2>2. CASE \E b \in Blocks, r \in Requests : Realloc(t, b, r)
    BY <2>2, ReallocStep
  <2>3. CASE \E b \in Blocks, r \in Requests : Release(t, b, r.align)
    BY <2>3, ReleaseStep
  <2>4. CASE \E b \in Blocks : Free(t, b)
    BY <2>4, FreeStep
  <2>5. ~ \E b \in Blocks : StaleFree(t, b)
    BY DEF CorrectCallers, StaleFree
  <2> QED
    BY <1>2, <2>1, <2>2, <2>3, <2>4, <2>5 DEF Call
<1>3. ASSUME NEW t \in Threads, Step(t) PROVE IInv'
  <2>1. CASE Inspect(t)
    BY <2>1, InspectMoveStep, InspectKeepStep
  <2>2. CASE PopLoad(t)
    BY <2>2, PopLoadStep
  <2>3. CASE PopNext(t)
    BY <2>3, PopNextStep
  <2>4. CASE PopCAS(t)
    BY <2>4, PopStep, PopRetryStep
  <2>5. CASE PopClear(t)
    BY <2>5, PopClearStep
  <2>6. CASE PopMagic(t)
    BY <2>6, PopMagicStep
  <2>7. CASE Copy(t)
    BY <2>7, CopyStep
  <2>8. CASE FreeLoad(t)
    BY <2>8, FreeLoadStep
  <2>9. CASE FreeCAS(t)
    BY <2>9, FreeCASStep
  <2>10. CASE PushLoad(t)
    BY <2>10, PushLoadStep
  <2>11. CASE PushStore(t)
    BY <2>11, PushStoreStep
  <2>12. CASE PushCAS(t)
    BY <2>12, PushStep, PushRetryStep
  <2>13. CASE \E b \in Blocks : FallbackAlloc(t, b)
    BY <2>13, FallbackStep
  <2>14. CASE \E b \in Blocks : Grow(t, b)
    BY <2>14, GrowStep
  <2> QED
    BY <1>3, <2>1, <2>2, <2>3, <2>4, <2>5, <2>6, <2>7, <2>8, <2>9, <2>10, <2>11, <2>12,
       <2>13, <2>14 DEF Step
<1>4. ASSUME NEW b \in Blocks, Store(b) \/ Collect(b) PROVE IInv'
  BY <1>4, StoreStep, CollectStep
<1> QED
  BY <1>1, <1>2, <1>3, <1>4 DEF Next

(* With correct callers the invariant holds in every reachable state.      *)
THEOREM Invariant ==
  ASSUME CorrectCallers
  PROVE  Spec => []IInv
<1>1. Init => IInv
  BY InvInit
<1>2. IInv /\ [Next]_vars => IInv'
  BY InvNext
<1> QED
  BY <1>1, <1>2, PTL DEF Spec

(* The walk down a stack that s lists: its blocks in order, then NULL. *)
LEMMA Walk ==
  ASSUME NEW c \in Classes, NEW len \in Nat, NEW s \in [1 .. len -> Blocks], IsStack(c, len, s),
         NEW n \in Nat
  PROVE  Nth(c, n) = IF n < len THEN s[n + 1] ELSE NULL
<1> DEFINE Down(g) == [i \in 0 .. n |->
             IF i = 0 THEN freeLists[c] ELSE IF g[i - 1] \in Blocks THEN word[g[i - 1]] ELSE NULL]
           f == [i \in 0 .. n |-> IF i < len THEN s[i + 1] ELSE NULL]
           at == CHOOSE g : g = Down(g)
<1>1. Nth(c, n) = at[n]
  BY DEF Nth
<1>2. NULL \notin Blocks
  BY MemPoolAssumption DEF MemPoolAssumption
<1>3. f = Down(f)
  <2> SUFFICES ASSUME NEW i \in 0 .. n PROVE f[i] = Down(f)[i]
    OBVIOUS
  <2>1. CASE i = 0
    BY <2>1 DEF IsStack
  <2>2. CASE i # 0
    <3>1. i - 1 \in 0 .. n
      BY <2>2
    <3>2. CASE i - 1 < len
      <4>1. i \in 1 .. len /\ f[i - 1] = s[i] /\ s[i] \in Blocks
        BY <2>2, <3>1, <3>2
      <4>2. word[s[i]] = IF i = len THEN NULL ELSE s[i + 1]
        BY <4>1 DEF IsStack
      <4> QED
        BY <2>2, <4>1, <4>2
    <3>3. CASE ~ (i - 1 < len)
      BY <1>2, <2>2, <3>1, <3>3
    <3> QED
      BY <3>2, <3>3
  <2> QED
    BY <2>1, <2>2
<1>4. at = Down(at)
  BY <1>3
<1> HIDE DEF at
<1>5. \A i \in 0 .. n : at[i] = f[i]
  <2> SUFFICES ASSUME NEW k \in 0 .. n, at[k] # f[k] PROVE FALSE
    OBVIOUS
  <2> DEFINE T == {i \in 0 .. n : at[i] # f[i]}
  <2>1. T \in SUBSET Nat /\ T # {}
    OBVIOUS
  <2>2. PICK i \in T : \A m \in T : i <= m
    BY <2>1, LeastElement
  <2>3. i # 0
    BY <1>3, <1>4
  <2>4. i - 1 \in 0 .. n /\ at[i - 1] = f[i - 1]
    BY <2>2, <2>3
  <2>5. Down(at)[i] = Down(f)[i]
    BY <2>4
  <2> QED
    BY <1>3, <1>4, <2>5
<1> QED
  BY <1>1, <1>5

LEMMA ChainsMakeStacksExact == ASSUME Chains PROVE StacksExact
<1> DEFINE K == Cardinality(Blocks)
<1>1. K \in Nat
  BY MemPoolAssumption, FS_CardinalityType DEF MemPoolAssumption
<1>2. NULL \notin Blocks
  BY MemPoolAssumption DEF MemPoolAssumption
<1> SUFFICES ASSUME NEW c \in Classes
             PROVE  /\ Stack(c) = {b \in Listed : classIdx[b] = c}
                    /\ Nth(c, K) = NULL
  BY DEF StacksExact
<1>3. PICK n \in 0 .. K : \E s \in [1 .. n -> Blocks] : IsStack(c, n, s)
  BY DEF Chains
<1>4. PICK s \in [1 .. n -> Blocks] : IsStack(c, n, s)
  BY <1>3
<1> HIDE DEF K
<1>5. n \in Nat /\ n <= K
  BY <1>1
<1>6. \A i \in Nat : Nth(c, i) = IF i < n THEN s[i + 1] ELSE NULL
  BY <1>4, <1>5, Walk
<1>7. {Nth(c, i) : i \in 0 .. K} \ {NULL} = {s[i] : i \in 1 .. n}
  <2>1. ASSUME NEW i \in 0 .. K PROVE Nth(c, i) \in {NULL} \cup {s[j] : j \in 1 .. n}
    <3>1. i < n => i + 1 \in 1 .. n
      BY <1>1, <1>5
    <3> QED
      BY <1>1, <1>6, <3>1
  <2>2. ASSUME NEW j \in 1 .. n
        PROVE  j - 1 \in 0 .. K /\ s[j] = Nth(c, j - 1) /\ s[j] # NULL
    <3>1. j - 1 \in Nat /\ j - 1 < n /\ (j - 1) + 1 = j
      BY <1>5
    <3> QED
      BY <1>1, <1>2, <1>5, <1>6, <3>1
  <2> QED
    BY <2>1, <2>2
<1>8. Stack(c) = {b \in Listed : classIdx[b] = c}
  BY <1>4, <1>7 DEF Stack, IsStack, K
<1>9. Nth(c, K) = NULL
  BY <1>1, <1>5, <1>6
<1> QED
  BY <1>8, <1>9

(* The stacks link exactly the free blocks of their class, each once, and  *)
(* end: whatever the interleaving of frees with the allocating thread, no  *)
(* block is lost to the pool and none is on a stack twice.                 *)
THEOREM StacksAreExact ==
  ASSUME CorrectCallers
  PROVE  Spec => []StacksExact
<1>1. IInv => StacksExact
  BY ChainsMakeStacksExact DEF IInv
<1> QED
  BY <1>1, Invariant, PTL

(* Every variable keeps its type, whatever the interleaving.               *)
THEOREM TypesHold ==
  ASSUME CorrectCallers
  PROVE  Spec => []TypeOK
<1>1. IInv => TypeOK
  BY DEF IInv
<1> QED
  BY <1>1, Invariant, PTL

(* No block ever has two owners: popBlock, pushBlock and cabi_free never   *)
(* hand one out twice, for any number of freeing threads and blocks.       *)
THEOREM NoBlockHasTwoOwners ==
  ASSUME CorrectCallers
  PROVE  Spec => []SingleOwner
<1>1. IInv => SingleOwner
  BY DEF IInv
<1> QED
  BY <1>1, Invariant, PTL

(* What a caller holds is as large and as aligned as it asked for, for     *)
(* every size class layout and every request.                              *)
THEOREM BlocksFit ==
  ASSUME CorrectCallers
  PROVE  Spec => []Fits
<1>1. IInv => Fits
  BY DEF IInv
<1> QED
  BY <1>1, Invariant, PTL

(* Wherever the memory of an unpooled block lies, the payload handed out   *)
(* is aligned and lies inside it.                                          *)
THEOREM UnpooledPayloadsInside ==
  ASSUME CorrectCallers
  PROVE  Spec => []FallbackInside
<1>1. IInv => FallbackInside
  <2> SUFFICES ASSUME IInv, NEW b \in held, classIdx[b] = Unpooled,
                      NEW k \in 1 .. cap[b].align,
                      HeaderSize * k + FallbackBytes(cap[b].size, cap[b].align) <= 2^WordBits
               PROVE  LET base == HeaderSize * k
                          payload == FallbackPayload(base, cap[b].align)
                      IN  /\ payload % cap[b].align = 0
                          /\ base + HeaderSize <= payload
                          /\ payload + cap[b].size
                               <= base + FallbackBytes(cap[b].size, cap[b].align)
    BY DEF FallbackInside
  <2>1. b \in Blocks \ fresh /\ cap[b].size \in Nat /\ cap[b].align \in Nat
    BY DEF IInv, TypeOK, SingleOwner, Shape
  <2>2. cap[b].align >= HeaderSize /\ Padded(cap[b].size, cap[b].align)
    BY <2>1 DEF IInv, Memory
  <2>3. FallbackAlign(cap[b].align) = cap[b].align
    BY <2>1, <2>2, SizesAssumption DEF FallbackAlign
  <2>4. HeaderSize * k \in Nat
    BY <2>1, SizesAssumption
  <2> QED
    BY <2>1, <2>2, <2>3, <2>4, FallbackLayout DEF Padded
<1> QED
  BY <1>1, Invariant, PTL

(* Nothing but its holder changes a written payload, and cabi_realloc      *)
(* carries it along.                                                       *)
THEOREM PayloadsSurvive ==
  ASSUME CorrectCallers
  PROVE  Spec => []PayloadIntact
<1>1. IInv => PayloadIntact
  BY DEF IInv
<1> QED
  BY <1>1, Invariant, PTL

-----------------------------------------------------------------------------
(* A call that does not move, and whose blocks are left alone, stays as    *)
(* its caller sees it.                                                     *)
LEMMA SameCall ==
  ASSUME IInv, NEW u \in Threads, pc'[u] = pc[u], frame'[u] = frame[u],
         \A b \in Own(u) : word'[b] = word[b]
  PROVE  CallOf(u)' = CallOf(u)
<1>1. TypeOK /\ Links /\ CallInv(u) /\ CallShape(u) /\ pc[u] \in Steps
  BY InvOf DEF TypeOK
<1>2. CASE frame[u].kind = "move"
  <2>1. pc[u] \in Freeing => frame[u].newPtr \in Own(u)
    BY <1>1, <1>2, Operands
  <2>2. pc[u] \notin Freeing /\ pc[u] # "idle" => frame[u].ptr \in Own(u)
    BY <1>1, <1>2, Operands DEF Steps
  <2>3. pc[u] # "idle" => Carried(u)' = Carried(u)
    BY <1>2, <2>1, <2>2 DEF Carried
  <2> QED
    BY <1>2, <2>3 DEF CallOf, YieldsBlock
<1>3. CASE frame[u].kind # "move"
  BY <1>3 DEF CallOf, YieldsBlock, Carried
<1> QED
  BY <1>2, <1>3

(* What its callers see of the allocator does not change while thread t    *)
(* works inside it, on blocks it owns or the heap provides.                *)
LEMMA StaysInside ==
  ASSUME IInv, NEW t \in Threads, held' = held, want' = want,
         \A u \in Threads \ {t} : pc'[u] = pc[u] /\ frame'[u] = frame[u],
         \A b \in Blocks \ (Own(t) \cup fresh) : word'[b] = word[b],
         CallOf(t)' = CallOf(t)
  PROVE  UNCHANGED <<Heap, Calls>>
<1>1. SingleOwner /\ held \subseteq Blocks /\ \A u \in Threads : Own(u) \subseteq Blocks
  BY InvOf DEF TypeOK
<1>2. \A b \in held : word'[b] = word[b]
  BY <1>1 DEF SingleOwner
<1>3. ASSUME NEW u \in Threads \ {t} PROVE CallOf(u)' = CallOf(u)
  <2>1. \A b \in Own(u) : word'[b] = word[b]
    BY <1>1 DEF SingleOwner
  <2> QED
    BY <2>1, SameCall
<1>4. Heap' = Heap
  BY <1>2 DEF Heap
<1> QED
  BY <1>3, <1>4 DEF Calls

(* What thread t is asked for, and where the data it carries lies.         *)
LEMMA SeenOfCall ==
  ASSUME IInv, NEW t \in Threads, pc[t] # "idle", pc'[t] # "idle",
         frame'[t].kind = frame[t].kind, frame'[t].size = frame[t].size,
         frame'[t].align = frame[t].align, frame'[t].old = frame[t].old,
         frame[t].kind = "move" =>
           word'[IF pc'[t] \in Freeing THEN frame'[t].newPtr ELSE frame'[t].ptr]
           = word[IF pc[t] \in Freeing THEN frame[t].newPtr ELSE frame[t].ptr]
  PROVE  CallOf(t)' = CallOf(t)
<1>1. Carried(t)' = Carried(t)
  BY DEF Carried
<1> QED
  BY <1>1 DEF CallOf, YieldsBlock

(* A call returns block b.                                                 *)
LEMMA AnswerSeen ==
  ASSUME IInv, NEW t \in Threads, NEW b \in (Own(t) \cup fresh) \cap Blocks, HandOut(t, b),
         YieldsBlock(frame[t]), pc[t] # "idle",
         \A a \in Blocks \ (Own(t) \cup fresh) : word'[a] = word[a],
         word'[b] \in Carried(t)
  PROVE  Promise!Answer(t)
<1>1. /\ TypeOK /\ SingleOwner /\ held \subseteq Blocks /\ CallShape(t)
      /\ \A u \in Threads : Own(u) \subseteq Blocks
  BY InvOf DEF TypeOK
<1>2. /\ held' = held \cup {b}
      /\ want' = [want EXCEPT ![b] = [size |-> frame[t].size, align |-> frame[t].align]]
      /\ pc' = [pc EXCEPT ![t] = "idle"] /\ frame' = [frame EXCEPT ![t] = NoFrame]
  BY DEF HandOut, ReturnFrom, Goto
<1>3. /\ pc'[t] = "idle" /\ \A u \in Threads \ {t} : pc'[u] = pc[u] /\ frame'[u] = frame[u]
      /\ want'[b] = [size |-> frame[t].size, align |-> frame[t].align]
      /\ \A a \in Blocks \ {b} : want'[a] = want[a]
  BY <1>1, <1>2 DEF TypeOK
<1>4. b \notin held /\ \A a \in held : word'[a] = word[a]
  BY <1>1 DEF SingleOwner
<1>5. CallOf(t) = [yields |-> "block", size |-> frame[t].size, align |-> frame[t].align,
                   data |-> Carried(t)]
  BY DEF CallOf, YieldsBlock
<1>6. Calls' = [Calls EXCEPT ![t] = Promise!Idle]
  <2>1. ASSUME NEW u \in Threads \ {t} PROVE CallOf(u)' = CallOf(u)
    <3>1. \A a \in Own(u) : word'[a] = word[a]
      BY <1>1 DEF SingleOwner
    <3> QED
      BY <1>3, <3>1, SameCall
  <2>2. CallOf(t)' = Promise!Idle
    BY <1>3 DEF CallOf, YieldsBlock, Promise!Idle
  <2> QED
    BY <2>1, <2>2 DEF Calls
<1>7. Heap' = [a \in held \cup {b} |->
                 IF a = b THEN [size |-> frame[t].size, align |-> frame[t].align, data |-> word'[b]]
                 ELSE Heap[a]]
  <2>1. \A a \in held : a # b /\ want'[a] = want[a] /\ word'[a] = word[a]
    BY <1>1, <1>3, <1>4
  <2> QED
    BY <1>2, <1>3, <2>1 DEF Heap
<1>8. DOMAIN Heap = held /\ Calls[t] = CallOf(t)
  BY DEF Heap, Calls
<1> QED
  BY <1>4, <1>5, <1>6, <1>7, <1>8 DEF Promise!Answer

(* A call returns without a block.                                         *)
LEMMA ReturnSeen ==
  ASSUME IInv, NEW t \in Threads, ReturnFrom(t), UNCHANGED <<held, want, word>>,
         frame[t].kind = "free" \/ (frame[t].kind = "release" /\ frame[t].align <= HeaderSize),
         pc[t] # "idle"
  PROVE  Promise!Return(t)
<1>1. TypeOK
  BY InvOf
<1>2. /\ pc'[t] = "idle" /\ \A u \in Threads \ {t} : pc'[u] = pc[u] /\ frame'[u] = frame[u]
  BY <1>1 DEF TypeOK, ReturnFrom, Goto
<1>3. CallOf(t).yields = "nothing" /\ Calls[t] = CallOf(t)
  <2>1. frame[t].align \in Nat /\ HeaderSize \in Nat
    BY <1>1, FrameFields, SizesAssumption DEF TypeOK
  <2> QED
    BY <2>1 DEF CallOf, YieldsBlock, Calls
<1>4. CallOf(t)' = Promise!Idle
  BY <1>2 DEF CallOf, YieldsBlock, Promise!Idle
<1>5. \A u \in Threads \ {t} : CallOf(u)' = CallOf(u)
  BY <1>2, SameCall
<1>6. Heap' = Heap
  BY DEF Heap
<1> QED
  BY <1>3, <1>4, <1>5, <1>6 DEF Promise!Return, Calls

(* Steps inside the pool and of pushBlock and popBlock are not seen.       *)
LEMMA InsideUnseen ==
  ASSUME IInv, NEW t \in Threads,
         \/ Inspect(t) /\ ~ FitsInPlace(t)
         \/ PopLoad(t) \/ PopNext(t) \/ PopCAS(t) \/ PopClear(t) \/ PushLoad(t) \/ PushStore(t)
         \/ FreeLoad(t)
  PROVE  UNCHANGED <<Heap, Calls>>
<1>1. /\ TypeOK /\ CallInv(t) /\ CallShape(t) /\ DistinctParts(t) /\ Links
      /\ frame[t] \in Frames /\ pc[t] \in Steps
  BY InvOf DEF TypeOK
<1> DEFINE place == IF pc[t] \in Freeing THEN frame[t].newPtr ELSE frame[t].ptr
<1>2. /\ UNCHANGED <<held, want>> /\ pc[t] # "idle" /\ pc'[t] # "idle"
      /\ \A u \in Threads \ {t} : pc'[u] = pc[u] /\ frame'[u] = frame[u]
      /\ frame'[t].kind = frame[t].kind /\ frame'[t].size = frame[t].size
      /\ frame'[t].align = frame[t].align /\ frame'[t].old = frame[t].old
      /\ frame'[t].newPtr = frame[t].newPtr /\ frame'[t].ptr = frame[t].ptr
      /\ pc'[t] \in Freeing <=> pc[t] \in Freeing
  <2>1. CASE Inspect(t) /\ ~ FitsInPlace(t)
    BY <1>1, <2>1 DEF Inspect, Continue, Goto, TypeOK, PoolAllocEntry, Freeing
  <2>2. CASE PopLoad(t)
    BY <1>1, <2>2 DEF PopLoad, Goto, TypeOK, Frames, Freeing, callerVars
  <2>3. CASE PopNext(t)
    BY <1>1, <2>3 DEF PopNext, Goto, TypeOK, Frames, Freeing, callerVars
  <2>4. CASE PopCAS(t)
    BY <1>1, <2>4 DEF PopCAS, Goto, TypeOK, Freeing, callerVars
  <2>5. CASE PopClear(t)
    BY <1>1, <2>5 DEF PopClear, Goto, TypeOK, Freeing, callerVars
  <2>6. CASE PushLoad(t)
    BY <1>1, <2>6 DEF PushLoad, Goto, TypeOK, Frames, Freeing, callerVars
  <2>7. CASE PushStore(t)
    BY <1>1, <2>7 DEF PushStore, Goto, TypeOK, Freeing, callerVars
  <2>8. CASE FreeLoad(t)
    <3>1. magic[frame[t].node] # magicFree
      BY <1>1, <2>8, Operands DEF FreeLoad
    <3> QED
      BY <1>1, <2>8, <3>1 DEF FreeLoad, Goto, TypeOK, Frames, Freeing
  <2> QED
    BY <2>1, <2>2, <2>3, <2>4, <2>5, <2>6, <2>7, <2>8
<1>3. /\ \A a \in Blocks \ Own(t) : word'[a] = word[a]
      /\ frame[t].kind = "move" => word'[place] = word[place]
  <2>1. CASE PopClear(t)
    <3>1. /\ frame[t].head \in Own(t) /\ frame[t].head \in Popped(t) /\ pc[t] = "pop_clear"
          /\ \A a : a # frame[t].head => word'[a] = word[a]
      BY <1>1, <2>1, Operands DEF PopClear, TypeOK, Popped
    <3>2. frame[t].kind = "move" => place \in MovedFrom(t)
      BY <3>1 DEF MovedFrom, Freeing, Popping
    <3> QED
      BY <1>1, <3>1, <3>2 DEF DistinctParts
  <2>2. CASE PushStore(t)
    <3>1. /\ frame[t].node \in Own(t) /\ pc[t] = "push_store"
          /\ \A a : a # frame[t].node => word'[a] = word[a]
      BY <1>1, <2>2, Operands DEF PushStore, TypeOK, Freeing
    <3>2. frame[t].node \in Dying(t)
      BY <3>1 DEF Dying
    <3>3. frame[t].kind = "move" => place \in MovedTo(t)
      BY <3>1 DEF MovedTo, Freeing
    <3> QED
      BY <1>1, <3>1, <3>2, <3>3 DEF DistinctParts
  <2>3. CASE word' = word
    BY <2>3
  <2> QED
    BY <2>1, <2>2, <2>3
       DEF Inspect, PopLoad, PopNext, PopCAS, PushLoad, FreeLoad, heapVars
<1>4. CallOf(t)' = CallOf(t)
  BY <1>2, <1>3, SeenOfCall
<1> QED
  BY <1>2, <1>3, <1>4, StaysInside

(* poolAlloc has block b for the call of thread t: a move goes on inside,  *)
(* every other call returns.                                               *)
LEMMA DeliverSeen ==
  ASSUME IInv, NEW t \in Threads, NEW b \in (Own(t) \cup fresh) \cap Blocks, Deliver(t, b),
         pc[t] \in {"pop_magic", "grow", "fallback"},
         \A a \in Blocks \ fresh : word'[a] = word[a],
         word'[b] \in Ref \cup {Data}
  PROVE  Promise!Answer(t) \/ UNCHANGED <<Heap, Calls>>
<1>1. /\ TypeOK /\ CallInv(t) /\ CallShape(t) /\ SingleOwner /\ Links
      /\ frame[t] \in Frames /\ Own(t) \subseteq Blocks
  BY InvOf DEF TypeOK
<1>2. CASE frame[t].kind = "move"
  <2>1. /\ UNCHANGED <<held, want>> /\ pc'[t] = "copy"
        /\ \A u \in Threads \ {t} : pc'[u] = pc[u] /\ frame'[u] = frame[u]
        /\ frame'[t].kind = frame[t].kind /\ frame'[t].size = frame[t].size
        /\ frame'[t].align = frame[t].align /\ frame'[t].old = frame[t].old
        /\ frame'[t].ptr = frame[t].ptr
    BY <1>1, <1>2 DEF Deliver, Goto, TypeOK, Frames
  <2>2. frame[t].ptr \in Own(t) /\ word'[frame[t].ptr] = word[frame[t].ptr]
    BY <1>1, <1>2, Operands DEF SingleOwner, Popping
  <2>3. CallOf(t)' = CallOf(t)
    BY <2>1, <2>2, SeenOfCall DEF Freeing
  <2> QED
    BY <2>1, <2>3, StaysInside
<1>3. CASE frame[t].kind # "move"
  <2>1. HandOut(t, b) /\ Carried(t) = Ref \cup {Data} /\ pc[t] # "idle"
    BY <1>3 DEF Deliver, Carried
  <2>2. YieldsBlock(frame[t])
    BY <1>1, <1>3, <2>1 DEF CallShape, Freeing, Popping, YieldsBlock, Frames, Kinds
  <2> QED
    BY <2>1, <2>2, AnswerSeen
<1> QED
  BY <1>2, <1>3

(* A block that cabi_realloc keeps in place is returned with its data.     *)
LEMMA KeepSeen ==
  ASSUME IInv, NEW t \in Threads, Inspect(t), FitsInPlace(t)
  PROVE  Promise!Answer(t)
<1>1. TypeOK /\ CallInv(t) /\ CallShape(t) /\ Links /\ frame[t] \in Frames
  BY InvOf DEF TypeOK
<1>2. pc[t] = "inspect" /\ HandOut(t, frame[t].ptr) /\ word' = word /\ frame[t].kind = "move"
  BY <1>1 DEF Inspect, heapVars, CallShape
<1>3. frame[t].ptr \in Own(t) /\ frame[t].ptr \in Blocks
  BY <1>1, <1>2, Operands
<1>4. word[frame[t].ptr] \in Carried(t)
  BY <1>1, <1>2, <1>3 DEF Carried, Freeing, TypeOK
<1>5. YieldsBlock(frame[t])
  BY <1>2 DEF YieldsBlock
<1> QED
  BY <1>2, <1>3, <1>4, <1>5, AnswerSeen

(* The copy of cabi_realloc: the data is now in the new block.             *)
LEMMA CopyUnseen ==
  ASSUME IInv, NEW t \in Threads, Copy(t)
  PROVE  UNCHANGED <<Heap, Calls>>
<1>1. /\ TypeOK /\ CallInv(t) /\ CallShape(t) /\ Links /\ DistinctParts(t)
      /\ frame[t] \in Frames /\ pc[t] = "copy"
  BY InvOf DEF TypeOK, Copy
<1>2. /\ frame[t].kind = "move" /\ frame[t].ptr \in Own(t) /\ frame[t].newPtr \in Own(t)
      /\ frame[t].ptr \in Blocks /\ frame[t].newPtr \in Blocks
  BY <1>1, Operands DEF CallShape
<1>3. /\ UNCHANGED <<held, want>> /\ pc'[t] = "free_load"
      /\ \A u \in Threads \ {t} : pc'[u] = pc[u] /\ frame'[u] = frame[u]
      /\ frame'[t] = [frame[t] EXCEPT !.node = frame[t].ptr]
      /\ word' = IF frame[t].old > 0
                 THEN [word EXCEPT ![frame[t].newPtr] = word[frame[t].ptr]] ELSE word
  BY <1>1 DEF Copy, Goto, TypeOK
<1>4. /\ frame'[t].kind = "move" /\ frame'[t].size = frame[t].size
      /\ frame'[t].align = frame[t].align /\ frame'[t].old = frame[t].old
      /\ frame'[t].newPtr = frame[t].newPtr
  BY <1>1, <1>2, <1>3 DEF Frames
<1>5. frame[t].old > 0 => word'[frame[t].newPtr] = word[frame[t].ptr]
  BY <1>1, <1>2, <1>3 DEF TypeOK
<1>6. \A a \in Blocks \ Own(t) : word'[a] = word[a]
  BY <1>1, <1>2, <1>3 DEF TypeOK
<1>7. CallOf(t)' = CallOf(t)
  <2>1. Carried(t)' = Carried(t)
    BY <1>1, <1>2, <1>3, <1>4, <1>5 DEF Carried, Freeing
  <2> QED
    BY <1>1, <1>2, <1>3, <1>4, <2>1 DEF CallOf, YieldsBlock
<1> QED
  BY <1>3, <1>6, <1>7, StaysInside

(* A block from a stack or from the heap is delivered.                     *)
LEMMA AllocSeen ==
  ASSUME IInv, NEW t \in Threads,
         PopMagic(t) \/ \E b \in Blocks : FallbackAlloc(t, b) \/ Grow(t, b)
  PROVE  Promise!Answer(t) \/ UNCHANGED <<Heap, Calls>>
<1>1. TypeOK /\ CallInv(t) /\ Links
  BY InvOf
<1>2. CASE PopMagic(t)
  <2>1. pc[t] = "pop_magic" /\ Deliver(t, frame[t].head) /\ word' = word
    BY <1>2 DEF PopMagic
  <2>2. frame[t].head \in Own(t) /\ frame[t].head \in Blocks
    BY <1>1, <2>1, Operands
  <2>3. word[frame[t].head] \in Ref \cup {Data}
    BY <1>1, <2>2 DEF TypeOK
  <2> QED
    BY <2>1, <2>2, <2>3, DeliverSeen
<1>3. ASSUME NEW b \in Blocks, FallbackAlloc(t, b) \/ Grow(t, b)
      PROVE  Promise!Answer(t) \/ UNCHANGED <<Heap, Calls>>
  <2>1. /\ pc[t] \in {"fallback", "grow"} /\ Deliver(t, b) /\ b \in fresh
        /\ word' = [word EXCEPT ![b] = NULL]
    BY <1>3 DEF FallbackAlloc, Grow, NewBlock
  <2>2. word'[b] \in Ref \cup {Data} /\ \A a \in Blocks \ fresh : word'[a] = word[a]
    BY <1>1, <2>1 DEF TypeOK, Ref
  <2> QED
    BY <2>1, <2>2, DeliverSeen
<1> QED
  BY <1>2, <1>3

(* cabi_free is done: cabi_realloc returns the block it moved to, or goes  *)
(* on to an empty one; everybody else returns without a block.             *)
LEMMA FreeDoneSeen ==
  ASSUME IInv, NEW t \in Threads, pc[t] \in Freeing, FreeDone(t), word' = word
  PROVE  Promise!Answer(t) \/ Promise!Return(t) \/ UNCHANGED <<Heap, Calls>>
<1>1. /\ TypeOK /\ CallInv(t) /\ CallShape(t) /\ Links /\ frame[t] \in Frames
  BY InvOf DEF TypeOK
<1>2. pc[t] # "idle" /\ HeaderSize \in Nat /\ frame[t].align \in Nat
  BY <1>1, FrameFields, SizesAssumption DEF Freeing
<1>3. CASE frame[t].kind = "move"
  <2>1. HandOut(t, frame[t].newPtr)
    BY <1>3 DEF FreeDone
  <2>2. frame[t].newPtr \in Own(t) /\ frame[t].newPtr \in Blocks
    BY <1>1, <1>3, Operands
  <2>3. word[frame[t].newPtr] \in Carried(t)
    BY <1>1, <1>3, <2>2 DEF Carried, TypeOK
  <2>4. YieldsBlock(frame[t])
    BY <1>3 DEF YieldsBlock
  <2> QED
    BY <1>2, <2>1, <2>2, <2>3, <2>4, AnswerSeen
<1>4. CASE frame[t].kind = "release" /\ frame[t].align > HeaderSize
  <2>1. Goto(t, "fallback") /\ UNCHANGED <<held, want, frame>>
    BY <1>4 DEF FreeDone, Continue
  <2>2. pc'[t] = "fallback" /\ \A u \in Threads \ {t} : pc'[u] = pc[u]
    BY <1>1, <2>1 DEF Goto, TypeOK
  <2>3. CallOf(t)' = CallOf(t)
    BY <1>2, <1>4, <2>1, <2>2, SeenOfCall
  <2> QED
    BY <2>1, <2>2, <2>3, StaysInside
<1>5. CASE frame[t].kind # "move" /\ ~ (frame[t].kind = "release" /\ frame[t].align > HeaderSize)
  <2>1. ReturnFrom(t) /\ UNCHANGED <<held, want>>
    BY <1>5 DEF FreeDone
  <2>2. frame[t].kind = "free" \/ (frame[t].kind = "release" /\ frame[t].align <= HeaderSize)
    BY <1>1, <1>2, <1>5 DEF CallShape, Freeing, Popping, Frames, Kinds
  <2> QED
    BY <1>2, <2>1, <2>2, ReturnSeen
<1> QED
  BY <1>3, <1>4, <1>5

(* The compare-and-swaps of cabi_free and pushBlock.                       *)
LEMMA FreeSeen ==
  ASSUME IInv, NEW t \in Threads, FreeCAS(t) \/ PushCAS(t)
  PROVE  Promise!Answer(t) \/ Promise!Return(t) \/ UNCHANGED <<Heap, Calls>>
<1>1. /\ TypeOK /\ CallInv(t) /\ CallShape(t) /\ Links /\ frame[t] \in Frames
  BY InvOf DEF TypeOK
<1>2. pc[t] \in Freeing /\ word' = word
  BY DEF FreeCAS, PushCAS, Freeing
<1>3. CASE FreeDone(t)
  BY <1>2, <1>3, FreeDoneSeen
<1>4. CASE Continue(t, "push_load")
  <2>1. /\ pc'[t] = "push_load" /\ UNCHANGED <<held, want, frame>>
        /\ \A u \in Threads \ {t} : pc'[u] = pc[u]
    BY <1>1, <1>4 DEF Continue, Goto, TypeOK
  <2>2. CallOf(t)' = CallOf(t)
    BY <1>2, <2>1, SeenOfCall DEF Freeing
  <2> QED
    BY <1>2, <2>1, <2>2, StaysInside
<1> QED
  BY <1>3, <1>4 DEF FreeCAS, PushCAS

(* A call starts: the rest of the heap and the other calls stay.           *)
LEMMA StartSeen ==
  ASSUME IInv, NEW t \in Threads, word' = word, NEW c, CallOf(t)' = c, pc[t] = "idle",
         \A u \in Threads \ {t} : pc'[u] = pc[u] /\ frame'[u] = frame[u]
  PROVE  Calls[t] = Promise!Idle /\ Promise!Start(t, c)
<1>1. Calls[t] = Promise!Idle
  BY DEF Calls, CallOf, Promise!Idle
<1>2. \A u \in Threads \ {t} : CallOf(u)' = CallOf(u)
  BY SameCall
<1>3. Calls' = [Calls EXCEPT ![t] = c]
  BY <1>2 DEF Calls
<1> QED
  BY <1>1, <1>3 DEF Promise!Start

(* Its caller gives block b up with it.                                    *)
LEMMA WithSeen ==
  ASSUME TypeOK, NEW b \in held, held' = held \ {b}, word' = word,
         \A a \in Blocks \ {b} : want'[a] = want[a]
  PROVE  Promise!With(b) /\ b \in DOMAIN Heap
<1>1. \A a \in held \ {b} : want'[a] = want[a]
  BY DEF TypeOK
<1>2. Heap' = [a \in held \ {b} |-> Heap[a]]
  BY <1>1 DEF Heap
<1> QED
  BY <1>2 DEF Heap, Promise!With

(* The start of a call is the start of a call.                             *)
LEMMA CallSeen ==
  ASSUME IInv, CorrectCallers, NEW t \in Threads, Call(t)
  PROVE  Promise!Call(t)
<1>1. TypeOK /\ held \subseteq Blocks /\ NoFrame \in Frames /\ HeaderSize \in Nat
  BY InvOf, NoFrameType, SizesAssumption DEF TypeOK
<1>2. ASSUME NEW r \in Requests, Malloc(t, r) PROVE Promise!Call(t)
  <2> DEFINE f == [NoFrame EXCEPT !.kind = "malloc", !.size = r.size, !.align = r.align]
  <2>1. /\ pc[t] = "idle" /\ UNCHANGED <<held, want, word>>
        /\ pc'[t] = PoolAllocEntry(r.size, r.align) /\ frame'[t] = f
        /\ \A u \in Threads \ {t} : pc'[u] = pc[u] /\ frame'[u] = frame[u]
    BY <1>1, <1>2 DEF Malloc, Goto, heapVars, callerVars, TypeOK
  <2>2. f.kind = "malloc" /\ f.size = r.size /\ f.align = r.align /\ pc'[t] # "idle"
    BY <2>1 DEF NoFrame, PoolAllocEntry
  <2>3. CallOf(t)' = Promise!Yields(r.size, r.align, Ref \cup {Data})
    BY <2>1, <2>2 DEF CallOf, YieldsBlock, Carried, Promise!Yields
  <2>4. Calls[t] = Promise!Idle /\ Promise!Start(t, Promise!Yields(r.size, r.align, Ref \cup {Data}))
    BY <2>1, <2>3, StartSeen
  <2>5. Heap' = Heap
    BY <2>1 DEF Heap
  <2> QED
    BY <2>4, <2>5 DEF Promise!Call, Promise!Malloc
<1>3. ASSUME NEW b \in Blocks, NEW r \in Requests, Realloc(t, b, r) PROVE Promise!Call(t)
  <2> DEFINE f == [NoFrame EXCEPT !.kind = "move", !.ptr = b, !.old = want[b].size,
                                  !.size = r.size, !.align = r.align]
             d == IF want[b].size > 0 THEN {word[b]} ELSE Ref \cup {Data}
  <2>1. /\ pc[t] = "idle" /\ b \in held /\ held' = held \ {b} /\ word' = word
        /\ pc'[t] = "inspect" /\ frame'[t] = f
        /\ \A u \in Threads \ {t} : pc'[u] = pc[u] /\ frame'[u] = frame[u]
        /\ \A a \in Blocks \ {b} : want'[a] = want[a]
    BY <1>1, <1>3 DEF Realloc, Goto, heapVars, TypeOK
  <2>2. /\ f.kind = "move" /\ f.size = r.size /\ f.align = r.align /\ f.ptr = b
        /\ f.old = want[b].size
    BY DEF NoFrame
  <2>3. CallOf(t)' = Promise!Yields(r.size, r.align, d)
    BY <2>1, <2>2 DEF CallOf, YieldsBlock, Carried, Promise!Yields, Freeing
  <2>4. Calls[t] = Promise!Idle /\ Promise!Start(t, Promise!Yields(r.size, r.align, d))
    BY <2>1, <2>3, StartSeen
  <2>5. Promise!With(b) /\ b \in DOMAIN Heap
    BY <1>1, <2>1, WithSeen
  <2>6. Heap[b].size = want[b].size /\ Heap[b].data = word[b]
    BY <2>1 DEF Heap
  <2> QED
    BY <2>4, <2>5, <2>6 DEF Promise!Call, Promise!Realloc
<1>4. ASSUME NEW b \in Blocks, NEW r \in Requests, Release(t, b, r.align) PROVE Promise!Call(t)
  <2> DEFINE f == [NoFrame EXCEPT !.kind = "release", !.align = r.align, !.node = b]
             c == IF r.align \in {a \in Nat : a <= HeaderSize} THEN Promise!YieldsNothing
                  ELSE Promise!Yields(0, r.align, Ref \cup {Data})
  <2>1. /\ pc[t] = "idle" /\ b \in held /\ held' = held \ {b} /\ word' = word
        /\ pc'[t] = "free_load" /\ frame'[t] = f
        /\ \A u \in Threads \ {t} : pc'[u] = pc[u] /\ frame'[u] = frame[u]
        /\ \A a \in Blocks \ {b} : want'[a] = want[a]
    BY <1>1, <1>4 DEF Release, GiveUp, Goto, heapVars, TypeOK
  <2>2. f.kind = "release" /\ f.size = 0 /\ f.align = r.align /\ r.align \in Nat
    BY MemPoolAssumption DEF NoFrame, MemPoolAssumption
  <2>3. CallOf(t)' = c
    <3>1. CASE r.align <= HeaderSize
      <4>1. ~ YieldsBlock(frame[t])' /\ pc'[t] # "idle" /\ c = Promise!YieldsNothing
        BY <1>1, <2>1, <2>2, <3>1 DEF YieldsBlock
      <4> QED
        BY <4>1 DEF CallOf, Promise!YieldsNothing, Promise!Idle
    <3>2. CASE ~ (r.align <= HeaderSize)
      <4>1. YieldsBlock(frame[t])' /\ pc'[t] # "idle" /\ c = Promise!Yields(0, r.align, Ref \cup {Data})
        BY <1>1, <2>1, <2>2, <3>2 DEF YieldsBlock
      <4>2. Carried(t)' = Ref \cup {Data} /\ frame'[t].size = 0 /\ frame'[t].align = r.align
        BY <2>1, <2>2 DEF Carried
      <4> QED
        BY <4>1, <4>2 DEF CallOf, Promise!Yields
    <3> QED
      BY <3>1, <3>2
  <2>4. Calls[t] = Promise!Idle /\ Promise!Start(t, c)
    BY <2>1, <2>3, StartSeen
  <2>5. Promise!With(b) /\ b \in DOMAIN Heap
    BY <1>1, <2>1, WithSeen
  <2> QED
    BY <2>4, <2>5 DEF Promise!Call, Promise!Release
<1>5. ASSUME NEW b \in Blocks, Free(t, b) PROVE Promise!Call(t)
  <2> DEFINE f == [NoFrame EXCEPT !.node = b]
  <2>1. /\ pc[t] = "idle" /\ b \in held /\ held' = held \ {b} /\ word' = word
        /\ pc'[t] = "free_load" /\ frame'[t] = f
        /\ \A u \in Threads \ {t} : pc'[u] = pc[u] /\ frame'[u] = frame[u]
        /\ \A a \in Blocks \ {b} : want'[a] = want[a]
    BY <1>1, <1>5 DEF Free, GiveUp, Goto, heapVars, TypeOK
  <2>2. f.kind = "free"
    BY DEF NoFrame
  <2>3. CallOf(t)' = Promise!YieldsNothing
    BY <2>1, <2>2 DEF CallOf, YieldsBlock, Promise!YieldsNothing, Promise!Idle
  <2>4. Calls[t] = Promise!Idle /\ Promise!Start(t, Promise!YieldsNothing)
    BY <2>1, <2>3, StartSeen
  <2>5. Promise!With(b) /\ b \in DOMAIN Heap
    BY <1>1, <2>1, WithSeen
  <2> QED
    BY <2>4, <2>5 DEF Promise!Call, Promise!Free
<1>6. ~ \E b \in Blocks : StaleFree(t, b)
  BY DEF CorrectCallers, StaleFree
<1> QED
  BY <1>2, <1>3, <1>4, <1>5, <1>6 DEF Call

(* A store is a store.                                                     *)
LEMMA StoreSeen ==
  ASSUME IInv, NEW b \in Blocks, Store(b)
  PROVE  b \in DOMAIN Heap /\ Promise!Store(b)
<1>1. TypeOK /\ SingleOwner /\ held \subseteq Blocks /\ \A u \in Threads : Own(u) \subseteq Blocks
  BY InvOf DEF IInv, TypeOK
<1>2. /\ b \in held /\ want[b].size > 0 /\ word' = [word EXCEPT ![b] = Data]
      /\ UNCHANGED <<held, want, pc, frame>>
  BY DEF Store
<1>3. Heap' = [Heap EXCEPT ![b].data = Data]
  <2>1. word'[b] = Data /\ \A a \in held \ {b} : word'[a] = word[a]
    BY <1>1, <1>2 DEF TypeOK
  <2>2. Heap'[b] = [Heap[b] EXCEPT !.data = Data]
    BY <1>2, <2>1 DEF Heap
  <2>3. \A a \in held \ {b} : Heap'[a] = Heap[a]
    BY <1>2, <2>1 DEF Heap
  <2>4. Heap' = [a \in held |-> Heap'[a]] /\ Heap = [a \in held |-> Heap[a]]
    BY <1>2 DEF Heap
  <2> QED
    BY <1>2, <2>2, <2>3, <2>4
<1>4. Calls' = Calls
  <2>1. ASSUME NEW u \in Threads PROVE CallOf(u)' = CallOf(u)
    <3>1. b \notin Own(u)
      BY <1>1, <1>2 DEF SingleOwner
    <3>2. \A a \in Own(u) : word'[a] = word[a]
      BY <1>1, <1>2, <3>1 DEF TypeOK
    <3> QED
      BY <1>2, <3>2, SameCall
  <2> QED
    BY <2>1 DEF Calls
<1> QED
  BY <1>2, <1>3, <1>4 DEF Heap, Promise!Store

(* The garbage collector is not seen.                                      *)
LEMMA CollectUnseen ==
  ASSUME IInv, NEW b \in Blocks, Collect(b)
  PROVE  UNCHANGED <<Heap, Calls>>
<1>1. TypeOK /\ SingleOwner /\ held \subseteq Blocks /\ \A u \in Threads : Own(u) \subseteq Blocks
  BY InvOf DEF IInv, TypeOK
<1>2. /\ b \notin held /\ \A a : a # b => word'[a] = word[a]
      /\ UNCHANGED <<held, want, pc, frame, classIdx>>
  BY <1>1 DEF Collect, callerVars, TypeOK
<1>3. Heap' = Heap
  BY <1>2 DEF Heap
<1>4. ASSUME NEW u \in Threads PROVE CallOf(u)' = CallOf(u)
  <2>1. b # frame[u].ptr /\ b # frame[u].newPtr
    BY DEF Collect
  <2>2. Carried(u)' = Carried(u)
    BY <1>2, <2>1 DEF Carried
  <2> QED
    BY <1>2, <2>2 DEF CallOf
<1> QED
  BY <1>3, <1>4 DEF Calls

(* The pool with its lock-free stacks, magic numbers and copies is, to     *)
(* callers that keep the rules, an allocator whose calls take effect in    *)
(* one step: blocks of their own, and cabi_realloc gives back the data.    *)
THEOREM PoolKeepsPromise ==
  ASSUME CorrectCallers
  PROVE  Spec => KeepsPromise
<1>1. Init => Promise!Init
  <2> SUFFICES ASSUME Init PROVE Promise!Init
    OBVIOUS
  <2>1. Heap = [b \in {} |-> Promise!Idle]
    BY DEF Init, Heap
  <2>2. \A t \in Threads : CallOf(t) = Promise!Idle
    BY DEF Init, CallOf, Promise!Idle
  <2> QED
    BY <2>1, <2>2 DEF Promise!Init, Calls
<1>2. IInv /\ [Next]_vars => [Promise!Next]_(Promise!vars)
  <2> SUFFICES ASSUME IInv, [Next]_vars PROVE Promise!Next \/ UNCHANGED <<Heap, Calls>>
    BY DEF Promise!vars
  <2>1. CASE UNCHANGED vars
    BY <2>1 DEF vars, heapVars, callerVars, Heap, Calls, CallOf, YieldsBlock, Carried
  <2>2. ASSUME NEW t \in Threads, Call(t) PROVE Promise!Next
    BY <2>2, CallSeen DEF Promise!Next
  <2>3. ASSUME NEW t \in Threads, Step(t) PROVE Promise!Next \/ UNCHANGED <<Heap, Calls>>
    <3>1. CASE Inspect(t) /\ FitsInPlace(t)
      BY <3>1, KeepSeen DEF Promise!Next
    <3>2. CASE \/ Inspect(t) /\ ~ FitsInPlace(t)
               \/ PopLoad(t) \/ PopNext(t) \/ PopCAS(t) \/ PopClear(t)
               \/ PushLoad(t) \/ PushStore(t) \/ FreeLoad(t)
      BY <3>2, InsideUnseen
    <3>3. CASE PopMagic(t) \/ \E b \in Blocks : FallbackAlloc(t, b) \/ Grow(t, b)
      BY <3>3, AllocSeen DEF Promise!Next
    <3>4. CASE Copy(t)
      BY <3>4, CopyUnseen
    <3>5. CASE FreeCAS(t) \/ PushCAS(t)
      BY <3>5, FreeSeen DEF Promise!Next
    <3> QED
      BY <2>3, <3>1, <3>2, <3>3, <3>4, <3>5 DEF Step
  <2>4. ASSUME NEW b \in Blocks, Store(b) \/ Collect(b)
        PROVE  Promise!Next \/ UNCHANGED <<Heap, Calls>>
    BY <2>4, StoreSeen, CollectUnseen DEF Promise!Next
  <2> QED
    BY <2>1, <2>2, <2>3, <2>4 DEF Next
<1> QED
  BY <1>1, <1>2, Invariant, PTL DEF Spec, KeepsPromise, Promise!Spec
==============================================================================
