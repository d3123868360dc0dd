---------------------------- MODULE MemPoolSteps -----------------------------
(***************************************************************************)
(* What the size arithmetic of the pooled allocator guarantees, and that   *)
(* the invariant IInv survives every action of MemPool: lemmas about what  *)
(* a thread owns, about steps that move blocks (Transfer, DeliverEnds,     *)
(* FreeEnds) and about steps that do not (Quiet), and one lemma per action *)
(* or outcome of a compare-and-swap.                                       *)
(***************************************************************************)
EXTENDS MemPoolInv, FiniteSetTheorems, WellFoundedInduction, TLAPS

(* Every non-empty set of naturals has a least element. *)
LEMMA LeastElement ==
  ASSUME NEW T \in SUBSET Nat, T # {}
  PROVE  \E n \in T : \A m \in T : n <= m
<1> DEFINE R == {ss \in Nat \X Nat : ss[1] < ss[2]}
<1>0. IsWellFoundedOn(R, Nat)
  BY NatLessThanWellFounded DEF OpToRel
<1>1. \E n \in T : \A m \in T : ~ (<<m, n>> \in R)
  BY <1>0, WFMin
<1>2. PICK n \in T : \A m \in T : ~ (<<m, n>> \in R)
  BY <1>1
<1>3. \A m \in T : n <= m
  <2> SUFFICES ASSUME NEW m \in T PROVE n <= m
    OBVIOUS
  <2>1. m \in Nat /\ n \in Nat /\ ~ (m < n)
    BY <1>2
  <2> QED
    BY <2>1
<1> QED
  BY <1>3

(* There is a natural number of classes, and each is one.                 *)
LEMMA ClassesAreNaturals == numClasses \in Nat /\ Classes \subseteq Nat
BY SizesAssumption DEF numClasses, Classes

(* classIndex answers with a class, or -1. *)
THEOREM ClassIndexType ==
  \A size \in Nat : ClassIndex(size) \in Classes \cup {Unpooled}
<1> SUFFICES ASSUME NEW size \in Nat, FittingClasses(size) # {}
             PROVE  ClassIndex(size) \in Classes
  BY DEF ClassIndex
<1>1. FittingClasses(size) \in SUBSET Nat
  BY ClassesAreNaturals DEF FittingClasses
<1>2. \E c \in FittingClasses(size) : \A d \in FittingClasses(size) : c <= d
  BY <1>1, LeastElement
<1> QED
  BY <1>2 DEF ClassIndex, FittingClasses

(* Every class has room for its header and some payload. *)
LEMMA BlockSizes ==
  \A c \in Classes : BlockSize(c) \in Nat /\ UsableSize(c) \in Nat
<1> SUFFICES ASSUME NEW c \in Classes
             PROVE  BlockSize(c) \in Nat /\ HeaderSize < BlockSize(c)
  BY SizesAssumption DEF UsableSize
<1>1. MinBlockShift + c \in MinBlockShift .. MaxBlockShift
  BY SizesAssumption DEF Classes, numClasses
<1> QED
  BY <1>1, SizesAssumption DEF BlockSize

(* A value below 2^WordBits is its own residue. *)
LEMMA WordSmall ==
  ASSUME NEW n \in Nat, n < 2^WordBits
  PROVE  Word(n) = n
<1> DEFINE M == 2^WordBits
<1>1. M \in Nat \ {0} /\ n < M
  BY SizesAssumption
<1> HIDE DEF M
<1>2. n % M = n
  BY <1>1
<1> QED
  BY <1>2 DEF Word, M

(* The class a request is served from has room for it, as long as adding   *)
(* the header does not wrap around.                                        *)
THEOREM ClassFits ==
  ASSUME NEW size \in Nat, size + HeaderSize < 2^WordBits,
         ClassIndex(size) \in Classes
  PROVE  size <= UsableSize(ClassIndex(size))
<1>1. Unpooled \notin Classes
  BY SizesAssumption DEF Unpooled, Classes
<1>2. FittingClasses(size) # {}
  BY <1>1 DEF ClassIndex
<1>3. FittingClasses(size) \in SUBSET Nat
  BY ClassesAreNaturals DEF FittingClasses
<1>4. \E c \in FittingClasses(size) : \A d \in FittingClasses(size) : c <= d
  BY <1>2, <1>3, LeastElement
<1>5. ClassIndex(size) \in FittingClasses(size)
  BY <1>2, <1>4 DEF ClassIndex
<1>6. Word(size + HeaderSize) <= BlockSize(ClassIndex(size))
  BY <1>5 DEF FittingClasses
<1>7. Word(size + HeaderSize) = size + HeaderSize
  BY SizesAssumption, WordSmall
<1> QED
  BY <1>6, <1>7, SizesAssumption, BlockSizes DEF UsableSize

(* Rounding down to a multiple of a. *)
LEMMA RoundDown ==
  ASSUME NEW y \in Nat, NEW a \in Nat \ {0}
  PROVE  /\ y - (y % a) \in Nat /\ (y - (y % a)) % a = 0
         /\ y - a < y - (y % a) /\ y - (y % a) <= y
<1>1. y % a \in Nat /\ y % a < a
  OBVIOUS
<1>2. y \div a \in Nat /\ y = a * (y \div a) + (y % a)
  OBVIOUS
<1>3. PICK q \in Nat : q = y \div a
  BY <1>2
<1>4. y - (y % a) = a * q
  BY <1>1, <1>2, <1>3
<1>5. (a * q) % a = 0
  OBVIOUS
<1> QED
  BY <1>1, <1>4, <1>5

(* sysAlloc never takes less than it is asked for.                         *)
LEMMA SysBytesEnough ==
  ASSUME NEW n \in Nat, n + 7 < 2^WordBits
  PROVE  SysBytes(n) \in Nat /\ n <= SysBytes(n) /\ SysBytes(n) <= n + 7
<1>1. Word(n + 7) = n + 7
  BY WordSmall
<1> QED
  BY <1>1 DEF SysBytes

(* Wherever the memory of an unpooled block lies, if it lies within the    *)
(* address space, the payload is aligned, leaves room for the header, and  *)
(* ends inside that memory (fallbackAlloc).                                *)
THEOREM FallbackLayout ==
  ASSUME NEW size \in Nat, NEW align \in Nat, NEW base \in Nat,
         size + FallbackAlign(align) + HeaderSize + 7 < 2^WordBits,
         base + FallbackBytes(size, align) <= 2^WordBits
  PROVE  /\ FallbackPayload(base, align) % FallbackAlign(align) = 0
         /\ base + HeaderSize <= FallbackPayload(base, align)
         /\ FallbackPayload(base, align) + size <= base + FallbackBytes(size, align)
<1> DEFINE a == FallbackAlign(align)
           M == 2^WordBits
           n == size + a + HeaderSize
           y == base + HeaderSize + a - 1
<1>1. a \in Nat \ {0} /\ HeaderSize \in Nat \ {0} /\ M \in Nat
  BY SizesAssumption DEF FallbackAlign
<1>2. FallbackBytes(size, align) = SysBytes(Word(n))
  BY DEF FallbackBytes
<1>3. FallbackPayload(base, align) = AlignUp(Word(base + HeaderSize), a)
  BY DEF FallbackPayload
<1> HIDE DEF a
<1>4. n + 7 < M /\ base + FallbackBytes(size, align) <= M
  BY DEF a
<1>5. n \in Nat /\ n < M /\ Word(n) = n
  BY <1>1, <1>4, WordSmall
<1>6. FallbackBytes(size, align) \in Nat /\ n <= FallbackBytes(size, align)
  BY <1>2, <1>4, <1>5, SysBytesEnough
<1>7. y \in Nat /\ y < M /\ base + HeaderSize \in Nat /\ base + HeaderSize < M
  BY <1>1, <1>4, <1>6
<1>8. Word(base + HeaderSize) = base + HeaderSize /\ Word(y) = y
  BY <1>7, WordSmall
<1>9. FallbackPayload(base, align) = y - (y % a)
  BY <1>1, <1>3, <1>8 DEF AlignUp
<1>10. y - (y % a) \in Nat /\ (y - (y % a)) % a = 0 /\ y - a < y - (y % a) /\ y - (y % a) <= y
  BY <1>1, <1>7, RoundDown
<1> QED
  BY <1>1, <1>6, <1>9, <1>10 DEF a

-----------------------------------------------------------------------------

(* What a call works with, by where it is. *)
LEMMA Operands ==
  ASSUME TypeOK, NEW t \in Threads, CallInv(t), Links
  PROVE  /\ pc[t] \in Steps /\ frame[t] \in Frames
         /\ pc[t] \in Freeing => frame[t].node \in Own(t) /\ frame[t].node \in Blocks
         /\ pc[t] \in {"free_load", "free_cas"} => magic[frame[t].node] # magicFree
         /\ pc[t] \in {"pop_next", "pop_cas"} =>
              frame[t].head \in Listed /\ word[frame[t].head] \in Ref
         /\ pc[t] \in {"pop_clear", "pop_magic"} => frame[t].head \in Own(t) /\ frame[t].head \in Blocks
         /\ frame[t].kind = "move" /\ pc[t] \in Popping \cup {"inspect", "fallback", "copy"} =>
              frame[t].ptr \in Own(t) /\ frame[t].ptr \in Blocks
         /\ DistinctParts(t)
         /\ frame[t].kind = "move" /\ pc[t] \in Freeing \cup {"copy"} =>
              frame[t].newPtr \in Own(t) /\ frame[t].newPtr \in Blocks
<1>1. CallShape(t) /\ Own(t) \subseteq Blocks /\ CallHeaders(t) /\ PopReads(t) /\ DistinctParts(t)
  BY DEF CallInv
<1>2. pc[t] \in Steps /\ frame[t] \in Frames /\ frame[t].kind # "stale"
  BY <1>1 DEF TypeOK, CallShape
<1>3. pc[t] \in Freeing => frame[t].node \in Own(t)
  BY <1>1 DEF Own, Dying, Freeing, CallShape
<1>4. pc[t] \in {"free_load", "free_cas"} => magic[frame[t].node] # magicFree
  BY <1>1 DEF CallHeaders, LiveHeader, magicFree, magicPooled, magicUnpooled
<1>5. pc[t] \in {"pop_next", "pop_cas"} => frame[t].head \in Listed /\ word[frame[t].head] \in Ref
  BY <1>1 DEF PopReads, Links, Listed, Ref
<1>6. pc[t] \in {"pop_clear", "pop_magic"} => frame[t].head \in Own(t)
  BY DEF Own, Popped
<1>7. frame[t].kind = "move" /\ pc[t] \in Popping \cup {"inspect", "fallback", "copy"} => frame[t].ptr \in Own(t)
  BY DEF Own, MovedFrom
<1>8. frame[t].kind = "move" /\ pc[t] \in Freeing \cup {"copy"} => frame[t].newPtr \in Own(t)
  BY DEF Own, MovedTo
<1> QED
  BY <1>1, <1>2, <1>3, <1>4, <1>5, <1>6, <1>7, <1>8

(* Who does not move keeps what it owns. *)
LEMMA SameParts ==
  ASSUME NEW u, pc'[u] = pc[u], frame'[u] = frame[u]
  PROVE  /\ Popped(u)' = Popped(u) /\ Dying(u)' = Dying(u)
         /\ MovedFrom(u)' = MovedFrom(u) /\ MovedTo(u)' = MovedTo(u) /\ Own(u)' = Own(u)
BY DEF Own, Popped, Dying, MovedFrom, MovedTo

(* Thread u does not move, and only blocks of W change, which are neither  *)
(* on a stack nor u's: what u relies on stays true.                        *)
LEMMA OthersKeep ==
  ASSUME IInv, NEW u \in Threads, pc'[u] = pc[u], frame'[u] = frame[u],
         NEW W, W \cap (Listed \cup Own(u)) = {},
         \A b \in Blocks \ W : /\ word'[b] = word[b] /\ magic'[b] = magic[b]
                               /\ classIdx'[b] = classIdx[b] /\ cap'[b] = cap[b],
         pc[u] \in {"pop_next", "pop_cas"} => frame[u].head \in Listed'
  PROVE  CallInv(u)'
<1>1. TypeOK /\ Links /\ CallInv(u)
  BY DEF IInv
<1>2. /\ Popped(u)' = Popped(u) /\ Dying(u)' = Dying(u)
      /\ MovedFrom(u)' = MovedFrom(u) /\ MovedTo(u)' = MovedTo(u) /\ Own(u)' = Own(u)
  BY SameParts
<1>3. Own(u)' \subseteq Blocks /\ CallShape(u)' /\ DistinctParts(u)'
  BY <1>1, <1>2 DEF CallInv, CallShape, DistinctParts
<1>4. \A b \in Own(u) : /\ word'[b] = word[b] /\ magic'[b] = magic[b]
                        /\ classIdx'[b] = classIdx[b] /\ cap'[b] = cap[b]
  BY <1>1 DEF CallInv
<1>5. CallHeaders(u)'
  <2>1. \A b \in MovedFrom(u)' \cup MovedTo(u)' : LiveHeader(b)'
    BY <1>1, <1>2, <1>4 DEF CallInv, CallHeaders, LiveHeader, Own
  <2>2. pc'[u] \in Freeing => frame[u].node \in Own(u)
    BY <1>1, Operands
  <2>3. pc'[u] \in {"pop_clear", "pop_magic"} => frame[u].head \in Own(u)
    BY <1>1, Operands
  <2>4. /\ pc'[u] \in {"free_load", "free_cas"} => LiveHeader(frame[u].node)'
        /\ pc'[u] = "free_cas" => frame'[u].seen = magic'[frame'[u].node]
    BY <1>1, <1>4, <2>2 DEF CallInv, CallHeaders, LiveHeader, Freeing
  <2>5. /\ pc'[u] \in {"push_load", "push_store", "push_cas"} => classIdx'[frame'[u].node] \in Classes
        /\ pc'[u] \in {"pop_clear", "pop_magic"} =>
             classIdx'[frame'[u].head] = ClassIndex(frame'[u].size)
    BY <1>1, <1>4, <2>2, <2>3 DEF CallInv, CallHeaders, Freeing
  <2> QED
    BY <2>1, <2>4, <2>5 DEF CallHeaders
<1>6. PopReads(u)'
  BY <1>1 DEF CallInv, PopReads, Listed
<1>7. PushLinked(u)'
  BY <1>1, <1>4, Operands DEF CallInv, PushLinked, Freeing
<1>8. CallMemory(u)'
  BY <1>1, <1>2, <1>4 DEF CallInv, CallMemory, Own
<1> QED
  BY <1>3, <1>5, <1>6, <1>7, <1>8 DEF CallInv

(* A list of different blocks is no longer than there are blocks. *)
LEMMA StackBound ==
  ASSUME NEW n \in Nat, NEW s \in [1 .. n -> Blocks], \A i, j \in 1 .. n : s[i] = s[j] => i = j
  PROVE  n \in 0 .. Cardinality(Blocks)
<1>1. s \in Injection(1 .. n, Blocks)
  BY DEF Injection, IsInjective
<1>2. IsFiniteSet(Blocks)
  BY MemPoolAssumption DEF MemPoolAssumption
<1>3. Cardinality(1 .. n) <= Cardinality(Blocks)
  BY <1>1, <1>2, FS_Injection
<1>4. Cardinality(1 .. n) = n
  BY FS_Interval
<1>5. Cardinality(Blocks) \in Nat
  BY <1>2, FS_CardinalityType
<1> QED
  BY <1>3, <1>4, <1>5

(* A step that leaves the tops, and the blocks on the stacks, alone. *)
LEMMA StacksKept ==
  ASSUME Chains, Listed' = Listed, freeLists' = freeLists,
         \A b \in Listed : word'[b] = word[b] /\ classIdx'[b] = classIdx[b]
  PROVE  Chains'
<1> SUFFICES ASSUME NEW c \in Classes, NEW n \in 0 .. Cardinality(Blocks), NEW s \in [1 .. n -> Blocks],
                    IsStack(c, n, s)
             PROVE  IsStack(c, n, s)'
  BY DEF Chains
<1>1. {b \in Listed : classIdx'[b] = c} = {b \in Listed : classIdx[b] = c}
  OBVIOUS
<1>2. \A i \in 1 .. n : s[i] \in Listed
  BY DEF IsStack
<1> QED
  BY <1>1, <1>2 DEF IsStack

(* A push puts block b on top of its stack. *)
LEMMA StackPushed ==
  ASSUME Chains, NEW c \in Classes, NEW b \in Blocks, b \notin Listed, Listed' = Listed \cup {b},
         UNCHANGED <<word, classIdx>>, classIdx[b] = c,
         word[b] = freeLists[c], freeLists'[c] = b,
         \A d \in Classes \ {c} : freeLists'[d] = freeLists[d]
  PROVE  Chains'
<1> SUFFICES ASSUME NEW d \in Classes
             PROVE  \E n \in 0 .. Cardinality(Blocks) : \E s \in [1 .. n -> Blocks] : IsStack(d, n, s)'
  BY DEF Chains
<1>1. PICK n \in 0 .. Cardinality(Blocks) : \E s \in [1 .. n -> Blocks] : IsStack(d, n, s)
  BY DEF Chains
<1>2. PICK s \in [1 .. n -> Blocks] : IsStack(d, n, s)
  BY <1>1
<1>3. n \in Nat
  OBVIOUS
<1>4. CASE d # c
  <2>1. {a \in Listed' : classIdx'[a] = d} = {a \in Listed : classIdx[a] = d}
    BY <1>4
  <2>2. IsStack(d, n, s)'
    BY <1>2, <1>4, <2>1 DEF IsStack
  <2> QED
    BY <2>2
<1>5. CASE d = c
  <2> DEFINE r == [i \in 1 .. n + 1 |-> IF i = 1 THEN b ELSE s[i - 1]]
  <2>1. r \in [1 .. n + 1 -> Blocks] /\ r[1] = b /\ \A i \in 1 .. n : r[i + 1] = s[i] 
    BY <1>3
  <2>2. \A i \in 1 .. n + 1 : i = 1 \/ (i - 1 \in 1 .. n /\ r[i] = s[i - 1])
    BY <1>3
  <2> HIDE DEF r
  <2>3. \A i \in 1 .. n : s[i] \in Listed /\ s[i] # b
    BY <1>2 DEF IsStack
  <2>4. {r[i] : i \in 1 .. n + 1} = {a \in Listed' : classIdx'[a] = c}
    <3>1. {r[i] : i \in 1 .. n + 1} = {b} \cup {s[i] : i \in 1 .. n}
      <4>1. \A x \in {r[i] : i \in 1 .. n + 1} : x \in {b} \cup {s[i] : i \in 1 .. n}
        BY <2>1, <2>2
      <4>2. \A x \in {s[i] : i \in 1 .. n} : x \in {r[i] : i \in 1 .. n + 1}
        BY <1>3, <2>1
      <4>3. b \in {r[i] : i \in 1 .. n + 1}
        BY <1>3, <2>1
      <4> QED
        BY <4>1, <4>2, <4>3
    <3>2. {a \in Listed' : classIdx'[a] = c} = {b} \cup {a \in Listed : classIdx[a] = c}
      OBVIOUS
    <3> QED
      BY <1>2, <1>5, <3>1, <3>2 DEF IsStack
  <2>5. \A i, j \in 1 .. n + 1 : r[i] = r[j] => i = j
    <3> SUFFICES ASSUME NEW i \in 1 .. n + 1, NEW j \in 1 .. n + 1, r[i] = r[j] PROVE i = j
      OBVIOUS
    <3>1. CASE i = 1 \/ j = 1
      BY <2>1, <2>2, <2>3, <3>1
    <3>2. CASE i # 1 /\ j # 1
      BY <1>2, <1>3, <2>2, <3>2 DEF IsStack
    <3> QED
      BY <3>1, <3>2
  <2>6. \A i \in 1 .. n + 1 : word'[r[i]] = IF i = n + 1 THEN NULL ELSE r[i + 1]
    <3> SUFFICES ASSUME NEW i \in 1 .. n + 1
                 PROVE  word[r[i]] = IF i = n + 1 THEN NULL ELSE r[i + 1]
      OBVIOUS
    <3>1. CASE i = 1
      BY <1>2, <1>3, <1>5, <2>1, <3>1 DEF IsStack
    <3>2. CASE i # 1
      <4>1. i - 1 \in 1 .. n /\ r[i] = s[i - 1] /\ (i # n + 1 => i \in 1 .. n /\ r[i + 1] = s[i])
        BY <1>3, <2>1, <2>2, <3>2
      <4>2. word[s[i - 1]] = IF i - 1 = n THEN NULL ELSE s[(i - 1) + 1]
        BY <1>2, <4>1 DEF IsStack
      <4> QED
        BY <1>3, <4>1, <4>2
    <3> QED
      BY <3>1, <3>2
  <2>7. n + 1 \in 0 .. Cardinality(Blocks)
    BY <1>3, <2>1, <2>5, StackBound
  <2>8. IsStack(c, n + 1, r)'
    BY <1>3, <2>1, <2>4, <2>5, <2>6 DEF IsStack
  <2> QED
    BY <1>5, <2>1, <2>7, <2>8
<1> QED
  BY <1>4, <1>5

(* A pop takes the top off its stack. *)
LEMMA StackPopped ==
  ASSUME Chains, NEW c \in Classes, NEW b \in Listed, Listed' = Listed \ {b},
         UNCHANGED <<word, classIdx>>, classIdx[b] = c,
         freeLists[c] = b, freeLists'[c] = word[b],
         \A d \in Classes \ {c} : freeLists'[d] = freeLists[d]
  PROVE  Chains'
<1> SUFFICES ASSUME NEW d \in Classes
             PROVE  \E n \in 0 .. Cardinality(Blocks) : \E s \in [1 .. n -> Blocks] : IsStack(d, n, s)'
  BY DEF Chains
<1>1. PICK n \in 0 .. Cardinality(Blocks) : \E s \in [1 .. n -> Blocks] : IsStack(d, n, s)
  BY DEF Chains
<1>2. PICK s \in [1 .. n -> Blocks] : IsStack(d, n, s)
  BY <1>1
<1>3. n \in Nat
  OBVIOUS
<1>4. CASE d # c
  <2>1. {a \in Listed' : classIdx'[a] = d} = {a \in Listed : classIdx[a] = d}
    BY <1>4
  <2>2. IsStack(d, n, s)'
    BY <1>2, <1>4, <2>1 DEF IsStack
  <2> QED
    BY <2>2
<1>5. CASE d = c
  <2>0. n # 0 /\ s[1] = b
    BY <1>2, <1>5, MemPoolAssumption DEF IsStack, Listed, MemPoolAssumption
  <2>n. PICK m \in Nat : n = m + 1
    BY <1>3, <2>0
  <2> DEFINE r == [i \in 1 .. m |-> s[i + 1]]
  <2>1. r \in [1 .. m -> Blocks] /\ \A i \in 1 .. m : i + 1 \in 1 .. n /\ r[i] = s[i + 1]
    BY <2>n
  <2> HIDE DEF r
  <2>2. \A i, j \in 1 .. n : s[i] = s[j] => i = j
    BY <1>2 DEF IsStack
  <2>3. \A i \in 1 .. n : i = 1 \/ (i - 1 \in 1 .. m /\ s[i] = r[i - 1])
    BY <2>n, <2>1
  <2>4. {r[i] : i \in 1 .. m} = {a \in Listed' : classIdx'[a] = c}
    <3>1. {r[i] : i \in 1 .. m} = {s[i] : i \in 1 .. n} \ {b}
      <4>1. \A x \in {r[i] : i \in 1 .. m} : x \in {s[i] : i \in 1 .. n} \ {b}
        <5> SUFFICES ASSUME NEW i \in 1 .. m PROVE r[i] \in {s[k] : k \in 1 .. n} \ {b}
          OBVIOUS
        <5>1. i + 1 \in 1 .. n /\ r[i] = s[i + 1] /\ i + 1 # 1 /\ 1 \in 1 .. n
          BY <2>n, <2>1
        <5> QED
          BY <2>0, <2>2, <5>1
      <4>2. \A x \in {s[i] : i \in 1 .. n} \ {b} : x \in {r[i] : i \in 1 .. m}
        BY <2>0, <2>3
      <4> QED
        BY <4>1, <4>2
    <3>2. {a \in Listed' : classIdx'[a] = c} = {a \in Listed : classIdx[a] = c} \ {b}
      OBVIOUS
    <3> QED
      BY <1>2, <1>5, <3>1, <3>2 DEF IsStack
  <2>5. \A i, j \in 1 .. m : r[i] = r[j] => i = j
    <3> SUFFICES ASSUME NEW i \in 1 .. m, NEW j \in 1 .. m, r[i] = r[j] PROVE i = j
      OBVIOUS
    <3>1. i + 1 = j + 1
      BY <2>1, <2>2
    <3> QED
      BY <3>1
  <2>6. \A i \in 1 .. m : word'[r[i]] = IF i = m THEN NULL ELSE r[i + 1]
    <3> SUFFICES ASSUME NEW i \in 1 .. m
                 PROVE  word[r[i]] = IF i = m THEN NULL ELSE r[i + 1]
      OBVIOUS
    <3>1. word[s[i + 1]] = IF i + 1 = n THEN NULL ELSE s[(i + 1) + 1]
      BY <1>2, <2>1 DEF IsStack
    <3>2. i # m => i + 1 \in 1 .. m /\ r[i + 1] = s[(i + 1) + 1]
      BY <2>n, <2>1
    <3> QED
      BY <2>n, <2>1, <3>1, <3>2
  <2>7. m \in 0 .. Cardinality(Blocks)
    BY <2>1, <2>5, StackBound
  <2>8. freeLists'[c] = IF m = 0 THEN NULL ELSE r[1]
    <3>1. word[s[1]] = IF 1 = n THEN NULL ELSE s[1 + 1]
      BY <1>2, <2>n DEF IsStack
    <3> QED
      BY <2>0, <2>n, <2>1, <3>1
  <2>9. IsStack(c, m, r)'
    BY <2>4, <2>5, <2>6, <2>8 DEF IsStack
  <2> QED
    BY <1>5, <2>1, <2>7, <2>9
<1> QED
  BY <1>4, <1>5

(* A thread that is idle relies on nothing. *)
LEMMA IdleParts ==
  ASSUME NEW t, pc[t] = "idle"
  PROVE  /\ Popped(t) = {} /\ Dying(t) = {} /\ MovedFrom(t) = {} /\ MovedTo(t) = {} /\ Own(t) = {}
BY DEF Own, Popped, Dying, MovedFrom, MovedTo, Popping, Freeing

(* A call that returned relies on nothing.                                 *)
LEMMA IdleInv ==
  ASSUME NEW t \in Threads, pc'[t] = "idle", frame'[t] = NoFrame
  PROVE  CallInv(t)' /\ Own(t)' = {}
<1>1. /\ Popped(t)' = {} /\ Dying(t)' = {} /\ MovedFrom(t)' = {} /\ MovedTo(t)' = {} /\ Own(t)' = {}
  BY DEF Own, Popped, Dying, MovedFrom, MovedTo, Popping, Freeing
<1>2. CallShape(t)'
  BY DEF CallShape, NoFrame, Freeing, Popping
<1> QED
  BY <1>1, <1>2 DEF CallInv, CallHeaders, PopReads, PushLinked, CallMemory, DistinctParts

(* Thread t moves blocks between itself, the holders and the heap; the     *)
(* stacks stay as they are.                                                *)
LEMMA Transfer ==
  ASSUME IInv, NEW t \in Threads, freeLists' = freeLists,
         \A u \in Threads \ {t} : pc'[u] = pc[u] /\ frame'[u] = frame[u],
         \A b \in Blocks \ (Own(t) \cup held \cup fresh) :
            /\ word'[b] = word[b] /\ magic'[b] = magic[b]
            /\ classIdx'[b] = classIdx[b] /\ cap'[b] = cap[b],
         Own(t)' \cup held' \cup fresh' \subseteq Own(t) \cup held \cup fresh,
         \A b \in (Own(t) \cup held \cup fresh) \ (Own(t)' \cup held' \cup fresh') :
            classIdx'[b] \notin Classes,
         held' \cap fresh' = {}, Own(t)' \cap (held' \cup fresh') = {}
  PROVE  /\ SingleOwner' /\ Links' /\ Chains' /\ Listed' = Listed
         /\ \A u \in Threads \ {t} : CallInv(u)'
<1>1. TypeOK /\ SingleOwner /\ Links /\ Chains
  BY DEF IInv
<1>2. \A u \in Threads \ {t} : Own(u)' = Own(u)
  BY SameParts
<1>3. Listed' = Listed
  <2>1. ASSUME NEW b \in Listed PROVE b \in Listed'
    BY <1>2, <2>1 DEF Listed
  <2>2. ASSUME NEW b \in Listed' PROVE b \in Listed
    BY <1>2, <2>2 DEF Listed
  <2> QED
    BY <2>1, <2>2
<1>4. SingleOwner'
  <2>1. \A u \in Threads \ {t} : Own(u)' \cap (held' \cup fresh') = {} /\ Own(u)' \cap Own(t)' = {}
    BY <1>1, <1>2 DEF SingleOwner
  <2> QED
    BY <1>1, <1>2, <1>3, <2>1 DEF SingleOwner
<1>5. \A b \in Listed : b \in Blocks \ (Own(t) \cup held \cup fresh)
  BY DEF Listed
<1>6. Links'
  BY <1>1, <1>3, <1>5 DEF Links, SingleOwner
<1>7. ASSUME NEW u \in Threads \ {t} PROVE CallInv(u)'
  <2>1. (Own(t) \cup held \cup fresh) \cap (Listed \cup Own(u)) = {}
    BY <1>1 DEF SingleOwner, Listed
  <2>2. pc[u] \in {"pop_next", "pop_cas"} => frame[u].head \in Listed'
    BY <1>3 DEF IInv, CallInv, PopReads
  <2> QED
    BY <2>1, <2>2, OthersKeep
<1>8. Chains'
  BY <1>1, <1>3, <1>5, StacksKept
<1> QED
  BY <1>3, <1>4, <1>6, <1>7, <1>8

(* Thread t works on blocks it owns and keeps them.                        *)
LEMMA Quiet ==
  ASSUME IInv, NEW t \in Threads, TypeOK', CallInv(t)',
         UNCHANGED <<freeLists, classIdx, cap, fresh, held, want, stored>>,
         \A u \in Threads \ {t} : pc'[u] = pc[u] /\ frame'[u] = frame[u],
         \A b \in Blocks \ Own(t) : word'[b] = word[b] /\ magic'[b] = magic[b],
         \A b \in stored : word'[b] = word[b],
         Own(t)' = Own(t), MovedFrom(t) \subseteq MovedFrom(t)', MovedTo(t) \subseteq MovedTo(t)',
         frame'[t].old = frame[t].old, pc'[t] # "copy"
  PROVE  IInv'
<1>1. TypeOK /\ SingleOwner /\ Memory /\ Fits
  BY DEF IInv
<1>2. held \cap Own(t) = {} /\ held \cap fresh = {} /\ Own(t) \cap fresh = {}
  BY <1>1 DEF SingleOwner
<1>3. SingleOwner' /\ Links' /\ Chains' /\ \A u \in Threads \ {t} : CallInv(u)'
  BY <1>2, Transfer
<1>4. \A b \in held' : LiveHeader(b)'
  BY <1>1, <1>2 DEF IInv, LiveHeader, TypeOK
<1>5. Memory' /\ Fits'
  BY <1>1 DEF Memory, Fits
<1>6. PayloadIntact'
  BY DEF IInv, PayloadIntact
<1>7. \A b \in stored' : HasParty(b)'
  <2>1. \A u \in Threads \ {t} : MovedFrom(u)' = MovedFrom(u) /\ MovedTo(u)' = MovedTo(u)
    BY SameParts
  <2> QED
    BY <2>1 DEF IInv, HasParty
<1> QED
  BY <1>3, <1>4, <1>5, <1>6, <1>7 DEF IInv

(* Room for the padding is room for the header.                            *)
LEMMA PaddedHasHeader ==
  ASSUME NEW size \in Nat, NEW align \in Nat, Padded(size, align)
  PROVE  size + HeaderSize < 2^WordBits
BY SizesAssumption DEF Padded, FallbackAlign

(* Room for a request is room for an empty one of that alignment.         *)
LEMMA PaddedZero ==
  ASSUME NEW size \in Nat, NEW align \in Nat, Padded(size, align)
  PROVE  Padded(0, align)
BY SizesAssumption DEF Padded, FallbackAlign

(* Alignment that is already padded stays as it is.                        *)
LEMMA PaddedAlign ==
  ASSUME NEW size, NEW align \in Nat, Padded(size, align)
  PROVE  Padded(size, FallbackAlign(align))
BY SizesAssumption DEF Padded, FallbackAlign

(* One lemma per action.  A request enters the allocator.                  *)
LEMMA MallocStep ==
  ASSUME IInv, CorrectCallers, NEW t \in Threads, NEW r \in Requests, Malloc(t, r)
  PROVE  IInv'
<1> DEFINE size == r.size
           align == r.align
<1>1. TypeOK /\ CallInv(t)
  BY DEF IInv
<1>2. /\ pc[t] = "idle" /\ t \in Allocators
      /\ pc' = [pc EXCEPT ![t] = PoolAllocEntry(size, align)]
      /\ frame' = [frame EXCEPT ![t] =
           [NoFrame EXCEPT !.kind = "malloc", !.size = size, !.align = align]]
      /\ UNCHANGED <<heapVars, callerVars>>
  BY DEF Malloc, Goto
<1>3. /\ pc'[t] = PoolAllocEntry(size, align)
      /\ frame'[t] = [NoFrame EXCEPT !.kind = "malloc", !.size = size, !.align = align]
      /\ size \in Nat /\ align \in Nat
  BY <1>1, <1>2, MemPoolAssumption DEF TypeOK, MemPoolAssumption
<1>4. frame'[t] \in Frames /\ PoolAllocEntry(size, align) \in {"pop_load", "fallback"}
  <2>1. NoFrame \in Frames
    BY DEF Frames, NoFrame, Kinds, Ref, Magics
  <2>2. [NoFrame EXCEPT !.kind = "malloc", !.size = size, !.align = align] \in Frames
    BY <1>3, <2>1 DEF Frames, Kinds
  <2> QED
    BY <1>3, <2>2 DEF PoolAllocEntry
<1>5. TypeOK'
  BY <1>1, <1>2, <1>4 DEF TypeOK, heapVars, callerVars, Steps, Popping
<1>6. /\ Popped(t)' = {} /\ Dying(t)' = {} /\ MovedFrom(t)' = {} /\ MovedTo(t)' = {} /\ Own(t)' = {}
  BY <1>3, <1>4 DEF Own, Popped, Dying, MovedFrom, MovedTo, Freeing, NoFrame
<1>7. CallInv(t)'
  <2>1. pc'[t] \in Popping => ClassIndex(size) \in Classes /\ align <= HeaderSize
    BY <1>3, ClassIndexType, SizesAssumption DEF PoolAllocEntry, Popping, SizesAssumption
  <2>2. Padded(size, align)
    BY DEF CorrectCallers
  <2>3. frame'[t].kind = "malloc" /\ frame'[t].size = size /\ frame'[t].align = align
    BY <1>3 DEF NoFrame
  <2>4. CallShape(t)'
    BY <1>2, <1>3, <1>4, <2>1, <2>2, <2>3 DEF CallShape, Popping, Freeing
  <2> QED
    BY <1>3, <1>4, <1>6, <2>4 DEF CallInv, CallHeaders, PopReads, PushLinked, CallMemory, DistinctParts
<1>8. /\ Own(t) = {} /\ MovedFrom(t) = {} /\ MovedTo(t) = {}
      /\ frame[t].old = frame'[t].old
      /\ \A u \in Threads \ {t} : pc'[u] = pc[u] /\ frame'[u] = frame[u]
  BY <1>1, <1>2, <1>3, IdleParts DEF CallInv, CallShape, NoFrame, TypeOK
<1> QED
  BY <1>2, <1>3, <1>4, <1>5, <1>6, <1>7, <1>8, Quiet DEF heapVars, callerVars

(* An assignment to a local keeps the frame well formed, and its other     *)
(* fields.                                                                 *)
LEMMA LocalUpdates ==
  ASSUME NEW f \in Frames, NEW v \in Ref, NEW m \in Magics
  PROVE  /\ [f EXCEPT !.head = v] \in Frames /\ [f EXCEPT !.next = v] \in Frames
         /\ [f EXCEPT !.node = v] \in Frames /\ [f EXCEPT !.newPtr = v] \in Frames
         /\ [f EXCEPT !.seen = m] \in Frames
BY DEF Frames

(* The parts of the invariant that concern one thread.                     *)
LEMMA InvOf ==
  ASSUME IInv, NEW t \in Threads
  PROVE  TypeOK /\ SingleOwner /\ Links /\ CallInv(t) /\ Own(t) \subseteq Blocks /\ DistinctParts(t)
         /\ CallShape(t) /\ CallHeaders(t) /\ PopReads(t) /\ PushLinked(t) /\ CallMemory(t)
BY DEF IInv, CallInv

(* popBlock reads the top of its stack: a block that is nobody's.          *)
LEMMA PopLoadStep ==
  ASSUME IInv, NEW t \in Threads, PopLoad(t)
  PROVE  IInv'
<1> DEFINE top == freeLists[ClassIndex(frame[t].size)]
<1>1. TypeOK /\ SingleOwner /\ Links /\ CallInv(t) /\ CallShape(t) /\ CallHeaders(t) /\ CallMemory(t)
  BY InvOf
<1>2. pc[t] = "pop_load" /\ frame[t] \in Frames /\ ClassIndex(frame[t].size) \in Classes
  BY <1>1 DEF PopLoad, TypeOK, CallShape, Popping
<1>3. /\ frame' = [frame EXCEPT ![t] = [frame[t] EXCEPT !.head = top]]
      /\ pc' = [pc EXCEPT ![t] = IF top = NULL THEN "grow" ELSE "pop_next"]
      /\ UNCHANGED <<freeLists, word, magic, classIdx, cap, fresh, held, want, stored>>
  BY DEF PopLoad, Goto, heapVars, callerVars
<1>4. top \in Listed \cup {NULL} /\ (top # NULL => classIdx[top] = ClassIndex(frame[t].size))
  BY <1>1, <1>2 DEF SingleOwner, Links
<1> HIDE DEF top
<1>5. /\ pc'[t] = IF top = NULL THEN "grow" ELSE "pop_next"
      /\ frame'[t] = [frame[t] EXCEPT !.head = top] /\ frame'[t] \in Frames
      /\ \A u \in Threads \ {t} : pc'[u] = pc[u] /\ frame'[u] = frame[u]
  BY <1>1, <1>2, <1>3, <1>4, LocalUpdates DEF TypeOK, Ref, Listed, Magics
<1>6. TypeOK'
  BY <1>1, <1>3, <1>5 DEF TypeOK, Steps, Popping
<1>7. /\ Popped(t)' = {} /\ Dying(t)' = {} /\ MovedFrom(t)' = MovedFrom(t) /\ MovedTo(t)' = {}
      /\ Own(t)' = Own(t) /\ MovedTo(t) = {}
  BY <1>2, <1>5 DEF Own, Popped, Dying, MovedFrom, MovedTo, Freeing, Popping, Frames
<1>8. CallInv(t)'
  <2>1. /\ frame'[t].head = top /\ frame'[t].size = frame[t].size /\ frame'[t].align = frame[t].align
        /\ frame'[t].kind = frame[t].kind /\ frame'[t].old = frame[t].old
    BY <1>2, <1>5 DEF Frames
  <2>2. CallShape(t)'
    BY <1>1, <1>2, <1>5, <2>1 DEF CallShape, Popping, Freeing
  <2>3. CallHeaders(t)' /\ CallMemory(t)'
    BY <1>1, <1>3, <1>5, <1>7, <2>1 DEF CallHeaders, CallMemory, LiveHeader
  <2>4. Listed' = Listed
    BY <1>3, <1>5, <1>7, SameParts DEF Listed
  <2>5. PopReads(t)' /\ PushLinked(t)'
    BY <1>3, <1>4, <1>5, <2>1, <2>4 DEF PopReads, PushLinked
  <2> QED
    BY <1>1, <1>7, <2>2, <2>3, <2>5 DEF CallInv, DistinctParts
<1> QED
  BY <1>2, <1>3, <1>5, <1>6, <1>7, <1>8, Quiet DEF Frames

(* popBlock reads the successor of the top.                                *)
LEMMA PopNextStep ==
  ASSUME IInv, NEW t \in Threads, PopNext(t)
  PROVE  IInv'
<1> DEFINE after == word[frame[t].head]
<1>1. TypeOK /\ SingleOwner /\ Links /\ CallInv(t) /\ CallShape(t) /\ CallHeaders(t) /\ PopReads(t) /\ CallMemory(t)
  BY InvOf
<1>2. /\ pc[t] = "pop_next" /\ frame[t] \in Frames /\ frame[t].head \in Listed /\ after \in Ref
      /\ frame' = [frame EXCEPT ![t] = [frame[t] EXCEPT !.next = after]]
      /\ pc' = [pc EXCEPT ![t] = "pop_cas"]
      /\ UNCHANGED <<freeLists, word, magic, classIdx, cap, fresh, held, want, stored>>
  BY <1>1, Operands DEF PopNext, Goto, heapVars, callerVars
<1>3. after = word[frame[t].head]
  OBVIOUS
<1> HIDE DEF after
<1>4. /\ pc'[t] = "pop_cas"
      /\ frame'[t] = [frame[t] EXCEPT !.next = after] /\ frame'[t] \in Frames
      /\ \A u \in Threads \ {t} : pc'[u] = pc[u] /\ frame'[u] = frame[u]
  BY <1>1, <1>2, LocalUpdates DEF TypeOK, Magics
<1>5. TypeOK'
  BY <1>1, <1>2, <1>4 DEF TypeOK, Steps, Popping
<1>6. /\ Popped(t)' = {} /\ Dying(t)' = {} /\ MovedFrom(t)' = MovedFrom(t) /\ MovedTo(t)' = {}
      /\ Own(t)' = Own(t) /\ MovedTo(t) = {}
  BY <1>2, <1>4 DEF Own, Popped, Dying, MovedFrom, MovedTo, Freeing, Popping, Frames
<1>7. CallInv(t)'
  <2>1. /\ frame'[t].head = frame[t].head /\ frame'[t].next = after
        /\ frame'[t].size = frame[t].size /\ frame'[t].align = frame[t].align
        /\ frame'[t].kind = frame[t].kind /\ frame'[t].old = frame[t].old
    BY <1>2, <1>4 DEF Frames
  <2>2. CallShape(t)'
    BY <1>1, <1>2, <1>4, <2>1 DEF CallShape, Popping, Freeing
  <2>3. CallHeaders(t)' /\ CallMemory(t)'
    BY <1>1, <1>2, <1>4, <1>6, <2>1 DEF CallHeaders, CallMemory, LiveHeader
  <2>4. Listed' = Listed
    BY <1>2, <1>4, <1>6, SameParts DEF Listed
  <2>5. PopReads(t)' /\ PushLinked(t)'
    BY <1>1, <1>2, <1>3, <1>4, <2>1, <2>4 DEF PopReads, PushLinked
  <2> QED
    BY <1>1, <1>6, <2>2, <2>3, <2>5 DEF CallInv, DistinctParts
<1> QED
  BY <1>2, <1>4, <1>5, <1>6, <1>7, Quiet DEF Frames

(* A failed compare-and-swap of popBlock: it starts over.                  *)
LEMMA PopRetryStep ==
  ASSUME IInv, NEW t \in Threads, PopCAS(t),
         freeLists[ClassIndex(frame[t].size)] # frame[t].head
  PROVE  IInv'
<1>1. TypeOK /\ SingleOwner /\ Links /\ CallInv(t) /\ CallShape(t) /\ CallHeaders(t) /\ CallMemory(t)
  BY InvOf
<1>2. /\ pc[t] = "pop_cas" /\ pc' = [pc EXCEPT ![t] = "pop_load"]
      /\ UNCHANGED <<freeLists, word, magic, classIdx, cap, fresh, held, want, stored, frame>>
  BY DEF PopCAS, Goto, callerVars
<1>3. /\ pc'[t] = "pop_load" /\ frame'[t] = frame[t]
      /\ \A u \in Threads \ {t} : pc'[u] = pc[u] /\ frame'[u] = frame[u]
  BY <1>1, <1>2 DEF TypeOK
<1>4. TypeOK'
  BY <1>1, <1>2 DEF TypeOK, Steps, Popping
<1>5. /\ Popped(t)' = {} /\ Dying(t)' = {} /\ MovedFrom(t)' = MovedFrom(t) /\ MovedTo(t)' = {}
      /\ Own(t)' = Own(t) /\ MovedTo(t) = {}
  BY <1>2, <1>3 DEF Own, Popped, Dying, MovedFrom, MovedTo, Freeing, Popping
<1>6. CallInv(t)'
  <2>1. CallShape(t)'
    BY <1>1, <1>2, <1>3 DEF CallShape, Popping, Freeing
  <2>2. CallHeaders(t)' /\ CallMemory(t)' /\ PopReads(t)' /\ PushLinked(t)'
    BY <1>1, <1>2, <1>3, <1>5 DEF CallHeaders, CallMemory, LiveHeader, PopReads, PushLinked
  <2> QED
    BY <1>1, <1>5, <2>1, <2>2 DEF CallInv, DistinctParts
<1> QED
  BY <1>2, <1>3, <1>4, <1>5, <1>6, Quiet

(* A successful one takes the top off its stack.                           *)
LEMMA PopStep ==
  ASSUME IInv, CorrectCallers, NEW t \in Threads, PopCAS(t),
         freeLists[ClassIndex(frame[t].size)] = frame[t].head
  PROVE  IInv'
<1> DEFINE c == ClassIndex(frame[t].size)
           h == frame[t].head
<1>1. TypeOK /\ SingleOwner /\ Links /\ CallInv(t) /\ CallShape(t) /\ CallHeaders(t) /\ PopReads(t) /\ CallMemory(t)
  BY InvOf
<1>2. /\ pc[t] = "pop_cas" /\ pc' = [pc EXCEPT ![t] = "pop_clear"]
      /\ freeLists' = [freeLists EXCEPT ![c] = frame[t].next]
      /\ UNCHANGED <<word, magic, classIdx, cap, fresh, held, want, stored, frame>>
  BY DEF PopCAS, Goto, callerVars
<1>3. /\ pc'[t] = "pop_clear" /\ frame'[t] = frame[t]
      /\ \A u \in Threads \ {t} : pc'[u] = pc[u] /\ frame'[u] = frame[u]
  BY <1>1, <1>2 DEF TypeOK
<1>4. /\ c \in Classes /\ h \in Listed /\ h \in Blocks /\ classIdx[h] = c /\ freeLists[c] = h
      /\ frame[t].next = word[h] /\ frame[t].kind # "free"
  BY <1>1, <1>2 DEF PopReads, CallShape, Popping, Freeing, Listed
<1>5. word[h] \in Listed \cup {NULL} /\ word[h] # h /\ (word[h] # NULL => classIdx[word[h]] = c)
  <2>1. h # NULL
    BY <1>4, MemPoolAssumption DEF MemPoolAssumption
  <2> QED
    BY <1>1, <1>4, <2>1 DEF Links
<1>6. TypeOK'
  BY <1>1, <1>2, <1>4, <1>5 DEF TypeOK, Steps, Popping, Ref, Listed
<1>7. /\ Popped(t)' = {h} /\ Dying(t)' = {} /\ MovedFrom(t)' = MovedFrom(t) /\ MovedTo(t)' = {}
      /\ Own(t)' = Own(t) \cup {h} /\ MovedTo(t) = {}
  BY <1>2, <1>3 DEF Own, Popped, Dying, MovedFrom, MovedTo, Freeing, Popping
<1>8. Listed' = Listed \ {h}
  BY <1>1, <1>2, <1>3, <1>4, <1>7, SameParts DEF Listed
<1> HIDE DEF c, h
<1>9. freeLists'[c] = word[h] /\ \A d \in Classes \ {c} : freeLists'[d] = freeLists[d]
  BY <1>1, <1>2, <1>4 DEF TypeOK
<1>10. SingleOwner'
  <2>1. h \notin held \cup fresh /\ \A u \in Threads : h \notin Own(u)
    BY <1>4 DEF Listed
  <2>2. \A d \in Classes : freeLists'[d] \in Listed' \cup {NULL}
    BY <1>1, <1>4, <1>5, <1>8, <1>9 DEF SingleOwner, Links
  <2>3. \A u \in Threads \ {t} : Own(u)' = Own(u)
    BY <1>3, SameParts
  <2> QED
    BY <1>1, <1>2, <1>7, <2>1, <2>2, <2>3 DEF SingleOwner
<1>11. Links'
  BY <1>1, <1>2, <1>4, <1>5, <1>8, <1>9 DEF Links, SingleOwner
<1>12. CallInv(t)'
  <2>1. CallShape(t)'
    BY <1>1, <1>2, <1>3 DEF CallShape, Popping, Freeing
  <2>2. CallHeaders(t)' /\ CallMemory(t)' /\ PopReads(t)' /\ PushLinked(t)'
    BY <1>1, <1>2, <1>3, <1>4, <1>7 DEF CallHeaders, CallMemory, LiveHeader, PopReads, PushLinked, c, h
  <2>3. h \notin MovedFrom(t)
    BY <1>4 DEF Listed, Own
  <2> QED
    BY <1>1, <1>4, <1>7, <2>1, <2>2, <2>3 DEF CallInv, DistinctParts
<1>13. ASSUME NEW u \in Threads \ {t} PROVE CallInv(u)'
  <2>1. pc[u] \notin {"pop_next", "pop_cas"}
    BY <1>1, <1>4, InvOf DEF CallShape, CorrectCallers, Popping, Freeing
  <2> DEFINE W == {}
  <2>2. W \cap (Listed \cup Own(u)) = {}
    OBVIOUS
  <2> QED
    BY <1>2, <1>3, <2>1, <2>2, OthersKeep
<1>14. (\A b \in held' : LiveHeader(b)') /\ Memory' /\ Fits' /\ PayloadIntact'
  BY <1>2 DEF IInv, LiveHeader, Memory, Fits, PayloadIntact
<1>15. \A b \in stored' : HasParty(b)'
  <2>1. \A u \in Threads : MovedFrom(u) \subseteq MovedFrom(u)' /\ MovedTo(u) \subseteq MovedTo(u)'
    BY <1>3, <1>7, SameParts
  <2> QED
    BY <1>2, <1>3, <2>1 DEF IInv, HasParty
<1>16. Chains'
  BY <1>2, <1>4, <1>8, <1>9, StackPopped DEF IInv
<1> QED
  BY <1>6, <1>10, <1>11, <1>12, <1>13, <1>14, <1>15, <1>16 DEF IInv

(* popBlock cuts the link of the block it took.                            *)
LEMMA PopClearStep ==
  ASSUME IInv, NEW t \in Threads, PopClear(t)
  PROVE  IInv'
<1> DEFINE h == frame[t].head
<1>1. TypeOK /\ SingleOwner /\ Links /\ CallInv(t) /\ CallShape(t) /\ CallHeaders(t) /\ CallMemory(t)
  BY InvOf
<1>2. /\ pc[t] = "pop_clear" /\ h \in Own(t) /\ h \in Blocks
      /\ word' = [word EXCEPT ![h] = NULL]
      /\ pc' = [pc EXCEPT ![t] = "pop_magic"]
      /\ UNCHANGED <<freeLists, magic, classIdx, cap, fresh, held, want, stored, frame>>
  BY <1>1, Operands DEF PopClear, Goto, callerVars
<1>3. /\ pc'[t] = "pop_magic" /\ frame'[t] = frame[t]
      /\ \A u \in Threads \ {t} : pc'[u] = pc[u] /\ frame'[u] = frame[u]
  BY <1>1, <1>2 DEF TypeOK
<1>4. TypeOK'
  BY <1>1, <1>2 DEF TypeOK, Steps, Popping, Ref
<1>5. /\ Popped(t)' = {h} /\ Dying(t)' = {} /\ MovedFrom(t)' = MovedFrom(t) /\ MovedTo(t)' = {}
      /\ Own(t)' = Own(t) /\ MovedTo(t) = {} /\ Popped(t) = {h}
  BY <1>2, <1>3 DEF Own, Popped, Dying, MovedFrom, MovedTo, Freeing, Popping
<1>6. CallInv(t)'
  <2>1. CallShape(t)'
    BY <1>1, <1>2, <1>3 DEF CallShape, Popping, Freeing
  <2>2. CallHeaders(t)' /\ CallMemory(t)' /\ PopReads(t)' /\ PushLinked(t)'
    BY <1>1, <1>2, <1>3, <1>5 DEF CallHeaders, CallMemory, LiveHeader, PopReads, PushLinked
  <2> QED
    BY <1>1, <1>5, <2>1, <2>2 DEF CallInv, DistinctParts
<1>7. \A b \in stored : word'[b] = word[b]
  <2>1. ASSUME NEW b \in stored PROVE b # h
    <3>1. h \notin held /\ \A u \in Threads \ {t} : h \notin Own(u)
      BY <1>1, <1>2 DEF SingleOwner
    <3>2. h \notin MovedFrom(t) /\ h \notin MovedTo(t)
      BY <1>1, <1>2, <1>5 DEF CallInv, DistinctParts, Popped
    <3> QED
      BY <3>1, <3>2, <2>1 DEF IInv, HasParty, Own
  <2> QED
    BY <1>1, <1>2, <2>1 DEF TypeOK
<1> QED
  BY <1>1, <1>2, <1>3, <1>4, <1>5, <1>6, <1>7, Quiet DEF TypeOK

(* pushBlock reads the top of the stack.                                   *)
LEMMA PushLoadStep ==
  ASSUME IInv, NEW t \in Threads, PushLoad(t)
  PROVE  IInv'
<1> DEFINE top == freeLists[classIdx[frame[t].node]]
<1>1. TypeOK /\ SingleOwner /\ Links /\ CallInv(t) /\ CallShape(t) /\ CallHeaders(t) /\ CallMemory(t)
  BY InvOf
<1>2. pc[t] = "push_load" /\ frame[t] \in Frames /\ classIdx[frame[t].node] \in Classes /\ top \in Ref
  BY <1>1 DEF PushLoad, TypeOK, CallHeaders
<1>3. /\ frame' = [frame EXCEPT ![t] = [frame[t] EXCEPT !.head = top]]
      /\ pc' = [pc EXCEPT ![t] = "push_store"]
      /\ UNCHANGED <<freeLists, word, magic, classIdx, cap, fresh, held, want, stored>>
  BY DEF PushLoad, Goto, heapVars, callerVars
<1> HIDE DEF top
<1>4. /\ pc'[t] = "push_store"
      /\ frame'[t] = [frame[t] EXCEPT !.head = top] /\ frame'[t] \in Frames
      /\ \A u \in Threads \ {t} : pc'[u] = pc[u] /\ frame'[u] = frame[u]
  BY <1>1, <1>2, <1>3, LocalUpdates DEF TypeOK, Magics
<1>5. TypeOK'
  BY <1>1, <1>3, <1>4 DEF TypeOK, Steps, Freeing
<1>6. /\ Popped(t)' = {} /\ Dying(t)' = Dying(t) /\ MovedFrom(t)' = {} /\ MovedTo(t)' = MovedTo(t)
      /\ Own(t)' = Own(t) /\ MovedFrom(t) = {}
  BY <1>2, <1>4 DEF Own, Popped, Dying, MovedFrom, MovedTo, Freeing, Popping, Frames
<1>7. CallInv(t)'
  <2>1. /\ frame'[t].node = frame[t].node /\ frame'[t].size = frame[t].size
        /\ frame'[t].align = frame[t].align /\ frame'[t].kind = frame[t].kind
        /\ frame'[t].old = frame[t].old
    BY <1>2, <1>4 DEF Frames
  <2>2. CallShape(t)'
    BY <1>1, <1>2, <1>4, <2>1 DEF CallShape, Popping, Freeing
  <2>3. CallHeaders(t)' /\ CallMemory(t)' /\ PopReads(t)' /\ PushLinked(t)'
    BY <1>1, <1>2, <1>3, <1>4, <1>6, <2>1
       DEF CallHeaders, CallMemory, LiveHeader, PopReads, PushLinked
  <2> QED
    BY <1>1, <1>6, <2>2, <2>3 DEF CallInv, DistinctParts
<1> QED
  BY <1>2, <1>3, <1>4, <1>5, <1>6, <1>7, Quiet DEF Frames

(* pushBlock links its block to the top it has read.                       *)
LEMMA PushStoreStep ==
  ASSUME IInv, NEW t \in Threads, PushStore(t)
  PROVE  IInv'
<1> DEFINE n == frame[t].node
<1>1. TypeOK /\ SingleOwner /\ Links /\ CallInv(t) /\ CallShape(t) /\ CallHeaders(t) /\ CallMemory(t)
  BY InvOf
<1>2. /\ pc[t] = "push_store" /\ n \in Own(t) /\ n \in Blocks /\ frame[t] \in Frames
      /\ word' = [word EXCEPT ![n] = frame[t].head]
      /\ pc' = [pc EXCEPT ![t] = "push_cas"]
      /\ UNCHANGED <<freeLists, magic, classIdx, cap, fresh, held, want, stored, frame>>
  BY <1>1, Operands DEF PushStore, Goto, callerVars, Freeing
<1>3. /\ pc'[t] = "push_cas" /\ frame'[t] = frame[t] /\ frame[t].head \in Ref
      /\ word'[n] = frame[t].head
      /\ \A u \in Threads \ {t} : pc'[u] = pc[u] /\ frame'[u] = frame[u]
  BY <1>1, <1>2 DEF TypeOK, Frames
<1>4. TypeOK'
  BY <1>1, <1>2, <1>3 DEF TypeOK, Steps, Freeing
<1>5. /\ Popped(t)' = {} /\ Dying(t)' = Dying(t) /\ MovedFrom(t)' = {} /\ MovedTo(t)' = MovedTo(t)
      /\ Own(t)' = Own(t) /\ MovedFrom(t) = {} /\ Dying(t) = {n}
  BY <1>2, <1>3 DEF Own, Popped, Dying, MovedFrom, MovedTo, Freeing, Popping
<1>6. CallInv(t)'
  <2>1. CallShape(t)'
    BY <1>1, <1>2, <1>3 DEF CallShape, Popping, Freeing
  <2>2. CallHeaders(t)' /\ CallMemory(t)' /\ PopReads(t)' /\ PushLinked(t)'
    BY <1>1, <1>2, <1>3, <1>5 DEF CallHeaders, CallMemory, LiveHeader, PopReads, PushLinked
  <2> QED
    BY <1>1, <1>5, <2>1, <2>2 DEF CallInv, DistinctParts
<1>7. \A b \in stored : word'[b] = word[b]
  <2>1. ASSUME NEW b \in stored PROVE b # n
    <3>1. n \notin held /\ \A u \in Threads \ {t} : n \notin Own(u)
      BY <1>1, <1>2 DEF SingleOwner
    <3>2. n \notin MovedFrom(t) /\ n \notin MovedTo(t)
      BY <1>1, <1>5 DEF CallInv, DistinctParts
    <3> QED
      BY <3>1, <3>2, <2>1 DEF IInv, HasParty, Own
  <2> QED
    BY <1>1, <1>2, <2>1 DEF TypeOK
<1> QED
  BY <1>1, <1>2, <1>3, <1>4, <1>5, <1>6, <1>7, Quiet DEF TypeOK

(* A failed compare-and-swap of pushBlock: it starts over.                 *)
LEMMA PushRetryStep ==
  ASSUME IInv, NEW t \in Threads, PushCAS(t),
         freeLists[classIdx[frame[t].node]] # frame[t].head
  PROVE  IInv'
<1>1. TypeOK /\ SingleOwner /\ Links /\ CallInv(t) /\ CallShape(t) /\ CallHeaders(t) /\ CallMemory(t)
  BY InvOf
<1>2. /\ pc[t] = "push_cas" /\ pc' = [pc EXCEPT ![t] = "push_load"]
      /\ UNCHANGED <<freeLists, word, magic, classIdx, cap, fresh, held, want, stored, frame>>
  BY DEF PushCAS, Goto, Continue
<1>3. /\ pc'[t] = "push_load" /\ frame'[t] = frame[t]
      /\ \A u \in Threads \ {t} : pc'[u] = pc[u] /\ frame'[u] = frame[u]
  BY <1>1, <1>2 DEF TypeOK
<1>4. TypeOK'
  BY <1>1, <1>2 DEF TypeOK, Steps, Freeing
<1>5. /\ Popped(t)' = {} /\ Dying(t)' = Dying(t) /\ MovedFrom(t)' = {} /\ MovedTo(t)' = MovedTo(t)
      /\ Own(t)' = Own(t) /\ MovedFrom(t) = {}
  BY <1>2, <1>3 DEF Own, Popped, Dying, MovedFrom, MovedTo, Freeing, Popping
<1>6. CallInv(t)'
  <2>1. CallShape(t)'
    BY <1>1, <1>2, <1>3 DEF CallShape, Popping, Freeing
  <2>2. CallHeaders(t)' /\ CallMemory(t)' /\ PopReads(t)' /\ PushLinked(t)'
    BY <1>1, <1>2, <1>3, <1>5 DEF CallHeaders, CallMemory, LiveHeader, PopReads, PushLinked
  <2> QED
    BY <1>1, <1>5, <2>1, <2>2 DEF CallInv, DistinctParts
<1> QED
  BY <1>2, <1>3, <1>4, <1>5, <1>6, Quiet

(* cabi_free finds a live header.                                          *)
LEMMA FreeLoadStep ==
  ASSUME IInv, NEW t \in Threads, FreeLoad(t)
  PROVE  IInv'
<1> DEFINE m == magic[frame[t].node]
<1>1. TypeOK /\ SingleOwner /\ Links /\ CallInv(t) /\ CallShape(t) /\ CallHeaders(t) /\ CallMemory(t)
  BY InvOf
<1>2. pc[t] = "free_load" /\ frame[t] \in Frames /\ frame[t].node \in Blocks /\ m # magicFree /\ m \in Magics
  <2>1. pc[t] = "free_load"
    BY DEF FreeLoad
  <2> QED
    BY <1>1, <2>1, Operands DEF Freeing, TypeOK
<1>3. /\ frame' = [frame EXCEPT ![t] = [frame[t] EXCEPT !.seen = m]]
      /\ pc' = [pc EXCEPT ![t] = "free_cas"]
      /\ UNCHANGED <<freeLists, word, magic, classIdx, cap, fresh, held, want, stored>>
  BY <1>2 DEF FreeLoad, Goto, heapVars
<1>4. m = magic[frame[t].node]
  OBVIOUS
<1> HIDE DEF m
<1>5. /\ pc'[t] = "free_cas"
      /\ frame'[t] = [frame[t] EXCEPT !.seen = m] /\ frame'[t] \in Frames
      /\ \A u \in Threads \ {t} : pc'[u] = pc[u] /\ frame'[u] = frame[u]
  BY <1>1, <1>2, <1>3, LocalUpdates DEF TypeOK, Ref
<1>6. TypeOK'
  BY <1>1, <1>3, <1>5 DEF TypeOK, Steps, Freeing
<1>7. /\ Popped(t)' = {} /\ Dying(t)' = Dying(t) /\ MovedFrom(t)' = {} /\ MovedTo(t)' = MovedTo(t)
      /\ Own(t)' = Own(t) /\ MovedFrom(t) = {}
  BY <1>2, <1>5 DEF Own, Popped, Dying, MovedFrom, MovedTo, Freeing, Popping, Frames
<1>8. CallInv(t)'
  <2>1. /\ frame'[t].node = frame[t].node /\ frame'[t].size = frame[t].size
        /\ frame'[t].align = frame[t].align /\ frame'[t].kind = frame[t].kind
        /\ frame'[t].old = frame[t].old /\ frame'[t].seen = m
    BY <1>2, <1>5 DEF Frames
  <2>2. CallShape(t)'
    BY <1>1, <1>2, <1>5, <2>1 DEF CallShape, Popping, Freeing
  <2>3. CallHeaders(t)' /\ CallMemory(t)' /\ PopReads(t)' /\ PushLinked(t)'
    BY <1>1, <1>2, <1>3, <1>4, <1>5, <1>7, <2>1
       DEF CallHeaders, CallMemory, LiveHeader, PopReads, PushLinked
  <2> QED
    BY <1>1, <1>7, <2>2, <2>3 DEF CallInv, DistinctParts
<1> QED
  BY <1>2, <1>3, <1>5, <1>6, <1>7, <1>8, Quiet DEF Frames

(* The fields of a frame have their types.                                 *)
LEMMA FrameFields ==
  ASSUME NEW f \in Frames
  PROVE  /\ f.kind \in Kinds /\ f.ptr \in Ref /\ f.old \in Nat /\ f.size \in Nat /\ f.align \in Nat
         /\ f.head \in Ref /\ f.next \in Ref /\ f.node \in Ref /\ f.newPtr \in Ref /\ f.seen \in Magics
         /\ [size |-> f.size, align |-> f.align] \in Shape
BY DEF Frames, Shape

(* So have those of an idle thread.                                        *)
LEMMA NoFrameType == NoFrame \in Frames
BY DEF Frames, NoFrame, Kinds, Ref, Magics

(* -1 is not a class index.                                                *)
LEMMA UnpooledIsNoClass == Unpooled \notin Classes
BY DEF Unpooled, Classes

(* poolAlloc hands block b to the call of thread t: taken off a stack, or  *)
(* new from the heap.                                                      *)
LEMMA DeliverEnds ==
  ASSUME IInv, NEW t \in Threads, pc[t] \in {"pop_magic", "grow", "fallback"},
         NEW b \in Blocks, Deliver(t, b),
         Own(t) \subseteq MovedFrom(t) \cup {b}, b \in Own(t) \cup fresh, b \notin MovedFrom(t),
         fresh' = fresh \ {b}, UNCHANGED <<freeLists, stored>>,
         word' \in [Blocks -> Ref \cup {Data}], magic' \in [Blocks -> Magics],
         classIdx' \in [Blocks -> Classes \cup {Unpooled}], cap' \in [Blocks -> Shape],
         \A a \in Blocks \ {b} : /\ word'[a] = word[a] /\ magic'[a] = magic[a]
                                 /\ classIdx'[a] = classIdx[a] /\ cap'[a] = cap[a],
         LiveHeader(b)', frame[t].size <= cap'[b].size, frame[t].align <= cap'[b].align,
         classIdx'[b] \in Classes =>
           cap'[b].size = UsableSize(classIdx'[b]) /\ cap'[b].align = HeaderSize,
         cap'[b].align >= HeaderSize,
         classIdx'[b] = Unpooled => Padded(cap'[b].size, cap'[b].align)
  PROVE  IInv'
<1>1. TypeOK /\ SingleOwner /\ Links /\ CallShape(t) /\ CallHeaders(t) /\ CallMemory(t)
      /\ Own(t) \subseteq Blocks /\ DistinctParts(t)
  BY InvOf
<1>2. frame[t] \in Frames /\ frame[t].kind \in {"malloc", "move", "release"}
  BY <1>1 DEF TypeOK, CallShape, Popping, Freeing, Frames, Kinds
<1>3. /\ Popped(t) \subseteq {b} /\ Dying(t) = {} /\ MovedTo(t) = {}
      /\ frame[t].kind # "move" => MovedFrom(t) = {}
  BY <1>1, <1>2 DEF Popped, Dying, MovedFrom, MovedTo, Freeing, Own, DistinctParts
<1>4. b \notin held /\ held \cap fresh = {} /\ Own(t) \cap (held \cup fresh) = {}
      /\ \A u \in Threads \ {t} : b \notin Own(u)
  BY <1>1 DEF SingleOwner
<1>5. CASE frame[t].kind = "move"
  <2>1. /\ frame' = [frame EXCEPT ![t] = [frame[t] EXCEPT !.newPtr = b]]
        /\ pc' = [pc EXCEPT ![t] = "copy"] /\ UNCHANGED <<held, want>>
    BY <1>5 DEF Deliver, Goto
  <2>2. /\ pc'[t] = "copy" /\ frame'[t] = [frame[t] EXCEPT !.newPtr = b] /\ frame'[t] \in Frames
        /\ \A u \in Threads \ {t} : pc'[u] = pc[u] /\ frame'[u] = frame[u]
    BY <1>1, <1>2, <2>1, LocalUpdates DEF TypeOK, Ref, Magics
  <2>3. /\ frame'[t].newPtr = b /\ frame'[t].ptr = frame[t].ptr /\ frame'[t].size = frame[t].size
        /\ frame'[t].align = frame[t].align /\ frame'[t].kind = frame[t].kind
        /\ frame'[t].old = frame[t].old
    BY <1>2, <2>2 DEF Frames
  <2>4. /\ Popped(t)' = {} /\ Dying(t)' = {} /\ MovedFrom(t)' = MovedFrom(t) /\ MovedTo(t)' = {b}
        /\ Own(t)' = MovedFrom(t) \cup {b} /\ MovedFrom(t) \subseteq Own(t)
    BY <1>5, <2>2, <2>3 DEF Own, Popped, Dying, MovedFrom, MovedTo, Freeing, Popping
  <2>5. TypeOK'
    BY <1>1, <2>1, <2>2 DEF TypeOK, Steps
  <2>6. CallInv(t)'
    <3>1. CallShape(t)'
      BY <1>1, <1>5, <2>2, <2>3 DEF CallShape, Popping, Freeing
    <3>2. CallHeaders(t)' /\ CallMemory(t)' /\ PopReads(t)' /\ PushLinked(t)'
      BY <1>1, <2>2, <2>3, <2>4
         DEF CallHeaders, CallMemory, LiveHeader, PopReads, PushLinked
    <3> QED
      BY <1>1, <2>4, <3>1, <3>2 DEF CallInv, DistinctParts
  <2>7. SingleOwner' /\ Links' /\ Chains' /\ \A u \in Threads \ {t} : CallInv(u)'
    <3>1. Own(t)' \cup held' \cup fresh' = Own(t) \cup held \cup fresh
      BY <2>1, <2>4
    <3>2. held' \cap fresh' = {} /\ Own(t)' \cap (held' \cup fresh') = {}
      BY <1>4, <2>1, <2>4
    <3>3. \A a \in Blocks \ (Own(t) \cup held \cup fresh) : a # b
      OBVIOUS
    <3> QED
      BY <2>2, <3>1, <3>2, <3>3, Transfer
  <2>8. (\A a \in held' : LiveHeader(a)') /\ Memory' /\ Fits'
    BY <1>1, <1>4, <2>1 DEF IInv, LiveHeader, Memory, Fits, TypeOK
  <2>9. \A a \in stored : a # b
    BY <1>3, <1>4 DEF IInv, HasParty, Own
  <2>10. PayloadIntact'
    BY <1>1, <2>9 DEF IInv, PayloadIntact, TypeOK
  <2>11. \A a \in stored' : HasParty(a)'
    <3>1. \A u \in Threads \ {t} : MovedFrom(u)' = MovedFrom(u) /\ MovedTo(u)' = MovedTo(u)
      BY <2>2, SameParts
    <3> QED
      BY <1>3, <2>1, <2>2, <2>3, <2>4, <3>1 DEF IInv, HasParty
  <2> QED
    BY <2>5, <2>6, <2>7, <2>8, <2>10, <2>11 DEF IInv
<1>6. CASE frame[t].kind # "move"
  <2>1. /\ frame' = [frame EXCEPT ![t] = NoFrame] /\ pc' = [pc EXCEPT ![t] = "idle"]
        /\ held' = held \cup {b}
        /\ want' = [want EXCEPT ![b] = [size |-> frame[t].size, align |-> frame[t].align]]
    BY <1>6 DEF Deliver, HandOut, ReturnFrom, Goto
  <2>2. /\ pc'[t] = "idle" /\ frame'[t] = NoFrame
        /\ \A u \in Threads \ {t} : pc'[u] = pc[u] /\ frame'[u] = frame[u]
        /\ want'[b] = [size |-> frame[t].size, align |-> frame[t].align]
        /\ \A a \in Blocks \ {b} : want'[a] = want[a]
    BY <1>1, <2>1 DEF TypeOK
  <2>3. TypeOK'
    BY <1>1, <1>2, <2>1, FrameFields, NoFrameType DEF TypeOK, Steps
  <2>4. CallInv(t)' /\ Own(t)' = {}
    BY <2>2, IdleInv
  <2>5. SingleOwner' /\ Links' /\ Chains' /\ \A u \in Threads \ {t} : CallInv(u)'
    <3>1. Own(t)' \cup held' \cup fresh' = Own(t) \cup held \cup fresh
      BY <1>3, <1>6, <2>1, <2>4
    <3>2. held' \cap fresh' = {} /\ Own(t)' \cap (held' \cup fresh') = {}
      BY <1>4, <2>1, <2>4
    <3>3. \A a \in Blocks \ (Own(t) \cup held \cup fresh) : a # b
      OBVIOUS
    <3> QED
      BY <2>2, <3>1, <3>2, <3>3, Transfer
  <2>6. (\A a \in held' : LiveHeader(a)') /\ Memory' /\ Fits'
    BY <1>1, <1>4, <2>1, <2>2 DEF IInv, LiveHeader, Memory, Fits, TypeOK
  <2>7. \A a \in stored : a # b
    BY <1>3, <1>4 DEF IInv, HasParty, Own
  <2>8. PayloadIntact'
    BY <1>1, <2>7 DEF IInv, PayloadIntact, TypeOK
  <2>9. \A a \in stored' : HasParty(a)'
    <3>1. \A u \in Threads \ {t} : MovedFrom(u)' = MovedFrom(u) /\ MovedTo(u)' = MovedTo(u)
      BY <2>2, SameParts
    <3>2. \A a \in stored : a \in Blocks /\ HasParty(a)
      BY <1>1 DEF IInv, TypeOK
    <3> QED
      BY <1>3, <1>6, <2>1, <2>2, <2>7, <3>1, <3>2 DEF HasParty
  <2> QED
    BY <2>3, <2>4, <2>5, <2>6, <2>8, <2>9 DEF IInv
<1> QED
  BY <1>5, <1>6

(* poolAlloc makes a popped block live again and hands it on.              *)
LEMMA PopMagicStep ==
  ASSUME IInv, NEW t \in Threads, PopMagic(t)
  PROVE  IInv'
<1>1. TypeOK /\ SingleOwner /\ Links /\ CallInv(t) /\ CallShape(t) /\ CallHeaders(t) /\ DistinctParts(t)
  BY InvOf
<1>A. pc[t] = "pop_magic" /\ frame[t].head \in Own(t) /\ frame[t].head \in Blocks
  BY <1>1, Operands DEF PopMagic
<1>B. PICK h \in Blocks : h = frame[t].head
  BY <1>A
<1>2. /\ pc[t] = "pop_magic" /\ h \in Own(t) /\ h \in Blocks /\ Deliver(t, h)
      /\ magic' = [magic EXCEPT ![h] = magicPooled]
      /\ UNCHANGED <<freeLists, word, classIdx, cap, fresh, stored>>
  BY <1>A, <1>B DEF PopMagic
<1>3. /\ frame[t] \in Frames /\ classIdx[h] = ClassIndex(frame[t].size)
      /\ ClassIndex(frame[t].size) \in Classes /\ frame[t].align <= HeaderSize
      /\ Padded(frame[t].size, frame[t].align)
  BY <1>1, <1>B, <1>2 DEF TypeOK, CallHeaders, CallShape, Popping, Freeing
<1>4. Popped(t) = {h} /\ Own(t) = MovedFrom(t) \cup {h} /\ h \notin MovedFrom(t) /\ h \notin fresh
  BY <1>1, <1>B, <1>2 DEF Popped, Own, Dying, MovedFrom, MovedTo, Freeing, Popping, DistinctParts, SingleOwner
<1>5. /\ cap[h].size = UsableSize(classIdx[h]) /\ cap[h].align = HeaderSize
      /\ frame[t].size <= cap[h].size
  <2>1. Memory /\ h \in Blocks \ fresh /\ classIdx[h] \in Classes
    BY <1>2, <1>3, <1>4 DEF IInv
  <2>2. cap[h].size = UsableSize(classIdx[h]) /\ cap[h].align = HeaderSize
    BY <2>1 DEF Memory
  <2>3. frame[t].size <= UsableSize(ClassIndex(frame[t].size))
    BY <1>3, ClassFits, FrameFields, PaddedHasHeader
  <2> QED
    BY <1>3, <2>2, <2>3
<1>6. /\ magic' \in [Blocks -> Magics] /\ LiveHeader(h)'
      /\ \A a \in Blocks \ {h} : magic'[a] = magic[a]
  <2>1. /\ magic' \in [Blocks -> Magics] /\ magic'[h] = magicPooled /\ classIdx'[h] = classIdx[h]
        /\ \A a \in Blocks \ {h} : magic'[a] = magic[a]
    BY <1>1, <1>2 DEF TypeOK, Magics
  <2>2. classIdx[h] # Unpooled
    BY <1>3, UnpooledIsNoClass
  <2> QED
    BY <2>1, <2>2 DEF LiveHeader
<1>7. fresh' = fresh \ {h} /\ frame[t].align <= cap[h].align /\ cap'[h].align >= HeaderSize
  BY <1>2, <1>3, <1>4, <1>5, SizesAssumption DEF SizesAssumption
<1>8. /\ UNCHANGED <<freeLists, stored, word, classIdx, cap>>
      /\ word' \in [Blocks -> Ref \cup {Data}]
      /\ classIdx' \in [Blocks -> Classes \cup {Unpooled}] /\ cap' \in [Blocks -> Shape]
  BY <1>1, <1>2 DEF TypeOK
<1>9. \A a \in Blocks \ {h} : /\ word'[a] = word[a] /\ magic'[a] = magic[a]
                              /\ classIdx'[a] = classIdx[a] /\ cap'[a] = cap[a]
  BY <1>6, <1>8
<1>10. h \in Blocks /\ Deliver(t, h) /\ pc[t] = "pop_magic"
  BY <1>2
<1>11. frame[t].size <= cap'[h].size /\ frame[t].align <= cap'[h].align
  BY <1>5, <1>7, <1>8
<1>12. classIdx'[h] \in Classes => cap'[h].size = UsableSize(classIdx'[h]) /\ cap'[h].align = HeaderSize
  BY <1>5, <1>8
<1>13. Own(t) \subseteq MovedFrom(t) \cup {h} /\ h \in Own(t) \cup fresh /\ h \notin MovedFrom(t)
  BY <1>4
<1>14. classIdx'[h] # Unpooled
  BY <1>3, <1>8, UnpooledIsNoClass
<1> QED
  BY <1>6, <1>7, <1>8, <1>9, <1>10, <1>11, <1>12, <1>13, <1>14, DeliverEnds

(* A new block gets a header that tells the truth about its memory.        *)
LEMMA NewBlockStep ==
  ASSUME IInv, NEW t \in Threads, NEW b \in Blocks, pc[t] \in {"grow", "fallback"},
         NEW m, NEW c, NEW bytes \in Nat, NEW align \in Nat,
         NewBlock(b, m, c, bytes, align), Deliver(t, b), UNCHANGED stored,
         frame[t].size <= bytes, frame[t].align <= align, align >= HeaderSize,
         \/ c = Unpooled /\ m = magicUnpooled /\ Padded(bytes, align)
         \/ c \in Classes /\ m = magicPooled /\ align = HeaderSize /\ bytes = UsableSize(c)
  PROVE  IInv'
<1>1. TypeOK /\ SingleOwner /\ CallInv(t) /\ CallShape(t)
  BY InvOf
<1>2. /\ b \in fresh /\ fresh' = fresh \ {b} /\ freeLists' = freeLists
      /\ magic' = [magic EXCEPT ![b] = m] /\ classIdx' = [classIdx EXCEPT ![b] = c]
      /\ cap' = [cap EXCEPT ![b] = [size |-> bytes, align |-> align]]
      /\ word' = [word EXCEPT ![b] = NULL]
  BY DEF NewBlock
<1>3. /\ word' \in [Blocks -> Ref \cup {Data}] /\ magic' \in [Blocks -> Magics]
      /\ classIdx' \in [Blocks -> Classes \cup {Unpooled}] /\ cap' \in [Blocks -> Shape]
      /\ magic'[b] = m /\ classIdx'[b] = c /\ cap'[b].size = bytes /\ cap'[b].align = align
      /\ \A a \in Blocks \ {b} : /\ word'[a] = word[a] /\ magic'[a] = magic[a]
                                 /\ classIdx'[a] = classIdx[a] /\ cap'[a] = cap[a]
  BY <1>1, <1>2 DEF TypeOK, Ref, Magics, Shape
<1>4. Own(t) \subseteq MovedFrom(t) \cup {b} /\ b \notin MovedFrom(t)
  <2>1. Popped(t) = {} /\ Dying(t) = {} /\ MovedTo(t) = {}
    BY DEF Popped, Dying, MovedTo, Freeing
  <2> QED
    BY <1>1, <1>2, <2>1 DEF Own, SingleOwner
<1>5. LiveHeader(b)'
  BY <1>3, UnpooledIsNoClass DEF LiveHeader
<1>6. /\ c \notin Classes \/ (bytes = UsableSize(c) /\ align = HeaderSize)
      /\ c = Unpooled => Padded(bytes, align)
  BY UnpooledIsNoClass
<1> QED
  BY <1>2, <1>3, <1>4, <1>5, <1>6, DeliverEnds

(* The slow path of poolAlloc: a new block of the class.                   *)
LEMMA GrowStep ==
  ASSUME IInv, NEW t \in Threads, NEW b \in Blocks, Grow(t, b)
  PROVE  IInv'
<1> DEFINE c == ClassIndex(frame[t].size)
<1>1. TypeOK /\ CallShape(t)
  BY InvOf
<1>2. /\ pc[t] = "grow" /\ NewBlock(b, magicPooled, c, UsableSize(c), HeaderSize)
      /\ Deliver(t, b) /\ UNCHANGED stored
  BY DEF Grow
<1>3. /\ frame[t] \in Frames /\ c \in Classes /\ frame[t].align <= HeaderSize
      /\ frame[t].size + HeaderSize < 2^WordBits
  <2>1. /\ frame[t] \in Frames /\ c \in Classes /\ frame[t].align <= HeaderSize
        /\ Padded(frame[t].size, frame[t].align)
    BY <1>1, <1>2 DEF TypeOK, CallShape, Popping, Freeing
  <2> QED
    BY <2>1, PaddedHasHeader, FrameFields
<1>4. frame[t].size <= UsableSize(c) /\ UsableSize(c) \in Nat
  BY <1>3, FrameFields, ClassFits, BlockSizes
<1>5. HeaderSize \in Nat /\ HeaderSize <= HeaderSize
  BY SizesAssumption
<1> HIDE DEF c
<1> QED
  BY <1>2, <1>3, <1>4, <1>5, NewBlockStep

(* fallbackAlloc: a new block outside the pool.                            *)
LEMMA FallbackStep ==
  ASSUME IInv, NEW t \in Threads, NEW b \in Blocks, FallbackAlloc(t, b)
  PROVE  IInv'
<1> DEFINE al == FallbackAlign(frame[t].align)
<1>1. TypeOK /\ CallShape(t)
  BY InvOf
<1>2. /\ pc[t] = "fallback" /\ NewBlock(b, magicUnpooled, Unpooled, frame[t].size, al)
      /\ Deliver(t, b) /\ UNCHANGED stored
  BY DEF FallbackAlloc
<1>3. frame[t].size \in Nat /\ frame[t].align \in Nat
  BY <1>1, FrameFields DEF TypeOK
<1>4. al \in Nat /\ frame[t].align <= al /\ al >= HeaderSize /\ frame[t].size <= frame[t].size
  BY <1>3, SizesAssumption DEF FallbackAlign
<1>5. Padded(frame[t].size, al)
  BY <1>1, <1>2, <1>3, PaddedAlign DEF CallShape, Freeing
<1> HIDE DEF al
<1> QED
  BY <1>2, <1>3, <1>4, <1>5, NewBlockStep

(* cabi_realloc decides to move the block.                                 *)
LEMMA InspectMoveStep ==
  ASSUME IInv, NEW t \in Threads, Inspect(t), ~ FitsInPlace(t)
  PROVE  IInv'
<1> DEFINE entry == PoolAllocEntry(frame[t].size, frame[t].align)
<1>1. TypeOK /\ SingleOwner /\ Links /\ CallInv(t) /\ CallShape(t) /\ CallHeaders(t) /\ CallMemory(t)
  BY InvOf
<1>2. /\ pc[t] = "inspect" /\ pc' = [pc EXCEPT ![t] = entry]
      /\ UNCHANGED <<freeLists, word, magic, classIdx, cap, fresh, held, want, stored, frame>>
  BY DEF Inspect, Continue, Goto, heapVars
<1>3. /\ entry \in {"pop_load", "fallback"} /\ frame[t].kind = "move" /\ frame[t] \in Frames
      /\ entry = "pop_load" => ClassIndex(frame[t].size) # Unpooled /\ ~ (frame[t].align > HeaderSize)
  BY <1>1, <1>2 DEF PoolAllocEntry, CallShape, TypeOK
<1> HIDE DEF entry
<1>4. /\ pc'[t] = entry /\ frame'[t] = frame[t]
      /\ \A u \in Threads \ {t} : pc'[u] = pc[u] /\ frame'[u] = frame[u]
  BY <1>1, <1>2 DEF TypeOK
<1>5. TypeOK'
  BY <1>1, <1>2, <1>3 DEF TypeOK, Steps, Popping
<1>6. /\ Popped(t)' = {} /\ Dying(t)' = {} /\ MovedFrom(t)' = MovedFrom(t) /\ MovedTo(t)' = {}
      /\ Own(t)' = Own(t) /\ MovedTo(t) = {}
  BY <1>2, <1>3, <1>4 DEF Own, Popped, Dying, MovedFrom, MovedTo, Freeing, Popping
<1>7. CallInv(t)'
  <2>1. pc'[t] \in Popping => ClassIndex(frame[t].size) \in Classes /\ frame[t].align <= HeaderSize
    <3>1. frame[t].size \in Nat /\ frame[t].align \in Nat /\ HeaderSize \in Nat
      BY <1>3, FrameFields, SizesAssumption
    <3>2. ClassIndex(frame[t].size) \in Classes \cup {Unpooled}
      BY <3>1, ClassIndexType
    <3>3. pc'[t] \in Popping => entry = "pop_load"
      BY <1>3, <1>4 DEF Popping
    <3> QED
      BY <1>3, <3>1, <3>2, <3>3
  <2>2. CallShape(t)'
    BY <1>1, <1>2, <1>3, <1>4, <2>1 DEF CallShape, Popping, Freeing
  <2>3. CallHeaders(t)' /\ CallMemory(t)' /\ PopReads(t)' /\ PushLinked(t)'
    BY <1>1, <1>2, <1>3, <1>4, <1>6 DEF CallHeaders, CallMemory, LiveHeader, PopReads, PushLinked
  <2> QED
    BY <1>1, <1>6, <2>2, <2>3 DEF CallInv, DistinctParts
<1> QED
  BY <1>2, <1>3, <1>4, <1>5, <1>6, <1>7, Quiet

(* cabi_realloc keeps the block: its memory is large and aligned enough.   *)
LEMMA InspectKeepStep ==
  ASSUME IInv, NEW t \in Threads, Inspect(t), FitsInPlace(t)
  PROVE  IInv'
<1> DEFINE b == frame[t].ptr
<1>1. TypeOK /\ SingleOwner /\ Links /\ CallInv(t) /\ CallShape(t) /\ CallHeaders(t) /\ CallMemory(t)
  BY InvOf
<1>2. pc[t] = "inspect" /\ frame[t].kind = "move" /\ b \in Own(t) /\ b \in Blocks /\ frame[t] \in Frames
  <2>1. pc[t] = "inspect"
    BY DEF Inspect
  <2>2. frame[t].kind = "move" /\ frame[t] \in Frames
    BY <1>1, <2>1 DEF CallShape, TypeOK
  <2> QED
    BY <1>1, <2>1, <2>2, Operands
<1>3. /\ pc' = [pc EXCEPT ![t] = "idle"] /\ frame' = [frame EXCEPT ![t] = NoFrame]
      /\ held' = held \cup {b}
      /\ want' = [want EXCEPT ![b] = [size |-> frame[t].size, align |-> frame[t].align]]
      /\ UNCHANGED <<freeLists, word, magic, classIdx, cap, fresh, stored>>
  BY DEF Inspect, HandOut, ReturnFrom, Goto, heapVars
<1>4. /\ MovedFrom(t) = {b} /\ MovedTo(t) = {} /\ Own(t) = {b}
      /\ b \notin held \cup fresh
  BY <1>1, <1>2 DEF MovedFrom, MovedTo, Own, Popped, Dying, Freeing, SingleOwner
<1>5. LiveHeader(b) /\ frame[t].old <= cap[b].size /\ frame[t].size > 0
  BY <1>1, <1>2, <1>4 DEF CallHeaders, CallMemory, CallShape
<1>6. frame[t].size <= cap[b].size /\ frame[t].align <= cap[b].align
  <2>1. cap[b] \in Shape /\ classIdx[b] \in Classes \cup {Unpooled}
    BY <1>1, <1>2 DEF TypeOK
  <2>2. /\ cap[b].align >= HeaderSize /\ frame[t].align <= HeaderSize
        /\ classIdx[b] \in Classes => cap[b].size = UsableSize(classIdx[b])
    BY <1>2, <1>4 DEF IInv, Memory, FitsInPlace
  <2>3. frame[t].align <= cap[b].align
    BY <1>2, <2>1, <2>2, FrameFields, SizesAssumption DEF Shape
  <2>4. CASE magic[b] = magicPooled
    <3>1. classIdx[b] \in Classes /\ frame[t].size <= UsableSize(classIdx[b])
      BY <1>5, <2>1, <2>4 DEF LiveHeader, FitsInPlace, magicPooled, magicUnpooled
    <3> QED
      BY <2>2, <2>3, <3>1
  <2>5. CASE magic[b] # magicPooled
    <3>1. frame[t].size <= frame[t].old
      BY <2>5 DEF FitsInPlace
    <3>2. frame[t].size \in Nat /\ frame[t].old \in Nat /\ cap[b].size \in Nat
      BY <1>2, <2>1, FrameFields DEF Shape
    <3> QED
      BY <1>5, <2>3, <3>1, <3>2
  <2> QED
    BY <2>4, <2>5
<1> HIDE DEF b
<1>7. /\ pc'[t] = "idle" /\ frame'[t] = NoFrame
      /\ \A u \in Threads \ {t} : pc'[u] = pc[u] /\ frame'[u] = frame[u]
      /\ want'[b] = [size |-> frame[t].size, align |-> frame[t].align]
      /\ \A a \in Blocks \ {b} : want'[a] = want[a]
  BY <1>1, <1>2, <1>3 DEF TypeOK
<1>8. TypeOK'
  BY <1>1, <1>2, <1>3, FrameFields, NoFrameType DEF TypeOK, Steps
<1>9. CallInv(t)' /\ Own(t)' = {}
  BY <1>7, IdleInv
<1>10. SingleOwner' /\ Links' /\ Chains' /\ \A u \in Threads \ {t} : CallInv(u)'
  <2>1. held' \cap fresh' = {} /\ Own(t)' \cap (held' \cup fresh') = {}
    BY <1>1, <1>3, <1>4, <1>9 DEF SingleOwner
  <2>2. Own(t)' \cup held' \cup fresh' = Own(t) \cup held \cup fresh
    BY <1>3, <1>4, <1>9
  <2> QED
    BY <1>3, <1>7, <2>1, <2>2, Transfer
<1>11. (\A a \in held' : LiveHeader(a)') /\ Memory' /\ Fits' /\ PayloadIntact'
  BY <1>1, <1>3, <1>5, <1>6, <1>7 DEF IInv, LiveHeader, Memory, Fits, PayloadIntact, TypeOK
<1>12. \A a \in stored' : HasParty(a)'
  <2>1. \A u \in Threads \ {t} : MovedFrom(u)' = MovedFrom(u) /\ MovedTo(u)' = MovedTo(u)
    BY <1>7, SameParts
  <2>2. \A a \in stored : a \in Blocks /\ HasParty(a)
    BY <1>1 DEF IInv, TypeOK
  <2> QED
    BY <1>3, <1>4, <1>5, <1>7, <2>1, <2>2 DEF HasParty
<1> QED
  BY <1>8, <1>9, <1>10, <1>11, <1>12 DEF IInv

(* A holder gives a block to cabi_realloc to resize.                       *)
LEMMA ReallocStep ==
  ASSUME IInv, CorrectCallers, NEW t \in Threads, NEW b \in Blocks,
         NEW r \in Requests, Realloc(t, b, r)
  PROVE  IInv'
<1> DEFINE size == r.size
           align == r.align
           f == [NoFrame EXCEPT !.kind = "move", !.ptr = b, !.old = want[b].size,
                                !.size = size, !.align = align]
<1>1. TypeOK /\ SingleOwner /\ CallInv(t) /\ Own(t) = {} /\ MovedTo(t) = {} /\ MovedFrom(t) = {}
  BY InvOf, IdleParts DEF Realloc
<1>2. /\ pc[t] = "idle" /\ t \in Allocators /\ b \in held /\ size > 0
      /\ held' = held \ {b} /\ want' = [want EXCEPT ![b] = NoShape]
      /\ frame' = [frame EXCEPT ![t] = f] /\ pc' = [pc EXCEPT ![t] = "inspect"]
      /\ UNCHANGED <<freeLists, word, magic, classIdx, cap, fresh, stored>>
  BY DEF Realloc, Goto, heapVars
<1>3. /\ f \in Frames /\ f.kind = "move" /\ f.ptr = b /\ f.old = want[b].size
      /\ f.size = size /\ f.align = align /\ size \in Nat /\ align \in Nat
  <2>1. want[b].size \in Nat /\ size \in Nat /\ align \in Nat
    BY <1>1, MemPoolAssumption DEF TypeOK, Shape, MemPoolAssumption
  <2>2. NoFrame \in Frames
    BY NoFrameType
  <2> QED
    BY <2>1, <2>2 DEF Frames, Kinds, Ref
<1> HIDE DEF f
<1>4. /\ pc'[t] = "inspect" /\ frame'[t] = f
      /\ \A u \in Threads \ {t} : pc'[u] = pc[u] /\ frame'[u] = frame[u]
      /\ \A a \in Blocks \ {b} : want'[a] = want[a]
  BY <1>1, <1>2 DEF TypeOK
<1>5. TypeOK'
  BY <1>1, <1>2, <1>3 DEF TypeOK, Steps, Shape, NoShape
<1>6. /\ Popped(t)' = {} /\ Dying(t)' = {} /\ MovedFrom(t)' = {b} /\ MovedTo(t)' = {} /\ Own(t)' = {b}
  BY <1>3, <1>4 DEF Own, Popped, Dying, MovedFrom, MovedTo, Freeing, Popping
<1>7. CallInv(t)'
  <2>1. Padded(size, align)
    BY DEF CorrectCallers
  <2>2. CallShape(t)'
    BY <1>2, <1>3, <1>4, <2>1 DEF CallShape, Popping, Freeing
  <2>3. LiveHeader(b)' /\ want[b].size <= cap'[b].size
    BY <1>2 DEF IInv, LiveHeader, Fits
  <2>4. CallHeaders(t)' /\ CallMemory(t)' /\ PopReads(t)' /\ PushLinked(t)'
    BY <1>3, <1>4, <1>6, <2>3 DEF CallHeaders, CallMemory, PopReads, PushLinked
  <2> QED
    BY <1>6, <2>2, <2>4 DEF CallInv, DistinctParts
<1>8. SingleOwner' /\ Links' /\ Chains' /\ \A u \in Threads \ {t} : CallInv(u)'
  <2>1. held' \cap fresh' = {} /\ Own(t)' \cap (held' \cup fresh') = {}
    BY <1>1, <1>2, <1>6 DEF SingleOwner
  <2>2. Own(t)' \cup held' \cup fresh' = Own(t) \cup held \cup fresh
    BY <1>1, <1>2, <1>6
  <2> QED
    BY <1>2, <1>4, <2>1, <2>2, Transfer
<1>9. (\A a \in held' : LiveHeader(a)') /\ Memory' /\ Fits' /\ PayloadIntact'
  BY <1>1, <1>2, <1>4 DEF IInv, LiveHeader, Memory, Fits, PayloadIntact, TypeOK
<1>10. \A a \in stored' : HasParty(a)'
  <2>1. \A u \in Threads \ {t} : MovedFrom(u)' = MovedFrom(u) /\ MovedTo(u)' = MovedTo(u)
    BY <1>4, SameParts
  <2>2. \A a \in stored : a \in Blocks /\ HasParty(a)
    BY <1>1 DEF IInv, TypeOK
  <2>3. b \in stored => want[b].size > 0
    <3>1. \A u \in Threads : b \notin MovedFrom(u) /\ b \notin MovedTo(u)
      BY <1>1, <1>2 DEF SingleOwner, Own
    <3> QED
      BY <2>2, <3>1 DEF HasParty
  <2> QED
    BY <1>1, <1>2, <1>3, <1>4, <1>6, <2>1, <2>2, <2>3 DEF HasParty
<1> QED
  BY <1>5, <1>7, <1>8, <1>9, <1>10 DEF IInv

(* A holder gives block b to a call that frees it.                         *)
LEMMA GiveUpStep ==
  ASSUME IInv, NEW t \in Threads, NEW b \in Blocks, NEW f \in Frames,
         pc[t] = "idle", b \in held, GiveUp(b),
         pc' = [pc EXCEPT ![t] = "free_load"], frame' = [frame EXCEPT ![t] = f],
         f.node = b, f.size = 0,
         f.kind = "free" \/ (f.kind = "release" /\ t \in Allocators /\ Padded(0, f.align)),
         UNCHANGED heapVars
  PROVE  IInv'
<1>1. TypeOK /\ SingleOwner /\ CallInv(t) /\ Own(t) = {} /\ MovedTo(t) = {} /\ MovedFrom(t) = {}
  BY InvOf, IdleParts
<1>2. /\ held' = held \ {b} /\ stored' = stored \ {b} /\ want' = [want EXCEPT ![b] = NoShape]
      /\ UNCHANGED <<freeLists, word, magic, classIdx, cap, fresh>>
  BY DEF GiveUp, heapVars
<1>3. /\ pc'[t] = "free_load" /\ frame'[t] = f
      /\ \A u \in Threads \ {t} : pc'[u] = pc[u] /\ frame'[u] = frame[u]
      /\ \A a \in Blocks \ {b} : want'[a] = want[a]
  BY <1>1, <1>2 DEF TypeOK
<1>4. TypeOK'
  BY <1>1, <1>2 DEF TypeOK, Steps, Freeing, Shape, NoShape
<1>5. /\ Popped(t)' = {} /\ Dying(t)' = {b} /\ MovedFrom(t)' = {} /\ MovedTo(t)' = {} /\ Own(t)' = {b}
  BY <1>3 DEF Own, Popped, Dying, MovedFrom, MovedTo, Freeing, Popping
<1>6. CallInv(t)'
  <2>2. CallShape(t)'
    BY <1>3 DEF CallShape, Popping, Freeing
  <2>3. LiveHeader(b)'
    BY <1>2 DEF IInv, LiveHeader
  <2>4. CallHeaders(t)' /\ CallMemory(t)' /\ PopReads(t)' /\ PushLinked(t)'
    BY <1>3, <1>5, <2>3 DEF CallHeaders, CallMemory, PopReads, PushLinked, LiveHeader
  <2> QED
    BY <1>5, <2>2, <2>4 DEF CallInv, DistinctParts
<1>7. SingleOwner' /\ Links' /\ Chains' /\ \A u \in Threads \ {t} : CallInv(u)'
  <2>1. held' \cap fresh' = {} /\ Own(t)' \cap (held' \cup fresh') = {}
    BY <1>1, <1>2, <1>5 DEF SingleOwner
  <2>2. Own(t)' \cup held' \cup fresh' = Own(t) \cup held \cup fresh
    BY <1>1, <1>2, <1>5
  <2> QED
    BY <1>2, <1>3, <2>1, <2>2, Transfer
<1>8. (\A a \in held' : LiveHeader(a)') /\ Memory' /\ Fits' /\ PayloadIntact'
  BY <1>1, <1>2, <1>3 DEF IInv, LiveHeader, Memory, Fits, PayloadIntact, TypeOK
<1>9. \A a \in stored' : HasParty(a)'
  <2>1. \A u \in Threads \ {t} : MovedFrom(u)' = MovedFrom(u) /\ MovedTo(u)' = MovedTo(u)
    BY <1>3, SameParts
  <2>2. \A a \in stored : a \in Blocks /\ HasParty(a)
    BY <1>1 DEF IInv, TypeOK
  <2> QED
    BY <1>1, <1>2, <1>3, <1>5, <2>1, <2>2 DEF HasParty
<1> QED
  BY <1>4, <1>6, <1>7, <1>8, <1>9 DEF IInv

(* cabi_realloc to size zero starts by freeing.                            *)
LEMMA ReleaseStep ==
  ASSUME IInv, CorrectCallers, NEW t \in Threads, NEW b \in Blocks, NEW r \in Requests, Release(t, b, r.align)
  PROVE  IInv'
<1> DEFINE align == r.align
<1> DEFINE f == [NoFrame EXCEPT !.kind = "release", !.align = align, !.node = b]
<1>1. align \in Nat
  BY MemPoolAssumption DEF MemPoolAssumption
<1>2. /\ pc[t] = "idle" /\ t \in Allocators /\ b \in held /\ GiveUp(b)
      /\ frame' = [frame EXCEPT ![t] = f] /\ pc' = [pc EXCEPT ![t] = "free_load"]
      /\ UNCHANGED heapVars
  BY DEF Release, Goto
<1>3. NoFrame.size = 0
  BY DEF NoFrame
<1>4. f \in Frames /\ f.node = b /\ f.size = 0 /\ f.kind = "release" /\ f.align = align
  BY <1>1, <1>3, NoFrameType DEF Frames, Kinds, Ref
<1>5. Padded(0, align)
  BY MemPoolAssumption, PaddedZero DEF CorrectCallers, MemPoolAssumption
<1> HIDE DEF f
<1> QED
  BY <1>2, <1>4, <1>5, GiveUpStep

(* cabi_free by the holder.                                                *)
LEMMA FreeStep ==
  ASSUME IInv, NEW t \in Threads, NEW b \in Blocks, Free(t, b)
  PROVE  IInv'
<1> DEFINE f == [NoFrame EXCEPT !.node = b]
<1>1. /\ pc[t] = "idle" /\ b \in held /\ GiveUp(b)
      /\ frame' = [frame EXCEPT ![t] = f] /\ pc' = [pc EXCEPT ![t] = "free_load"]
      /\ UNCHANGED heapVars
  BY DEF Free, Goto
<1>2. NoFrame.size = 0 /\ NoFrame.kind = "free"
  BY DEF NoFrame
<1>3. f \in Frames /\ f.node = b /\ f.size = 0 /\ f.kind = "free"
  BY <1>2, NoFrameType DEF Frames, Ref
<1> HIDE DEF f
<1> QED
  BY <1>1, <1>3, GiveUpStep

(* The copy of cabi_realloc: the data moves with it.                       *)
LEMMA CopyStep ==
  ASSUME IInv, NEW t \in Threads, Copy(t)
  PROVE  IInv'
<1>1. TypeOK /\ SingleOwner /\ Links /\ CallInv(t) /\ CallShape(t) /\ CallHeaders(t) /\ CallMemory(t)
      /\ DistinctParts(t)
  BY InvOf
<1>2. /\ pc[t] = "copy" /\ frame[t].kind = "move" /\ frame[t] \in Frames
      /\ frame[t].ptr \in Own(t) /\ frame[t].ptr \in Blocks
      /\ frame[t].newPtr \in Own(t) /\ frame[t].newPtr \in Blocks
  <2>1. pc[t] = "copy"
    BY DEF Copy
  <2>2. frame[t].kind = "move" /\ frame[t] \in Frames
    BY <1>1, <2>1 DEF CallShape, TypeOK
  <2> QED
    BY <1>1, <2>1, <2>2, Operands
<1>3. PICK old \in Blocks, new \in Blocks : old = frame[t].ptr /\ new = frame[t].newPtr
  BY <1>2
<1>4. /\ word' = IF frame[t].old > 0 THEN [word EXCEPT ![new] = word[old]] ELSE word
      /\ stored' = IF old \in stored THEN (stored \ {old}) \cup {new} ELSE stored
      /\ frame' = [frame EXCEPT ![t] = [frame[t] EXCEPT !.node = old]]
      /\ pc' = [pc EXCEPT ![t] = "free_load"]
      /\ UNCHANGED <<freeLists, magic, classIdx, cap, fresh, held, want>>
  BY <1>3 DEF Copy, Goto
<1>5. /\ pc'[t] = "free_load" /\ frame'[t] = [frame[t] EXCEPT !.node = old] /\ frame'[t] \in Frames
      /\ \A u \in Threads \ {t} : pc'[u] = pc[u] /\ frame'[u] = frame[u]
  BY <1>1, <1>2, <1>4, LocalUpdates DEF TypeOK, Ref, Magics
<1>6. /\ frame'[t].node = old /\ frame'[t].newPtr = new /\ frame'[t].ptr = old
      /\ frame'[t].kind = "move" /\ frame'[t].size = frame[t].size
      /\ frame'[t].align = frame[t].align /\ frame'[t].old = frame[t].old
  BY <1>2, <1>3, <1>5 DEF Frames
<1>7. /\ MovedFrom(t) = {old} /\ MovedTo(t) = {new} /\ Own(t) = {old, new} /\ old # new
      /\ Popped(t) = {} /\ Dying(t) = {}
  BY <1>1, <1>2, <1>3 DEF Own, Popped, Dying, MovedFrom, MovedTo, Freeing, Popping, DistinctParts
<1>8. /\ Popped(t)' = {} /\ Dying(t)' = {old} /\ MovedFrom(t)' = {} /\ MovedTo(t)' = {new}
      /\ Own(t)' = {old, new}
  BY <1>5, <1>6 DEF Own, Popped, Dying, MovedFrom, MovedTo, Freeing, Popping
<1>9. /\ word' \in [Blocks -> Ref \cup {Data}] /\ \A a \in Blocks \ {new} : word'[a] = word[a]
      /\ frame[t].old > 0 => word'[new] = word[old]
  BY <1>1, <1>4 DEF TypeOK
<1>10. TypeOK'
  BY <1>1, <1>4, <1>5, <1>9 DEF TypeOK, Steps, Freeing
<1>11. CallInv(t)'
  <2>1. CallShape(t)'
    BY <1>1, <1>2, <1>5, <1>6 DEF CallShape, Popping, Freeing
  <2>2. LiveHeader(old) /\ LiveHeader(new)
    BY <1>1, <1>7 DEF CallHeaders
  <2>3. frame[t].size <= cap[new].size /\ frame[t].align <= cap[new].align
    BY <1>1, <1>7 DEF CallMemory
  <2>4. CallHeaders(t)' /\ CallMemory(t)' /\ PopReads(t)' /\ PushLinked(t)'
    BY <1>4, <1>5, <1>6, <1>8, <2>2, <2>3
       DEF CallHeaders, CallMemory, LiveHeader, PopReads, PushLinked
  <2> QED
    BY <1>7, <1>8, <2>1, <2>4 DEF CallInv, DistinctParts
<1>12. SingleOwner' /\ Links' /\ Chains' /\ \A u \in Threads \ {t} : CallInv(u)'
  <2>1. held' \cap fresh' = {} /\ Own(t)' \cap (held' \cup fresh') = {}
    BY <1>1, <1>4, <1>7, <1>8 DEF SingleOwner
  <2>2. Own(t)' \cup held' \cup fresh' = Own(t) \cup held \cup fresh
    BY <1>4, <1>7, <1>8
  <2>3. \A a \in Blocks \ (Own(t) \cup held \cup fresh) : word'[a] = word[a]
    BY <1>7, <1>9
  <2> QED
    BY <1>4, <1>5, <2>1, <2>2, <2>3, Transfer
<1>13. (\A a \in held' : LiveHeader(a)') /\ Memory' /\ Fits'
  BY <1>4 DEF IInv, LiveHeader, Memory, Fits
<1>14. /\ \A a \in stored : a \in Blocks /\ HasParty(a)
       /\ old \in stored => frame[t].old > 0 /\ word[old] = Data
       /\ new \notin stored
  <2>1. \A a \in stored : a \in Blocks /\ HasParty(a) /\ word[a] = Data
    BY <1>1 DEF IInv, TypeOK, PayloadIntact
  <2>2. /\ old \notin held /\ new \notin held
        /\ \A u \in Threads \ {t} : old \notin Own(u) /\ new \notin Own(u)
    BY <1>1, <1>2, <1>3 DEF SingleOwner
  <2> QED
    BY <1>2, <1>7, <2>1, <2>2 DEF HasParty, Own
<1>15. PayloadIntact'
  BY <1>4, <1>9, <1>14 DEF IInv, PayloadIntact
<1>16. \A a \in stored' : HasParty(a)'
  <2>1. \A u \in Threads \ {t} : MovedFrom(u)' = MovedFrom(u) /\ MovedTo(u)' = MovedTo(u)
    BY <1>5, SameParts
  <2> QED
    BY <1>4, <1>5, <1>7, <1>8, <1>14, <2>1 DEF HasParty
<1> QED
  BY <1>10, <1>11, <1>12, <1>13, <1>15, <1>16 DEF IInv

(* cabi_free is done with its block: what holds wherever the block goes.   *)
LEMMA FreeEnds ==
  ASSUME IInv, NEW t \in Threads, pc[t] \in Freeing, FreeDone(t),
         UNCHANGED <<word, classIdx, cap, fresh, stored>>,
         freeLists' \in [Classes -> Ref], magic' \in [Blocks -> Magics],
         \A a \in Blocks \ {frame[t].node} : magic'[a] = magic[a]
  PROVE  /\ TypeOK' /\ CallInv(t)' /\ Own(t)' = {} /\ held' = held \cup MovedTo(t)
         /\ Own(t) = {frame[t].node} \cup MovedTo(t) /\ frame[t].node \notin MovedTo(t)
         /\ \A u \in Threads \ {t} : pc'[u] = pc[u] /\ frame'[u] = frame[u]
         /\ (\A a \in held' : LiveHeader(a)') /\ Memory' /\ Fits'
         /\ PayloadIntact' /\ \A a \in stored' : HasParty(a)'
<1>1. TypeOK /\ SingleOwner /\ CallInv(t) /\ CallShape(t) /\ CallHeaders(t) /\ CallMemory(t)
      /\ DistinctParts(t) /\ Own(t) \subseteq Blocks
  BY InvOf
<1>2. frame[t] \in Frames /\ frame[t].kind \in {"free", "move", "release"}
  BY <1>1 DEF TypeOK, CallShape, Freeing, Popping, Frames, Kinds
<1>3. PICK n : n = frame[t].node
  OBVIOUS
<1>4. /\ Popped(t) = {} /\ Dying(t) = {n} /\ MovedFrom(t) = {} /\ n \notin MovedTo(t)
      /\ Own(t) = {n} \cup MovedTo(t) /\ n \in Blocks /\ n \notin held
  BY <1>1, <1>2, <1>3
     DEF Own, Popped, Dying, MovedFrom, Freeing, Popping, DistinctParts, SingleOwner
<1>5. /\ \A a \in held : magic'[a] = magic[a]
      /\ \A a \in stored : a \in Blocks /\ word'[a] = Data /\ HasParty(a)
  BY <1>1, <1>3, <1>4 DEF IInv, TypeOK, PayloadIntact
<1>6. CASE frame[t].kind = "move"
  <2>1. PICK new : new = frame[t].newPtr
    OBVIOUS
  <2>2. MovedTo(t) = {new} /\ new \in Blocks
    BY <1>1, <1>4, <1>6, <2>1 DEF MovedTo
  <2>3. /\ frame' = [frame EXCEPT ![t] = NoFrame] /\ pc' = [pc EXCEPT ![t] = "idle"]
        /\ held' = held \cup {new}
        /\ want' = [want EXCEPT ![new] = [size |-> frame[t].size, align |-> frame[t].align]]
    BY <1>6, <2>1 DEF FreeDone, HandOut, ReturnFrom, Goto
  <2>4. /\ pc'[t] = "idle" /\ frame'[t] = NoFrame
        /\ \A u \in Threads \ {t} : pc'[u] = pc[u] /\ frame'[u] = frame[u]
        /\ want'[new] = [size |-> frame[t].size, align |-> frame[t].align]
        /\ \A a \in Blocks \ {new} : want'[a] = want[a]
    BY <1>1, <2>2, <2>3 DEF TypeOK
  <2>5. TypeOK'
    BY <1>1, <1>2, <2>2, <2>3, FrameFields, NoFrameType DEF TypeOK, Steps
  <2>6. CallInv(t)' /\ Own(t)' = {}
    BY <2>4, IdleInv
  <2>7. /\ LiveHeader(new) /\ magic'[new] = magic[new] /\ frame[t].size > 0
        /\ frame[t].size <= cap[new].size /\ frame[t].align <= cap[new].align
    BY <1>1, <1>3, <1>4, <1>6, <2>2 DEF CallHeaders, CallMemory, CallShape
  <2>8. (\A a \in held' : LiveHeader(a)') /\ Memory' /\ Fits' /\ PayloadIntact'
    BY <1>1, <1>5, <2>3, <2>4, <2>7
       DEF IInv, LiveHeader, Memory, Fits, PayloadIntact, TypeOK
  <2>9. \A a \in stored' : HasParty(a)'
    <3>1. \A u \in Threads \ {t} : MovedFrom(u)' = MovedFrom(u) /\ MovedTo(u)' = MovedTo(u)
      BY <2>4, SameParts
    <3> QED
      BY <1>4, <1>5, <2>2, <2>3, <2>4, <2>7, <3>1 DEF HasParty
  <2> QED
    BY <1>3, <1>4, <2>2, <2>3, <2>4, <2>5, <2>6, <2>8, <2>9
<1>7. CASE frame[t].kind # "move"
  <2>1. PICK s \in {"idle", "fallback"} :
          /\ pc' = [pc EXCEPT ![t] = s] /\ UNCHANGED <<held, want>>
          /\ s = "idle" => frame' = [frame EXCEPT ![t] = NoFrame]
          /\ s = "fallback" => /\ frame' = frame /\ frame[t].kind = "release"
                              /\ frame[t].align > HeaderSize
    BY <1>2, <1>7 DEF FreeDone, Continue, ReturnFrom, Goto
  <2>2. /\ pc'[t] = s /\ frame'[t] \in Frames
        /\ s = "idle" => frame'[t] = NoFrame
        /\ s = "fallback" => frame'[t] = frame[t]
        /\ \A u \in Threads \ {t} : pc'[u] = pc[u] /\ frame'[u] = frame[u]
    BY <1>1, <2>1, NoFrameType DEF TypeOK
  <2>3. TypeOK'
    BY <1>1, <2>1, <2>2, NoFrameType DEF TypeOK, Steps
  <2>4. MovedTo(t) = {}
    BY <1>7 DEF MovedTo
  <2>5. CallInv(t)' /\ Own(t)' = {}
    <3>1. CASE s = "idle"
      BY <2>2, <3>1, IdleInv
    <3>2. CASE s = "fallback"
      <4>1. /\ Popped(t)' = {} /\ Dying(t)' = {} /\ MovedFrom(t)' = {} /\ MovedTo(t)' = {}
            /\ Own(t)' = {}
        BY <1>7, <2>2, <3>2 DEF Own, Popped, Dying, MovedFrom, MovedTo, Freeing, Popping
      <4>2. CallShape(t)'
        BY <1>1, <2>1, <2>2, <3>2 DEF CallShape, Popping, Freeing
      <4> QED
        BY <2>2, <3>2, <4>1, <4>2
           DEF CallInv, CallHeaders, PopReads, PushLinked, CallMemory, DistinctParts
    <3> QED
      BY <3>1, <3>2
  <2>6. (\A a \in held' : LiveHeader(a)') /\ Memory' /\ Fits' /\ PayloadIntact'
    BY <1>1, <1>5, <2>1 DEF IInv, LiveHeader, Memory, Fits, PayloadIntact, TypeOK
  <2>7. \A a \in stored' : HasParty(a)'
    <3>1. \A u \in Threads \ {t} : MovedFrom(u)' = MovedFrom(u) /\ MovedTo(u)' = MovedTo(u)
      BY <2>2, SameParts
    <3> QED
      BY <1>4, <1>5, <2>1, <2>2, <2>4, <3>1 DEF HasParty
  <2> QED
    BY <1>3, <1>4, <2>1, <2>2, <2>3, <2>4, <2>5, <2>6, <2>7
<1> QED
  BY <1>6, <1>7

(* cabi_free claims the block; a pooled one goes on to its stack, an       *)
(* unpooled one is left to the garbage collector.                          *)
LEMMA FreeCASStep ==
  ASSUME IInv, NEW t \in Threads, FreeCAS(t)
  PROVE  IInv'
<1>1. TypeOK /\ SingleOwner /\ Links /\ CallInv(t) /\ CallShape(t) /\ CallHeaders(t) /\ CallMemory(t)
      /\ DistinctParts(t)
  BY InvOf
<1>2. pc[t] = "free_cas" /\ pc[t] \in Freeing /\ frame[t].node \in Own(t) /\ frame[t].node \in Blocks
  <2>1. pc[t] = "free_cas"
    BY DEF FreeCAS
  <2> QED
    BY <1>1, <2>1, Operands DEF Freeing
<1>3. PICK n \in Blocks : n = frame[t].node
  BY <1>2
<1>4. LiveHeader(n) /\ frame[t].seen = magic[n]
  BY <1>1, <1>2, <1>3 DEF CallHeaders
<1>5. /\ magic' = [magic EXCEPT ![n] = magicFree]
      /\ IF magic[n] = magicPooled /\ classIdx[n] \in Classes
         THEN Continue(t, "push_load") ELSE FreeDone(t)
      /\ UNCHANGED <<freeLists, word, classIdx, cap, fresh, stored>>
  BY <1>3, <1>4 DEF FreeCAS
<1>6. magic' \in [Blocks -> Magics] /\ \A a \in Blocks \ {n} : magic'[a] = magic[a]
  BY <1>1, <1>5 DEF TypeOK, Magics
<1>7. CASE magic[n] = magicPooled /\ classIdx[n] \in Classes
  <2>1. /\ pc' = [pc EXCEPT ![t] = "push_load"] /\ UNCHANGED <<held, want, frame>>
    BY <1>5, <1>7 DEF Continue, Goto
  <2>2. /\ pc'[t] = "push_load" /\ frame'[t] = frame[t]
        /\ \A u \in Threads \ {t} : pc'[u] = pc[u] /\ frame'[u] = frame[u]
    BY <1>1, <2>1 DEF TypeOK
  <2>3. TypeOK'
    BY <1>1, <1>5, <1>6, <2>1 DEF TypeOK, Steps, Freeing
  <2>4. /\ Popped(t)' = {} /\ Dying(t)' = Dying(t) /\ MovedFrom(t)' = {} /\ MovedTo(t)' = MovedTo(t)
        /\ Own(t)' = Own(t) /\ MovedFrom(t) = {} /\ Dying(t) = {n}
    BY <1>1, <1>2, <1>3, <2>2
       DEF Own, Popped, Dying, MovedFrom, MovedTo, Freeing, Popping, CallShape
  <2>5. CallInv(t)'
    <3>1. CallShape(t)'
      BY <1>1, <1>2, <2>2 DEF CallShape, Popping, Freeing
    <3>2. n \notin MovedTo(t)
      BY <1>1, <2>4 DEF DistinctParts
    <3>3. MovedTo(t) \subseteq Blocks
      BY <1>1 DEF CallInv, Own
    <3>4. \A a \in MovedTo(t) : LiveHeader(a)'
      BY <1>1, <1>5, <1>6, <3>2, <3>3 DEF CallHeaders, LiveHeader
    <3>5. CallHeaders(t)' /\ CallMemory(t)' /\ PopReads(t)' /\ PushLinked(t)'
      BY <1>1, <1>3, <1>5, <1>7, <2>2, <2>4, <3>4
         DEF CallHeaders, CallMemory, PopReads, PushLinked
    <3> QED
      BY <1>1, <2>4, <3>1, <3>5 DEF CallInv, DistinctParts
  <2> QED
    BY <1>2, <1>3, <1>5, <1>6, <2>1, <2>2, <2>3, <2>4, <2>5, Quiet
<1>8. CASE ~ (magic[n] = magicPooled /\ classIdx[n] \in Classes)
  <2>1. FreeDone(t)
    BY <1>5, <1>8
  <2>2. classIdx[n] \notin Classes
    BY <1>1, <1>4, <1>8, UnpooledIsNoClass DEF LiveHeader
  <2>3. freeLists' \in [Classes -> Ref]
    BY <1>1, <1>5 DEF TypeOK
  <2>4. /\ TypeOK' /\ CallInv(t)' /\ Own(t)' = {} /\ held' = held \cup MovedTo(t)
        /\ Own(t) = {frame[t].node} \cup MovedTo(t) /\ frame[t].node \notin MovedTo(t)
        /\ \A u \in Threads \ {t} : pc'[u] = pc[u] /\ frame'[u] = frame[u]
        /\ (\A a \in held' : LiveHeader(a)') /\ Memory' /\ Fits'
        /\ PayloadIntact' /\ \A a \in stored' : HasParty(a)'
    BY <1>2, <1>3, <1>5, <1>6, <2>1, <2>3, FreeEnds
  <2>5. SingleOwner' /\ Links' /\ Chains' /\ \A u \in Threads \ {t} : CallInv(u)'
    <3>1. held' \cap fresh' = {} /\ Own(t)' \cap (held' \cup fresh') = {}
      BY <1>1, <1>5, <2>4 DEF SingleOwner
    <3>2. Own(t)' \cup held' \cup fresh' \subseteq Own(t) \cup held \cup fresh
      BY <1>5, <2>4
    <3>3. \A a \in (Own(t) \cup held \cup fresh) \ (Own(t)' \cup held' \cup fresh') :
             classIdx'[a] \notin Classes
      BY <1>3, <1>5, <2>2, <2>4
    <3>4. \A a \in Blocks \ (Own(t) \cup held \cup fresh) : magic'[a] = magic[a]
      BY <1>3, <1>6, <2>4
    <3> QED
      BY <1>5, <2>4, <3>1, <3>2, <3>3, <3>4, Transfer
  <2> QED
    BY <2>4, <2>5 DEF IInv
<1> QED
  BY <1>7, <1>8

(* pushBlock puts the block on top: its successor is the old top.          *)
LEMMA PushStep ==
  ASSUME IInv, NEW t \in Threads, PushCAS(t),
         freeLists[classIdx[frame[t].node]] = frame[t].head
  PROVE  IInv'
<1>1. TypeOK /\ SingleOwner /\ Links /\ CallInv(t) /\ CallHeaders(t) /\ PushLinked(t)
  BY InvOf
<1>2. pc[t] = "push_cas" /\ pc[t] \in Freeing /\ frame[t].node \in Own(t) /\ frame[t].node \in Blocks
  <2>1. pc[t] = "push_cas"
    BY DEF PushCAS
  <2> QED
    BY <1>1, <2>1, Operands DEF Freeing
<1>3. PICK n \in Blocks : n = frame[t].node
  BY <1>2
<1>4. PICK c \in Classes : c = classIdx[n]
  BY <1>1, <1>2, <1>3 DEF CallHeaders
<1>5. /\ freeLists' = [freeLists EXCEPT ![c] = n] /\ FreeDone(t) /\ word[n] = freeLists[c]
      /\ UNCHANGED <<word, magic, classIdx, cap, fresh, stored>>
  BY <1>1, <1>2, <1>3, <1>4 DEF PushCAS, PushLinked
<1>6. /\ freeLists' \in [Classes -> Ref] /\ freeLists'[c] = n
      /\ \A d \in Classes \ {c} : freeLists'[d] = freeLists[d]
  BY <1>1, <1>5 DEF TypeOK, Ref
<1>7. /\ TypeOK' /\ CallInv(t)' /\ Own(t)' = {} /\ held' = held \cup MovedTo(t)
      /\ Own(t) = {n} \cup MovedTo(t) /\ n \notin MovedTo(t)
      /\ \A u \in Threads \ {t} : pc'[u] = pc[u] /\ frame'[u] = frame[u]
      /\ (\A a \in held' : LiveHeader(a)') /\ Memory' /\ Fits'
      /\ PayloadIntact' /\ \A a \in stored' : HasParty(a)'
  <2>1. magic' \in [Blocks -> Magics] /\ \A a \in Blocks : magic'[a] = magic[a]
    BY <1>1, <1>5 DEF TypeOK
  <2> QED
    BY <1>2, <1>3, <1>5, <1>6, <2>1, FreeEnds
<1>8. \A u \in Threads \ {t} : Own(u)' = Own(u)
  BY <1>7, SameParts
<1>9. /\ n \notin held \cup fresh /\ \A u \in Threads \ {t} : Own(u) \cap Own(t) = {}
      /\ Own(t) \cap (held \cup fresh) = {} /\ n \notin Listed
  BY <1>1, <1>7 DEF SingleOwner, Listed
<1>10. Listed' = Listed \cup {n}
  <2>1. ASSUME NEW a \in Blocks PROVE a \in Listed' <=> a \in Listed \cup {n}
    <3>1. a \in Listed' <=> /\ classIdx[a] \in Classes /\ a \notin held \cup MovedTo(t) \cup fresh
                            /\ \A u \in Threads \ {t} : a \notin Own(u)
      BY <1>5, <1>7, <1>8 DEF Listed
    <3>2. a \in Listed <=> /\ classIdx[a] \in Classes /\ a \notin held \cup MovedTo(t) \cup {n} \cup fresh
                           /\ \A u \in Threads \ {t} : a \notin Own(u)
      BY <1>7 DEF Listed
    <3>3. a = n => a \in Listed'
      BY <1>4, <1>7, <1>9, <3>1
    <3> QED
      BY <3>1, <3>2, <3>3
  <2> QED
    BY <2>1 DEF Listed
<1>11. SingleOwner'
  <2>1. \A d \in Classes : freeLists'[d] \in Listed' \cup {NULL}
    BY <1>1, <1>6, <1>10 DEF SingleOwner
  <2>2. held' \cap fresh' = {}
    BY <1>1, <1>5, <1>7, <1>9 DEF SingleOwner
  <2>3. \A u \in Threads \ {t} : Own(u)' \cap (held' \cup fresh') = {} /\ Own(u)' \cap Own(t)' = {}
    BY <1>1, <1>5, <1>7, <1>8, <1>9 DEF SingleOwner
  <2> QED
    BY <1>1, <1>7, <1>8, <2>1, <2>2, <2>3 DEF SingleOwner
<1>12. Links'
  <2>1. PICK top : top = freeLists[c]
    OBVIOUS
  <2>2. /\ top \in Listed \cup {NULL} /\ word[n] = top
        /\ top # NULL => classIdx[top] = c
        /\ \A b \in Listed : word[b] \in Listed \cup {NULL}
        /\ \A b \in Listed : top # NULL => word[b] # top
    BY <1>1, <1>5, <2>1 DEF SingleOwner, Links
  <2>3. n # NULL
    BY MemPoolAssumption DEF MemPoolAssumption
  <2>4. \A b \in Listed' : /\ word'[b] \in Listed' \cup {NULL}
                           /\ word'[b] # NULL => classIdx'[word'[b]] = classIdx'[b]
    BY <1>1, <1>4, <1>5, <1>10, <2>2 DEF Links
  <2>5. \A d \in Classes : freeLists'[d] # NULL => classIdx'[freeLists'[d]] = d
    BY <1>1, <1>4, <1>5, <1>6 DEF Links
  <2>6. \A a, b \in Listed' : word'[a] = word'[b] /\ word'[a] # NULL => a = b
    BY <1>1, <1>5, <1>10, <2>2 DEF Links
  <2>7. ASSUME NEW b \in Listed', NEW d \in Classes, freeLists'[d] # NULL
        PROVE  word'[b] # freeLists'[d]
    <3>1. CASE d = c
      BY <1>5, <1>6, <1>9, <1>10, <2>2, <2>3, <3>1
    <3>2. CASE d # c /\ b = n
      BY <1>1, <1>5, <1>6, <2>2, <2>7, <3>2 DEF Links
    <3>3. CASE d # c /\ b # n
      BY <1>1, <1>5, <1>6, <1>10, <2>7, <3>3 DEF Links
    <3> QED
      BY <3>1, <3>2, <3>3
  <2> QED
    BY <2>4, <2>5, <2>6, <2>7 DEF Links
<1>13. ASSUME NEW u \in Threads \ {t} PROVE CallInv(u)'
  <2>1. pc[u] \in {"pop_next", "pop_cas"} => frame[u].head \in Listed'
    BY <1>10, InvOf DEF PopReads
  <2> DEFINE W == {}
  <2>2. W \cap (Listed \cup Own(u)) = {}
    OBVIOUS
  <2> QED
    BY <1>5, <1>7, <2>1, <2>2, OthersKeep
<1>14. Chains'
  BY <1>4, <1>5, <1>6, <1>9, <1>10, StackPushed DEF IInv
<1> QED
  BY <1>7, <1>11, <1>12, <1>13, <1>14 DEF IInv

(* A holder writes its payload.                                            *)
LEMMA StoreStep ==
  ASSUME IInv, NEW b \in Blocks, Store(b)
  PROVE  IInv'
<1>1. TypeOK /\ SingleOwner /\ Links
  BY DEF IInv
<1>2. /\ b \in held /\ want[b].size > 0 /\ word' = [word EXCEPT ![b] = Data]
      /\ stored' = stored \cup {b}
      /\ UNCHANGED <<freeLists, magic, classIdx, cap, fresh, held, want, pc, frame>>
  BY DEF Store
<1>3. word'[b] = Data /\ \A a \in Blocks \ {b} : word'[a] = word[a]
  BY <1>1, <1>2 DEF TypeOK
<1>4. TypeOK'
  BY <1>1, <1>2 DEF TypeOK
<1>5. \A u : /\ Own(u)' = Own(u) /\ MovedFrom(u)' = MovedFrom(u) /\ MovedTo(u)' = MovedTo(u)
  BY <1>2, SameParts
<1>6. Listed' = Listed
  BY <1>2, <1>5 DEF Listed
<1>7. SingleOwner'
  BY <1>1, <1>2, <1>5, <1>6 DEF SingleOwner
<1>8. b \notin Listed /\ \A u \in Threads : b \notin Own(u)
  BY <1>1, <1>2 DEF Listed, SingleOwner
<1>9. Links'
  <2>1. \A a \in Listed : word'[a] = word[a]
    BY <1>3, <1>8 DEF Listed
  <2> QED
    BY <1>1, <1>2, <1>6, <2>1 DEF Links
<1>10. ASSUME NEW u \in Threads PROVE CallInv(u)'
  <2>1. pc[u] \in {"pop_next", "pop_cas"} => frame[u].head \in Listed'
    BY <1>6, InvOf DEF PopReads
  <2>2. {b} \cap (Listed \cup Own(u)) = {}
    BY <1>8
  <2> QED
    BY <1>2, <1>3, <2>1, <2>2, OthersKeep
<1>11. (\A a \in held' : LiveHeader(a)') /\ Memory' /\ Fits'
  BY <1>2 DEF IInv, LiveHeader, Memory, Fits
<1>12. PayloadIntact'
  BY <1>1, <1>2, <1>3 DEF IInv, PayloadIntact, TypeOK
<1>13. \A a \in stored' : HasParty(a)'
  BY <1>2, <1>5 DEF IInv, HasParty
<1>14. Chains'
  BY <1>2, <1>3, <1>6, <1>8, StacksKept DEF IInv, Listed
<1> QED
  BY <1>14, <1>4, <1>7, <1>9, <1>10, <1>11, <1>12, <1>13 DEF IInv

(* The garbage collector takes back an unpooled block.                     *)
LEMMA CollectStep ==
  ASSUME IInv, NEW b \in Blocks, Collect(b)
  PROVE  IInv'
<1>1. TypeOK /\ SingleOwner /\ Links
  BY DEF IInv
<1>2. /\ b \notin fresh /\ b \notin held /\ classIdx[b] \notin Classes
      /\ fresh' = fresh \cup {b} /\ word' = [word EXCEPT ![b] = NULL]
      /\ magic' = [magic EXCEPT ![b] = magicFree] /\ cap' = [cap EXCEPT ![b] = NoShape]
      /\ UNCHANGED <<freeLists, classIdx, held, want, stored, pc, frame>>
  BY UnpooledIsNoClass DEF Collect, callerVars
<1>3. \A a \in Blocks \ {b} : /\ word'[a] = word[a] /\ magic'[a] = magic[a]
                              /\ classIdx'[a] = classIdx[a] /\ cap'[a] = cap[a]
  BY <1>1, <1>2 DEF TypeOK
<1>4. TypeOK'
  BY <1>1, <1>2 DEF TypeOK, Ref, Magics, Shape, NoShape
<1>5. \A u : /\ Own(u)' = Own(u) /\ MovedFrom(u)' = MovedFrom(u) /\ MovedTo(u)' = MovedTo(u)
  BY <1>2, SameParts
<1>6. b \notin Listed /\ \A u \in Threads : b \notin Own(u)
  <2>1. ASSUME NEW u \in Threads PROVE b \notin Own(u)
    <3>1. b # frame[u].ptr /\ b # frame[u].node /\ b # frame[u].newPtr
      BY DEF Collect
    <3>2. b \notin Popped(u)
      <4>1. pc[u] \in {"pop_clear", "pop_magic"} =>
              classIdx[frame[u].head] = ClassIndex(frame[u].size)
              /\ ClassIndex(frame[u].size) \in Classes
        BY InvOf DEF CallHeaders, CallShape, Popping
      <4> QED
        BY <1>2, <4>1 DEF Popped
    <3> QED
      BY <3>1, <3>2 DEF Own, Dying, MovedFrom, MovedTo
  <2> QED
    BY <1>2, <2>1 DEF Listed
<1>7. Listed' = Listed
  BY <1>2, <1>5 DEF Listed
<1>8. SingleOwner'
  BY <1>1, <1>2, <1>5, <1>6, <1>7 DEF SingleOwner
<1>9. Links'
  <2>1. \A a \in Listed : word'[a] = word[a]
    BY <1>3, <1>6 DEF Listed
  <2> QED
    BY <1>1, <1>2, <1>7, <2>1 DEF Links
<1>10. ASSUME NEW u \in Threads PROVE CallInv(u)'
  <2>1. pc[u] \in {"pop_next", "pop_cas"} => frame[u].head \in Listed'
    BY <1>7, InvOf DEF PopReads
  <2>2. {b} \cap (Listed \cup Own(u)) = {}
    BY <1>6
  <2> QED
    BY <1>2, <1>3, <2>1, <2>2, OthersKeep
<1>11. (\A a \in held' : LiveHeader(a)') /\ Memory' /\ Fits'
  BY <1>1, <1>2, <1>3 DEF IInv, LiveHeader, Memory, Fits, TypeOK
<1>12. \A a \in stored : a # b /\ a \in Blocks
  BY <1>1, <1>2, <1>6 DEF IInv, HasParty, Own, TypeOK
<1>13. PayloadIntact'
  BY <1>2, <1>3, <1>12 DEF IInv, PayloadIntact
<1>14. \A a \in stored' : HasParty(a)'
  BY <1>2, <1>5 DEF IInv, HasParty
<1>15. Chains'
  BY <1>2, <1>3, <1>6, <1>7, StacksKept DEF IInv, Listed
<1> QED
  BY <1>15, <1>4, <1>8, <1>9, <1>10, <1>11, <1>13, <1>14 DEF IInv
==============================================================================
