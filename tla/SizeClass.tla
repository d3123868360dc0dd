------------------------------ MODULE SizeClass ------------------------------
(***************************************************************************)
(* The size arithmetic of the pooled allocator (alloc_mempool.go): the     *)
(* size classes 2^MinBlockShift .. 2^MaxBlockShift, the header in front of *)
(* every payload and the layout of an unpooled block.  Addresses and sizes *)
(* are uintptr values of WordBits bits: additions wrap.                    *)
(***************************************************************************)
EXTENDS Integers

CONSTANTS
  MinBlockShift,  (* minBlockShift: log2 of the smallest pooled block *)
  MaxBlockShift,  (* maxBlockShift: log2 of the largest pooled block  *)
  HeaderSize,     (* headerSize: bytes of blockHeader before a payload *)
  WordBits        (* width of uintptr (32 on wasm)                    *)

ASSUME SizesAssumption ==
  /\ MinBlockShift \in Nat /\ MaxBlockShift \in Nat
  /\ MinBlockShift <= MaxBlockShift /\ MaxBlockShift < WordBits
  /\ WordBits \in Nat
  /\ HeaderSize \in Nat \ {0}
  /\ \A s \in MinBlockShift .. MaxBlockShift : 2^s \in Nat /\ HeaderSize < 2^s
  /\ 2^WordBits \in Nat /\ HeaderSize < 2^WordBits

Word(n) == n % 2^WordBits

numClasses == MaxBlockShift - MinBlockShift + 1
Classes == 0 .. numClasses - 1
Unpooled == -1

BlockSize(c) == 2^(MinBlockShift + c)
UsableSize(c) == BlockSize(c) - HeaderSize

(* The classes whose block holds a header and size bytes. *)
FittingClasses(size) == {c \in Classes : Word(size + HeaderSize) <= BlockSize(c)}

(* classIndex: the first class that fits, -1 when none does. *)
ClassIndex(size) ==
  IF FittingClasses(size) = {}
  THEN Unpooled
  ELSE CHOOSE c \in FittingClasses(size) : \A d \in FittingClasses(size) : c <= d

(* x rounded up to a multiple of a, (x + a - 1) &^ (a - 1) for a a power of 2. *)
AlignUp(x, a) == Word(x + a - 1) - (Word(x + a - 1) % a)

(* sysAlloc: bytes really obtained from the Go heap, whole 8-byte words. *)
SysBytes(size) == 8 * (Word(size + 7) \div 8)

(* fallbackAlloc: the address handed out and the bytes obtained at base. *)
FallbackAlign(align) == IF align < HeaderSize THEN HeaderSize ELSE align

(* Mutant of FallbackBytes: no room for what the alignment skips. *)
FallbackBytesNoPadding(size, align) == SysBytes(Word(size + HeaderSize))

FallbackBytes(size, align) ==
  SysBytes(Word(size + FallbackAlign(align) + HeaderSize))

FallbackPayload(base, align) == AlignUp(Word(base + HeaderSize), FallbackAlign(align))
==============================================================================
