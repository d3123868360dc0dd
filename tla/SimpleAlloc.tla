----------------------------- MODULE SimpleAlloc -----------------------------
(***************************************************************************)
(* The collector-only allocator (alloc_nomempool.go, the build without the *)
(* mempool tag): cabi_realloc cuts every block from the Go heap, which     *)
(* returns 8-byte words at an address base that is a multiple of 8, and    *)
(* cabi_free does nothing.  Sizes and addresses are uintptr values.        *)
(***************************************************************************)
EXTENDS Integers

CONSTANTS
  PtrBits,  (* width of uintptr (32 on wasm)                     *)
  zeroPtr   (* address of zeroSentinel, never part of the heap   *)

ASSUME PtrAssumption == PtrBits \in Nat /\ 2^PtrBits \in Nat \ {0} /\ zeroPtr \in Nat \ {0}

Uintptr(n) == n % 2^PtrBits
nil == 0

(* simpleAlloc: the bytes it takes from the Go heap ... *)
Padded(size, align) == IF align <= 8 THEN size ELSE Uintptr(size + align)

HeapBytes(size, align) ==
  IF size = 0 THEN 0 ELSE 8 * (Uintptr(Padded(size, align) + 7) \div 8)

(* ... and the address it returns; masking is rounding, align being a      *)
(* power of two.                                                           *)
RoundUp(addr, align) == (Uintptr(addr + align - 1) \div align) * align

simpleAlloc(size, align, base) ==
  CASE size = 0                  -> zeroPtr
    [] size # 0 /\ align <= 8    -> base
    [] size # 0 /\ ~(align <= 8) -> RoundUp(base, align)

(* A block that is not grown stays where it is.                            *)
InPlace(ptr, oldSize, align, newSize) == newSize <= oldSize /\ ptr % align = 0

Fresh(size, align, base, copied) ==
  [ptr |-> simpleAlloc(size, align, base), bytes |-> HeapBytes(size, align), copied |-> copied]

(* cabi_realloc with the Go heap at base: the block, the bytes taken from  *)
(* the heap and the bytes copied from ptr.                                 *)
cabi_realloc(ptr, oldSize, align, newSize, base) ==
  CASE ptr = nil \/ newSize = 0 -> Fresh(newSize, align, base, 0)
    [] ptr # nil /\ newSize # 0 /\ InPlace(ptr, oldSize, align, newSize) ->
         [ptr |-> ptr, bytes |-> 0, copied |-> 0]
    [] ptr # nil /\ newSize # 0 /\ ~ InPlace(ptr, oldSize, align, newSize) ->
         Fresh(newSize, align, base, oldSize)
==============================================================================
