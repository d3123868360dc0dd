---------------------------- MODULE LinearMemory ----------------------------
(***************************************************************************)
(* What a crossing is made of: where the parts of a record or a variant    *)
(* lie, and a linear memory whose blocks come from the collector-only      *)
(* allocator.                                                              *)
(***************************************************************************)
EXTENDS SimpleAlloc, Sequences, FiniteSetsExt

CONSTANTS HeapStart  (* where the Go heap begins, a multiple of 8 *)

ASSUME HeapAssumption == HeapStart \in Nat \ {nil} /\ HeapStart % 8 = 0

-----------------------------------------------------------------------------
(* A type laid out: size, alignment, core type of a scalar, bytes of a     *)
(* tag, and the parts with their offsets.                                  *)
Node(kind, size, align, core, tag, parts) ==
  [kind |-> kind, size |-> size, align |-> align, core |-> core, tag |-> tag, parts |-> parts]
Placed(name, node, at) == [name |-> name, type |-> node, at |-> at]

Up(n, align) == ((n + align - 1) \div align) * align
Widest(S) == Max(S \cup {0})

(* The first i fields, every one at the next multiple of its alignment,    *)
(* and where they end.                                                     *)
Fields(names, nodes) ==
  LET placed[i \in 0 .. Len(nodes)] ==
        IF i = 0 THEN [end |-> 0, parts |-> <<>>]
        ELSE LET before == placed[i - 1]
                 at     == Up(before.end, nodes[i].align)
             IN  [end |-> at + nodes[i].size, parts |-> Append(before.parts, Placed(names[i], nodes[i], at))]
  IN  placed

RecordNode(names, nodes) ==
  LET all   == Fields(names, nodes)[Len(nodes)]
      align == Widest({nodes[i].align : i \in DOMAIN nodes} \cup {1})
  IN  Node("record", Up(all.end, align), align, "", 0, all.parts)

VariantNode(names, nodes, tag, room, align) ==
  LET at == Up(tag, align)
      a  == Widest({tag, align})
  IN  Node("variant", Up(at + room, a), a, "i32", tag,
           [i \in DOMAIN nodes |-> Placed(names[i], nodes[i], at)])

-----------------------------------------------------------------------------
(* Linear memory: where the Go heap ends, and cells of width bytes that    *)
(* hold a number n (a tag, an address, a length) or the content of a path. *)
Memory == [brk |-> HeapStart, cells |-> {}]
Cell(at, width, of, n) == [at |-> at, width |-> width, of |-> of, n |-> n]
Overlap(c, at, width) == c.at < at + width /\ at < c.at + c.width
Write(m, c) == [m EXCEPT !.cells = {d \in @ : ~ Overlap(d, c.at, c.width)} \cup {c}]
Nothing == [of |-> <<"lost">>, n |-> -1]
Read(m, at, width) ==
  LET found == {c \in m.cells : Overlap(c, at, width)}
  IN  IF \E c \in found : c.at = at /\ c.width = width /\ found = {c}
      THEN LET c == CHOOSE c \in found : TRUE IN [of |-> c.of, n |-> c.n]
      ELSE Nothing

(* cabi_realloc, called by the host: what is copied moves along. *)
Realloc(m, ptr, oldSize, align, newSize) ==
  LET r == cabi_realloc(ptr, oldSize, align, newSize, m.brk)
      copies == {[c EXCEPT !.at = @ - ptr + r.ptr] :
                   c \in {c \in m.cells : ptr <= c.at /\ c.at + c.width <= ptr + r.copied}}
      kept == {d \in m.cells : \A c \in copies : ~ Overlap(d, c.at, c.width)}
  IN  [ptr |-> r.ptr, mem |-> [brk |-> m.brk + r.bytes, cells |-> kept \cup copies]]

(* A block of the Go heap, for the Go program itself. *)
GoNew(m, size) == [ptr |-> IF size = 0 THEN zeroPtr ELSE m.brk, mem |-> [m EXCEPT !.brk = Up(@ + size, 8)]]

(* The block of n bytes gets m bytes, as a host does that converts a text. *)
Resized(block, n, m) == Realloc(block.mem, block.ptr, n, 1, m)

(* A list at address a: a pointer to its n elements, and n. *)
Pointed(block, n, a) == Write(Write(block.mem, Cell(a, 4, <<>>, block.ptr)), Cell(a + 4, 4, <<>>, n))
==============================================================================
