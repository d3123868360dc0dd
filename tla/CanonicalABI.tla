----------------------------- MODULE CanonicalABI -----------------------------
(***************************************************************************)
(* How values cross the boundary of a WebAssembly component.  A type is a  *)
(* term, of which Layout makes a tree of nodes with sizes and offsets; the *)
(* interface file gives one tree, by the rules of the canonical ABI, and   *)
(* the Go declarations another, by the layout of Go structs and of package *)
(* cm.  One side stores a value by its tree in linear memory or in core    *)
(* parameters, the other side loads it by its own.                         *)
(*                                                                         *)
(* A value is the set of its leaves <<path, what>>: for a scalar, what is  *)
(* the path itself (its content, whatever it is), for a variant the name   *)
(* of the case, for a list whether it is empty.  A list that is not has    *)
(* Length elements, of which the first and the last are kept.              *)
(***************************************************************************)
EXTENDS LinearMemory, SequencesExt, FiniteSets

Length == 3
Positions == << <<"first", 0>>, <<"last", Length - 1>> >>

-----------------------------------------------------------------------------
(* Types, by their construction: kind, numbers and parts. *)
Scalar(size, core) == [kind |-> "scalar", size |-> size, core |-> core]
Bool == Scalar(1, "i32")
U8   == Scalar(1, "i32")
U16  == Scalar(2, "i32")
U32  == Scalar(4, "i32")
U64  == Scalar(8, "i64")
S64  == U64
F64  == Scalar(8, "f64")
Handle == U32

ListOf(name, T) == [kind |-> "list", name |-> name, elem |-> T]
List(T) == ListOf("elem", T)
String  == ListOf("char", U8)
Struct(fields) == [kind |-> "record", fields |-> fields]
Unit == Struct(<<>>)
Flags(size, names) == [kind |-> "flags", size |-> size, names |-> names]
plain(names) == [i \in DOMAIN names |-> <<names[i], Unit>>]

(* A tag of so many bytes, and room that has the size of the largest of    *)
(* some types and the alignment of the strictest of others.                *)
Tagged(tag, room, aligned, cases) ==
  [kind |-> "variant", tag |-> tag, room |-> room, aligned |-> aligned, cases |-> cases]
Types(cases) == [i \in DOMAIN cases |-> cases[i][2]]

(* Those of the canonical ABI.                                             *)
Variant(cases) == Tagged(1, Types(cases), Types(cases), cases)
Enum(names)    == Variant(plain(names))
Option(T)      == Variant(<< <<"none", Unit>>, <<"some", T>> >>)
Result(T, E)   == Variant(<< <<"ok", T>>, <<"err", E>> >>)
Tuple(S, T)    == Struct(<< <<"0", S>>, <<"1", T>> >>)

(* Those of package cm and of the declarations that use it.                *)
GoVariant(tag, shape, align, cases) == Tagged(tag, <<shape>>, <<shape, align>>, cases)
GoEnum(names) == Tagged(1, <<>>, <<>>, plain(names))
GoOption(T)   == Tagged(1, <<T>>, <<T>>, << <<"none", Unit>>, <<"some", T>> >>)
GoResult(shape, T, E) == Tagged(1, <<shape>>, <<shape, T, E>>, << <<"ok", T>>, <<"err", E>> >>)
BoolResult == GoEnum(<<"ok", "err">>)
(* struct { shape [unsafe.Sizeof(T{})]byte } *)
Shape(T) == [kind |-> "shape", of |-> T]

-----------------------------------------------------------------------------
(* A type laid out. *)
RECURSIVE Layout(_)
Layouts(types) ==
  LET laid[i \in 0 .. Len(types)] == IF i = 0 THEN <<>> ELSE Append(laid[i - 1], Layout(types[i]))
  IN  laid[Len(types)]
Layout(T) ==
  CASE T.kind = "scalar"  -> Node("scalar", T.size, T.size, T.core, 0, <<>>)
    [] T.kind = "list"    -> Node("list", 8, 4, "i32", 0, <<Placed(T.name, Layout(T.elem), 0)>>)
    [] T.kind = "flags"   ->
         Node("flags", T.size, T.size, "i32", 0,
              [i \in DOMAIN T.names |-> Placed(T.names[i], Layout(Unit), i - 1)])
    [] T.kind = "record"  -> RecordNode([i \in DOMAIN T.fields |-> T.fields[i][1]], Layouts(Types(T.fields)))
    [] T.kind = "variant" ->
         VariantNode([i \in DOMAIN T.cases |-> T.cases[i][1]], Layouts(Types(T.cases)), T.tag,
                     Widest({node.size : node \in ToSet(Layouts(T.room))}),
                     Widest({node.align : node \in ToSet(Layouts(T.aligned))} \cup {1}))
    [] T.kind = "shape"   -> [Layout(T.of) EXCEPT !.align = 1]

-----------------------------------------------------------------------------
(* The values of a type that are tried: every case of every variant, every *)
(* flag and every empty list, one departure from the first value at a time. *)
RECURSIVE Values(_, _), Usual(_, _)
Part(p, part) == p \o <<part.name>>

Usual(T, p) ==
  CASE T.kind = "scalar"  -> {<<p, p>>}
    [] T.kind = "flags"   -> {}
    [] T.kind = "record"  -> UNION {Usual(T.parts[i].type, Part(p, T.parts[i])) : i \in DOMAIN T.parts}
    [] T.kind = "variant" ->
         LET c == T.parts[Len(T.parts)] IN {<<p, <<c.name>>>>} \cup Usual(c.type, Part(p, c))
    [] T.kind = "list"    ->
         {<<p, <<"full">>>>} \cup UNION {Usual(T.parts[1].type, p \o <<Positions[i][1]>>) : i \in 1 .. 2}

Values(T, p) ==
  CASE T.kind = "scalar"  -> {Usual(T, p)}
    [] T.kind = "flags"   -> {{<<Part(p, T.parts[i]), <<"set">>>> : i \in I} :
                                I \in {DOMAIN T.parts} \cup {{i} : i \in DOMAIN T.parts}}
    [] T.kind = "record"  ->
         {Usual(T, p)} \cup
         UNION {LET q == Part(p, T.parts[i])
                    rest == UNION {Usual(T.parts[j].type, Part(p, T.parts[j])) : j \in DOMAIN T.parts \ {i}}
                IN  {rest \cup v : v \in Values(T.parts[i].type, q)} : i \in DOMAIN T.parts}
    [] T.kind = "variant" ->
         UNION {LET c == T.parts[i]
                IN  {{<<p, <<c.name>>>>} \cup v : v \in Values(c.type, Part(p, c))} : i \in DOMAIN T.parts}
    [] T.kind = "list"    ->
         {{<<p, <<"empty">>>>}} \cup
         LET last == Usual(T.parts[1].type, p \o <<"last">>)
         IN  {{<<p, <<"full">>>>} \cup last \cup v : v \in Values(T.parts[1].type, p \o <<"first">>)}

-----------------------------------------------------------------------------
(* Values in memory and in core parameters. *)
Slot(core, of, n) == [core |-> core, of |-> of, n |-> n]
CaseOf(T, p, v) == CHOOSE i \in DOMAIN T.parts : <<p, <<T.parts[i].name>>>> \in v
FlagBits(T, p, v) == {i \in DOMAIN T.parts : <<Part(p, T.parts[i]), <<"set">>>> \in v}
Bits(T, I) ==
  LET sum[i \in 0 .. Len(T.parts)] ==
        IF i = 0 THEN 0 ELSE sum[i - 1] + (IF i \in I THEN 2^T.parts[i].at ELSE 0)
  IN  sum[Len(T.parts)]

(* Stores value v of type T at address a of memory m.  The host (host =    *)
(* TRUE) gets the blocks of lists from cabi_realloc; a string it converts, *)
(* so it asks for a byte per character first, enlarges the block when the  *)
(* text turns out longer and cuts it to length in the end.                 *)
RECURSIVE Store(_, _, _, _, _, _)
Put(T, p, v, i, block, host) ==
  [block EXCEPT !.mem = Store(T.parts[1].type, p \o <<Positions[i][1]>>, v,
                              block.ptr + Positions[i][2] * T.parts[1].type.size, @, host)]
Filled(T, p, v, n, block, host) ==
  CASE n = 0 -> block
    [] n # 0 /\ host /\ T.parts[1].name = "char" ->
         Resized(Put(T, p, v, 2, Resized(Put(T, p, v, 1, block, host), n, 3 * n), host), 3 * n, n)
    [] n # 0 /\ ~ (host /\ T.parts[1].name = "char") ->
         Put(T, p, v, 2, Put(T, p, v, 1, block, host), host)
Elements(p, v) == IF <<p, <<"empty">>>> \in v THEN 0 ELSE Length

Store(T, p, v, a, m, host) ==
  CASE T.kind = "scalar"  -> Write(m, Cell(a, T.size, p, 0))
    [] T.kind = "flags"   -> Write(m, Cell(a, T.size, <<>>, Bits(T, FlagBits(T, p, v))))
    [] T.kind = "record"  ->
         LET mem[i \in 0 .. Len(T.parts)] ==
               IF i = 0 THEN m
               ELSE Store(T.parts[i].type, Part(p, T.parts[i]), v, a + T.parts[i].at, mem[i - 1], host)
         IN  mem[Len(T.parts)]
    [] T.kind = "variant" ->
         LET i == CaseOf(T, p, v)
             c == T.parts[i]
         IN  Store(c.type, Part(p, c), v, a + c.at, Write(m, Cell(a, T.tag, <<>>, i - 1)), host)
    [] T.kind = "list"    ->
         LET elem == T.parts[1].type
             n    == Elements(p, v)
         IN  Pointed(Filled(T, p, v, n, IF host THEN Realloc(m, nil, 0, elem.align, n * elem.size)
                                        ELSE GoNew(m, n * elem.size), host), n, a)

(* The leaves found at address a by a reader who takes it for a T. *)
RECURSIVE Load(_, _, _, _)
LoadList(T, p, ptr, n, m) ==
  LET elem == T.parts[1].type
  IN  CASE n = 0 -> {<<p, <<"empty">>>>}
        [] n = Length -> {<<p, <<"full">>>>} \cup
             UNION {Load(elem, p \o <<Positions[i][1]>>, ptr + Positions[i][2] * elem.size, m) : i \in 1 .. 2}
        [] n \notin {0, Length} -> {<<p, <<"lost">>>>}

LoadFlags(T, p, n) == {<<Part(p, T.parts[i]), <<"set">>>> : i \in {i \in DOMAIN T.parts : (n \div 2^T.parts[i].at) % 2 = 1}}

Load(T, p, a, m) ==
  CASE T.kind = "scalar"  -> {<<p, Read(m, a, T.size).of>>}
    [] T.kind = "flags"   -> LoadFlags(T, p, Read(m, a, T.size).n)
    [] T.kind = "record"  -> UNION {Load(T.parts[i].type, Part(p, T.parts[i]), a + T.parts[i].at, m) : i \in DOMAIN T.parts}
    [] T.kind = "variant" ->
         LET i == Read(m, a, T.tag).n + 1
         IN  IF i \notin DOMAIN T.parts THEN {<<p, <<"lost">>>>}
             ELSE {<<p, <<T.parts[i].name>>>>} \cup Load(T.parts[i].type, Part(p, T.parts[i]), a + T.parts[i].at, m)
    [] T.kind = "list"    -> LoadList(T, p, Read(m, a, 4).n, Read(m, a + 4, 4).n, m)

-----------------------------------------------------------------------------
(* Core parameters: the core types a T is flattened to, a value of it read *)
(* from memory into slots, and the leaves found in slots.  The cases of a  *)
(* variant share their slots.                                              *)
RECURSIVE Flat(_), Lift(_, _, _, _)
Join(s, t) ==
  [i \in 1 .. Widest({Len(s), Len(t)}) |->
     CASE i > Len(s) -> t[i] [] i > Len(t) -> s[i]
       [] i <= Len(s) /\ i <= Len(t) -> IF s[i] = t[i] THEN s[i] ELSE "i64"]
Flat(T) ==
  CASE T.kind \in {"scalar", "flags"} -> <<T.core>>
    [] T.kind = "list"    -> <<"i32", "i32">>
    [] T.kind = "record"  -> FlattenSeq([i \in DOMAIN T.parts |-> Flat(T.parts[i].type)])
    [] T.kind = "variant" ->
         LET joined[i \in 0 .. Len(T.parts)] ==
               IF i = 0 THEN <<>> ELSE Join(joined[i - 1], Flat(T.parts[i].type))
         IN  <<"i32">> \o joined[Len(T.parts)]

FirstSlot(T, k) == 1 + Len(Flat([T EXCEPT !.parts = SubSeq(@, 1, k - 1)]))
Lift(T, p, s, m) ==
  CASE T.kind = "scalar"  -> {<<p, s[1].of>>}
    [] T.kind = "flags"   -> LoadFlags(T, p, s[1].n)
    [] T.kind = "list"    -> LoadList(T, p, s[1].n, s[2].n, m)
    [] T.kind = "record"  ->
         UNION {Lift(T.parts[i].type, Part(p, T.parts[i]), SubSeq(s, FirstSlot(T, i), Len(s)), m) : i \in DOMAIN T.parts}
    [] T.kind = "variant" ->
         LET i == s[1].n + 1
         IN  IF i \notin DOMAIN T.parts THEN {<<p, <<"lost">>>>}
             ELSE {<<p, <<T.parts[i].name>>>>} \cup Lift(T.parts[i].type, Part(p, T.parts[i]), Tail(s), m)
==============================================================================
