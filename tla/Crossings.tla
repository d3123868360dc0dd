------------------------------ MODULE Crossings ------------------------------
(***************************************************************************)
(* What crosses the boundary.  One side stores a value by the layout it    *)
(* knows, the other loads it by its own; between them lie the blocks of    *)
(* the collector-only allocator.                                           *)
(***************************************************************************)
EXTENDS CanonicalABI

CONSTANTS
  Imports,  (* functions of the host: [call, wit, go], as either side declares them *)
  Exports   (* functions of the component: name -> [call, wit, go]                  *)

Go == INSTANCE HttpBindings

-----------------------------------------------------------------------------
(* Core values of a value that lies at a: what a caller passes plainly. *)
RECURSIVE Plainly(_, _, _)
Plainly(T, a, m) ==
  CASE T.kind = "scalar"  -> <<Go!Core1(m, a, T.size, T.core)>>
    [] T.kind = "list"    -> Go!LowerString(m, a)
    [] T.kind = "variant" -> <<Go!Tag(m, a)>>
    [] T.kind = "record"  -> FlattenSeq([i \in DOMAIN T.parts |-> Plainly(T.parts[i].type, a + T.parts[i].at, m)])

Cores(slots) == [i \in DOMAIN slots |-> slots[i].core]
Lifted(T, slots, m) == IF Cores(slots) = Flat(T) THEN Lift(T, <<>>, slots, m) ELSE {}
MaxFlatParams  == 16
MaxFlatResults == 1

(* Room for a T, and value v stored in it. *)
Stored(T, v, room, isHost) == [at |-> room.ptr, mem |-> Store(T, <<>>, v, room.ptr, room.mem, isHost)]
GoValue(T, v)   == Stored(T, v, GoNew(Memory, T.size), FALSE)
HostValue(T, v) == Stored(T, v, Realloc(Memory, nil, 0, T.align, T.size), TRUE)

(* What the other side sees of v, by the declarations w and g of a call. *)
Lowered(T, s) == FlattenSeq([i \in DOMAIN T.parts |-> Go!Lower(T.parts[i].type, s.mem, s.at + T.parts[i].at)])
IfFew(slots, T, m) == IF Len(slots) <= MaxFlatParams THEN Lifted(T, slots, m) ELSE {}
ArgsOf(w, g, s) == IfFew(Lowered(g.params, s), w.params, s.mem)
ImportArgs(w, g, v) == ArgsOf(w, g, GoValue(g.params, v))

Passing(T) == CASE Len(Flat(T)) = 0 -> "none"
                [] Len(Flat(T)) = MaxFlatResults -> "core"
                [] Len(Flat(T)) > MaxFlatResults -> "memory"
Taken(T, s, plainly) ==
  IF plainly THEN Lifted(T.as, Plainly(T.is, s.at, s.mem), s.mem) ELSE Load(T.as, <<>>, s.at, s.mem)
ImportResult(w, g, v) ==
  LET room == GoNew(Memory, g.result.size)
  IN  CASE g.ret # Passing(w.result) -> {<<"passed", g.ret>>}
        [] g.ret = Passing(w.result) /\ g.ret = "none" -> {}
        [] g.ret = Passing(w.result) /\ g.ret = "core" ->
             Taken([is |-> w.result, as |-> g.result], HostValue(w.result, v), TRUE)
        [] g.ret = Passing(w.result) /\ g.ret = "memory" ->
             Taken([is |-> w.result, as |-> g.result], Stored(w.result, v, room, TRUE), FALSE)

ExportArgs(w, g, v) ==
  LET plainly == Len(Flat(w.params)) <= MaxFlatParams
  IN  IF g.in = (IF plainly THEN "core" ELSE "memory")
      THEN Taken([is |-> w.params, as |-> g.params], HostValue(w.params, v), plainly)
      ELSE {<<"passed", g.in>>}
ExportResult(w, g, v) == Taken([is |-> g.result, as |-> w.result], GoValue(g.result, v), FALSE)

-----------------------------------------------------------------------------
(* A value that crossed: of which call, what got lost, what was made up.   *)
Crossing(call, sent, seen) == [call |-> call, lost |-> sent \ seen, extra |-> seen \ sent]

(* The case of a result, and of its error. *)
Case(v, p) == {leaf[2][1] : leaf \in {l \in v : l[1] = p}}
Outcome(v) == Case(v, <<>>) \cup Case(v, <<"err">>)

HostCrossings(f) ==
  {Crossing(f.call, v, ImportArgs(f.wit, f.go, v)) : v \in Values(f.go.params, <<>>)}
  \cup {Crossing(f.call, v, ImportResult(f.wit, f.go, v)) : v \in Values(f.wit.result, <<>>)}
ArgCrossings(f) == {Crossing(f.call, v, ExportArgs(f.wit, f.go, v)) : v \in Values(f.wit.params, <<>>)}
ResultCrossings(f) ==
  {[outcome |-> Outcome(v), crossing |-> Crossing(f.call, v, ExportResult(f.wit, f.go, v))] :
     v \in Values(f.go.result, <<>>)}

ImportCrossings == {HostCrossings(f) : f \in Imports}
ArgumentCrossings(name) == ArgCrossings(Exports[name])
AnswerCrossings(name) == ResultCrossings(Exports[name])
==============================================================================
