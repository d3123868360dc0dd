------------------------- MODULE LinearMemoryProofs -------------------------
(***************************************************************************)
(* What a crossing rests on, for values of every size.  The layouts:       *)
(* fields and payloads lie aligned and apart (RecordApart, VariantApart).  *)
(* The collector-only allocator: blocks lie inside what is taken for them  *)
(* and keep their content (SimpleLayout, SimpleRealloc, ReallocKeeps).     *)
(* The memory: a value that is stored writes to its own bytes and to new   *)
(* blocks only (Stores), and then so does a record, a variant, a list or a *)
(* text made of such values, in which none of the parts is lost            *)
(* (WriteStores, RecordCrosses, VariantCrosses, ListCrosses, TextCrosses). *)
(* These are the steps of an induction over the types of the interface.    *)
(***************************************************************************)
EXTENDS LinearMemory, WellFoundedInduction, TLAPS

(* The alignments of the values of an interface. *)
Aligns == {1, 2, 4, 8}

(* Every non-empty set of naturals has a least element. *)
LEMMA LeastElement ==
  ASSUME NEW T \in SUBSET Nat, T # {}
  PROVE  \E n \in T : \A m \in T : n <= m
<1> DEFINE R == {ss \in Nat \X Nat : ss[1] < ss[2]}
<1>1. IsWellFoundedOn(R, Nat) BY NatLessThanWellFounded DEF OpToRel
<1>2. PICK n \in T : \A m \in T : ~ (<<m, n>> \in R) BY <1>1, WFMin
<1>3. \A m \in T : n <= m
  <2> SUFFICES ASSUME NEW m \in T PROVE n <= m OBVIOUS
  <2>1. m \in Nat /\ n \in Nat /\ ~ (m < n) BY <1>2
  <2> QED BY <2>1
<1> QED BY <1>3

(* A set with 0 that has k whenever it has k - 1 has all of 0 .. n. *)
LEMMA CountUp ==
  ASSUME NEW n \in Nat, NEW T, 0 \in T, \A k \in 1 .. n : k - 1 \in T => k \in T
  PROVE  \A k \in 0 .. n : k \in T
<1> DEFINE Missing == {k \in 0 .. n : k \notin T}
<1> SUFFICES ASSUME Missing # {} PROVE FALSE OBVIOUS
<1>0. Missing \in SUBSET Nat OBVIOUS
<1>1. PICK k \in Missing : \A j \in Missing : k <= j BY <1>0, LeastElement
<1>2. k \in 1 .. n /\ k - 1 \in 0 .. n BY <1>1
<1>3. k - 1 \in T BY <1>1, <1>2
<1> QED BY <1>1, <1>2, <1>3

(* Rounding up to a multiple of a. *)
LEMMA UpFacts ==
  ASSUME NEW n \in Nat, NEW a \in Nat \ {0}
  PROVE  Up(n, a) \in Nat /\ n <= Up(n, a) /\ Up(n, a) < n + a /\ Up(n, a) % a = 0
<1> DEFINE y == n + a - 1
<1>1. y \in Nat OBVIOUS
<1>2. y \div a \in Nat /\ y % a \in Nat /\ y % a < a /\ y = a * (y \div a) + (y % a) BY <1>1
<1>3. PICK q \in Nat, r \in Nat : q = y \div a /\ r = y % a BY <1>2
<1>4. Up(n, a) = q * a BY <1>3 DEF Up
<1>5. y = a * q + r /\ r < a /\ a * q = q * a /\ q * a \in Nat BY <1>2, <1>3
<1>6. (q * a) % a = 0 BY <1>5, SMTT(30)
<1> HIDE DEF y
<1>7. y = n + a - 1 BY DEF y
<1> QED BY <1>4, <1>5, <1>6, <1>7

LEMMA Divides ==
  ASSUME NEW n \in Nat, NEW a \in Aligns, NEW b \in Aligns, n % a = 0, a % b = 0
  PROVE  n % b = 0
<1>1. CASE a = 1 BY <1>1 DEF Aligns
<1>2. CASE a = 2 BY <1>2 DEF Aligns
<1>3. CASE a = 4 BY <1>3 DEF Aligns
<1>4. CASE a = 8 BY <1>4 DEF Aligns
<1> QED BY <1>1, <1>2, <1>3, <1>4 DEF Aligns

(* Of some alignments, the strictest is one for all of them. *)
LEMMA Strictest ==
  ASSUME NEW S \in SUBSET Aligns, S # {}
  PROVE  Widest(S) \in S /\ \A a \in S : Widest(S) % a = 0
<1>1. PICK w \in S : \A a \in S \cup {0} : w >= a
  <2>1. CASE 8 \in S BY <2>1 DEF Aligns
  <2>2. CASE 8 \notin S /\ 4 \in S BY <2>2 DEF Aligns
  <2>3. CASE 8 \notin S /\ 4 \notin S /\ 2 \in S BY <2>3 DEF Aligns
  <2>4. CASE 8 \notin S /\ 4 \notin S /\ 2 \notin S
    <3>1. S = {1} BY <2>4 DEF Aligns
    <3> QED BY <3>1
  <2> QED BY <2>1, <2>2, <2>3, <2>4
<1> DEFINE m == Max(S \cup {0})
<1>2. m \in S \cup {0} /\ \A a \in S \cup {0} : m >= a BY <1>1 DEF Max
<1> HIDE DEF m
<1>3. m \in S BY <1>1, <1>2 DEF Aligns
<1>4. ASSUME NEW a \in S PROVE m % a = 0
  <2>1. m \in Aligns /\ a \in Aligns /\ m >= a BY <1>2, <1>3
  <2> QED BY <2>1 DEF Aligns
<1> QED BY <1>3, <1>4 DEF Widest, m

-----------------------------------------------------------------------------
(* Fields is what its recursive definition says it is. *)
LEMMA FieldsEquation ==
  ASSUME NEW names, NEW nodes, Len(nodes) \in Nat
  PROVE  Fields(names, nodes) =
           [i \in 0 .. Len(nodes) |->
              IF i = 0 THEN [end |-> 0, parts |-> <<>>]
              ELSE LET before == Fields(names, nodes)[i - 1]
                       at     == Up(before.end, nodes[i].align)
                   IN  [end |-> at + nodes[i].size,
                        parts |-> Append(before.parts, Placed(names[i], nodes[i], at))]]
<1> DEFINE n == Len(nodes)
           After(before, i) ==
             LET at == Up(before.end, nodes[i].align)
             IN  [end |-> at + nodes[i].size, parts |-> Append(before.parts, Placed(names[i], nodes[i], at))]
           Is(g, k) == g = [i \in 0 .. k |-> IF i = 0 THEN [end |-> 0, parts |-> <<>>] ELSE After(g[i - 1], i)]
<1>0. n \in Nat OBVIOUS
<1>1. Fields(names, nodes) = CHOOSE g : Is(g, n) BY DEF Fields
<1> HIDE DEF After, n
<1>2. \E g : Is(g, 0)
  <2> DEFINE g == [i \in 0 .. 0 |-> [end |-> 0, parts |-> <<>>]]
  <2>1. Is(g, 0) OBVIOUS
  <2> HIDE DEF g, Is
  <2> QED BY <2>1
<1>3. ASSUME NEW k \in 1 .. n, \E g : Is(g, k - 1) PROVE \E g : Is(g, k)
  <2>1. PICK g : Is(g, k - 1) BY <1>3
  <2> DEFINE h == [i \in 0 .. k |-> IF i = 0 THEN [end |-> 0, parts |-> <<>>] ELSE After(g[i - 1], i)]
  <2>2. \A i \in 0 .. k - 1 : g[i] = IF i = 0 THEN [end |-> 0, parts |-> <<>>] ELSE After(g[i - 1], i)
    BY <2>1
  <2>3. \A i \in 0 .. k - 1 : h[i] = g[i] BY <1>0, <2>2
  <2> HIDE DEF h
  <2>4. \A i \in 1 .. k : i - 1 \in 0 .. k - 1 BY <1>0
  <2>a. \A i \in 1 .. k : h[i - 1] = g[i - 1] BY <2>3, <2>4
  <2>5. \A i \in 0 .. k : (IF i = 0 THEN [end |-> 0, parts |-> <<>>] ELSE After(g[i - 1], i))
                          = (IF i = 0 THEN [end |-> 0, parts |-> <<>>] ELSE After(h[i - 1], i))
    BY <1>0, <2>a
  <2>6. Is(h, k) BY <2>5 DEF h
  <2> HIDE DEF Is
  <2> QED BY <2>6
<1>4. \E g : Is(g, n)
  <2> DEFINE T == {k \in 0 .. n : \E g : Is(g, k)}
  <2> HIDE DEF Is
  <2>1. 0 \in T BY <1>0, <1>2
  <2>2. \A k \in 1 .. n : k - 1 \in T => k \in T BY <1>3
  <2> HIDE DEF T
  <2>3. n \in T BY <1>0, <2>1, <2>2, CountUp
  <2> QED BY <2>3 DEF T
<1>5. Is(Fields(names, nodes), n)
  <2> HIDE DEF Is
  <2> QED BY <1>1, <1>4
<1> QED BY <1>5 DEF After, n

(* One more field. *)
LEMMA FieldsStep ==
  ASSUME NEW names, NEW nodes, Len(nodes) \in Nat
  PROVE  /\ Fields(names, nodes)[0] = [end |-> 0, parts |-> <<>>]
         /\ \A i \in 1 .. Len(nodes) :
              LET before == Fields(names, nodes)[i - 1]
                  at     == Up(before.end, nodes[i].align)
              IN  Fields(names, nodes)[i] =
                    [end |-> at + nodes[i].size,
                     parts |-> Append(before.parts, Placed(names[i], nodes[i], at))]
<1> DEFINE n == Len(nodes)
           F == Fields(names, nodes)
           After(i) ==
             LET before == F[i - 1]
                 at     == Up(before.end, nodes[i].align)
             IN  [end |-> at + nodes[i].size, parts |-> Append(before.parts, Placed(names[i], nodes[i], at))]
<1>1. F = [i \in 0 .. n |-> IF i = 0 THEN [end |-> 0, parts |-> <<>>] ELSE After(i)]
  BY FieldsEquation
<1>2. n \in Nat OBVIOUS
<1> HIDE DEF After, F, n
<1>3. F[0] = [end |-> 0, parts |-> <<>>] /\ \A i \in 1 .. n : F[i] = After(i) BY <1>1, <1>2
<1> QED BY <1>3 DEF After, F, n

(* The first k fields of a record: each at an offset of its alignment, in  *)
(* the order of the declaration, none within another.                      *)
Apart(parts, nodes, k, end) ==
  /\ DOMAIN parts = 1 .. k
  /\ \A i \in 1 .. k :
       /\ parts[i].type = nodes[i] /\ parts[i].at \in Nat
       /\ parts[i].at % nodes[i].align = 0 /\ parts[i].at + nodes[i].size <= end
  /\ \A i, j \in 1 .. k : i < j => parts[i].at + nodes[i].size <= parts[j].at

LEMMA FieldsApart ==
  ASSUME NEW names, NEW Nodes, NEW nodes \in Seq(Nodes),
         \A node \in Nodes : node.size \in Nat /\ node.align \in Aligns
  PROVE  LET all == Fields(names, nodes)[Len(nodes)]
         IN  all.end \in Nat /\ Apart(all.parts, nodes, Len(nodes), all.end)
<1> DEFINE n == Len(nodes)
           F == Fields(names, nodes)
           Parts == {Placed(names[i], nodes[i], at) : i \in 1 .. n, at \in Nat}
           Good(k) == F[k].end \in Nat /\ F[k].parts \in Seq(Parts) /\ Apart(F[k].parts, nodes, k, F[k].end)
           T == {k \in 0 .. n : Good(k)}
<1>0. n \in Nat /\ \A i \in 1 .. n : nodes[i] \in Nodes OBVIOUS
<1>1. /\ F[0] = [end |-> 0, parts |-> <<>>]
      /\ \A i \in 1 .. n :
           LET before == F[i - 1]
               at     == Up(before.end, nodes[i].align)
           IN  F[i] = [end |-> at + nodes[i].size,
                       parts |-> Append(before.parts, Placed(names[i], nodes[i], at))]
  BY <1>0, FieldsStep, ZenonT(40)
<1> HIDE DEF n, F
<1>2. Good(0) BY <1>1 DEF Apart
<1>3. ASSUME NEW k \in 1 .. n, Good(k - 1) PROVE Good(k)
  <2> DEFINE before == F[k - 1]
             at     == Up(before.end, nodes[k].align)
             part   == Placed(names[k], nodes[k], at)
  <2>1. k \in Nat /\ nodes[k].size \in Nat /\ nodes[k].align \in Nat \ {0} BY <1>0 DEF Aligns
  <2>2. before.end \in Nat /\ before.parts \in Seq(Parts) /\ Apart(before.parts, nodes, k - 1, before.end)
    BY <1>3
  <2>a. F[k] = [end |-> at + nodes[k].size, parts |-> Append(before.parts, part)] BY <1>1
  <2> HIDE DEF before
  <2>b. before.end \in Nat BY <2>2
  <2>4. at \in Nat /\ before.end <= at /\ at % nodes[k].align = 0 BY <2>1, <2>b, UpFacts
  <2> HIDE DEF at, part
  <2>3. F[k].end = at + nodes[k].size /\ F[k].parts = Append(before.parts, part) BY <2>a
  <2>5. part \in Parts BY <2>4 DEF part
  <2>6. part.type = nodes[k] /\ part.at = at BY DEF Placed, part
  <2> HIDE DEF Parts
  <2>7. Len(before.parts) = k - 1 BY <2>1, <2>2 DEF Apart
  <2>8. /\ F[k].parts \in Seq(Parts) /\ DOMAIN F[k].parts = 1 .. k /\ F[k].parts[k] = part
        /\ \A i \in 1 .. k - 1 : F[k].parts[i] = before.parts[i]
    BY <2>1, <2>2, <2>3, <2>5, <2>7
  <2>9. Apart(F[k].parts, nodes, k, F[k].end)
    <3>1. ASSUME NEW i \in 1 .. k
          PROVE  /\ F[k].parts[i].type = nodes[i] /\ F[k].parts[i].at \in Nat
                 /\ F[k].parts[i].at % nodes[i].align = 0
                 /\ F[k].parts[i].at + nodes[i].size <= F[k].end
      <4>1. CASE i = k BY <4>1, <2>1, <2>3, <2>4, <2>6, <2>8
      <4>2. CASE i \in 1 .. k - 1
        <5>1. /\ before.parts[i].type = nodes[i] /\ before.parts[i].at \in Nat
              /\ before.parts[i].at % nodes[i].align = 0
              /\ before.parts[i].at + nodes[i].size <= before.end
          BY <4>2, <2>2 DEF Apart
        <5>2. nodes[i].size \in Nat BY <1>0, <2>1
        <5>3. F[k].parts[i] = before.parts[i] BY <4>2, <2>8
        <5>4. before.end <= F[k].end BY <2>1, <2>b, <2>3, <2>4
        <5>5. F[k].end \in Nat BY <2>1, <2>3, <2>4
        <5> QED BY <5>1, <5>2, <5>3, <5>4, <5>5, <2>b
      <4> QED BY <4>1, <4>2, <2>1
    <3>2. ASSUME NEW i \in 1 .. k, NEW j \in 1 .. k, i < j
          PROVE  F[k].parts[i].at + nodes[i].size <= F[k].parts[j].at
      <4>1. i \in 1 .. k - 1 BY <3>2, <2>1
      <4>2. /\ F[k].parts[i] = before.parts[i] /\ before.parts[i].at \in Nat /\ nodes[i].size \in Nat
            /\ before.parts[i].at + nodes[i].size <= before.end
        BY <4>1, <1>0, <2>1, <2>2, <2>8 DEF Apart
      <4>3. CASE j = k BY <4>2, <4>3, <2>2, <2>4, <2>6, <2>8, SMTT(30)
      <4>4. CASE j \in 1 .. k - 1
        BY <3>2, <4>1, <4>2, <4>4, <2>2, <2>8 DEF Apart
      <4> QED BY <4>3, <4>4, <2>1
    <3> QED BY <3>1, <3>2, <2>8 DEF Apart
  <2> QED BY <2>1, <2>3, <2>4, <2>8, <2>9
<1> HIDE DEF Good
<1>4. n \in T
  <2>1. 0 \in T BY <1>0, <1>2
  <2>2. \A k \in 1 .. n : k - 1 \in T => k \in T BY <1>3
  <2> HIDE DEF T
  <2>3. \A k \in 0 .. n : k \in T BY <1>0, <2>1, <2>2, CountUp
  <2> QED BY <1>0, <2>3
<1> QED BY <1>4 DEF Good, F, n

(* The alignment of a record is one for all of its fields. *)
LEMMA StrictestOfAll ==
  ASSUME NEW Nodes, NEW nodes \in Seq(Nodes), \A node \in Nodes : node.align \in Aligns
  PROVE  LET align == Widest({nodes[i].align : i \in DOMAIN nodes} \cup {1})
         IN  align \in Aligns /\ \A i \in 1 .. Len(nodes) : align % nodes[i].align = 0
<1> DEFINE S == {nodes[i].align : i \in DOMAIN nodes} \cup {1}
<1>1. \A i \in 1 .. Len(nodes) : nodes[i] \in Nodes /\ i \in DOMAIN nodes OBVIOUS
<1>2. S \in SUBSET Aligns /\ S # {} BY DEF Aligns
<1>3. \A i \in 1 .. Len(nodes) : nodes[i].align \in S BY <1>1
<1> HIDE DEF S
<1>4. Widest(S) \in Aligns /\ \A a \in S : Widest(S) % a = 0 BY <1>2, Strictest
<1> QED BY <1>3, <1>4 DEF S

(* However many fields a record has and whatever they are, each lies at an *)
(* offset of its own alignment, inside the record, and clear of the other  *)
(* fields; and records that lie one after another stay aligned.            *)
THEOREM RecordApart ==
  ASSUME NEW names, NEW Nodes, NEW nodes \in Seq(Nodes),
         \A node \in Nodes : node.size \in Nat /\ node.align \in Aligns
  PROVE  LET record == RecordNode(names, nodes)
         IN  /\ Apart(record.parts, nodes, Len(nodes), record.size)
             /\ record.size \in Nat /\ record.align \in Aligns /\ record.size % record.align = 0
             /\ \A i \in 1 .. Len(nodes) : record.align % nodes[i].align = 0
<1> DEFINE n == Len(nodes)
           all == Fields(names, nodes)[n]
           align == Widest({nodes[i].align : i \in DOMAIN nodes} \cup {1})
           record == RecordNode(names, nodes)
<1>1. /\ record.parts = all.parts /\ record.size = Up(all.end, align) /\ record.align = align
  BY DEF RecordNode, Node
<1> HIDE DEF record
<1>2. all.end \in Nat /\ Apart(all.parts, nodes, n, all.end) BY FieldsApart
<1>3. align \in Aligns /\ \A i \in 1 .. n : align % nodes[i].align = 0 BY StrictestOfAll
<1>4. \A i \in 1 .. n : nodes[i].size \in Nat OBVIOUS
<1> HIDE DEF all, align, n
<1>5. align \in Nat \ {0} BY <1>3 DEF Aligns
<1>6. record.size \in Nat /\ all.end <= record.size /\ record.size % align = 0 BY <1>1, <1>2, <1>5, UpFacts
<1>7. Apart(all.parts, nodes, n, record.size)
  <2> DEFINE parts == all.parts
             end == all.end
             size == record.size
  <2>1. Apart(parts, nodes, n, end) /\ end \in Nat /\ size \in Nat /\ end <= size BY <1>2, <1>6
  <2> HIDE DEF parts, end, size
  <2>2. \A i \in 1 .. n : parts[i].at + nodes[i].size <= size
    BY <1>4, <2>1 DEF Apart
  <2>3. Apart(parts, nodes, n, size) BY <2>1, <2>2 DEF Apart
  <2> QED BY <2>3 DEF parts, size
<1> QED BY <1>1, <1>3, <1>6, <1>7 DEF record, n

(* The cases of a variant lie behind its tag, aligned and inside, as far   *)
(* as they fit the room and the alignment that the variant is declared     *)
(* with.                                                                   *)
THEOREM VariantApart ==
  ASSUME NEW names, NEW Nodes, NEW nodes \in Seq(Nodes), NEW tag \in Aligns,
         NEW room \in Nat, NEW align \in Aligns,
         \A node \in Nodes : node.size \in 0 .. room /\ node.align \in Aligns /\ align % node.align = 0
  PROVE  LET variant == VariantNode(names, nodes, tag, room, align)
         IN  /\ variant.size \in Nat /\ variant.align \in Aligns /\ variant.size % variant.align = 0
             /\ tag <= variant.size /\ variant.align % tag = 0
             /\ \A i \in 1 .. Len(nodes) :
                  LET part == variant.parts[i]
                  IN  /\ part.type = nodes[i] /\ part.at \in Nat /\ tag <= part.at
                      /\ part.at % nodes[i].align = 0 /\ variant.align % nodes[i].align = 0
                      /\ part.at + nodes[i].size <= variant.size
<1> DEFINE at == Up(tag, align)
           a == Widest({tag, align})
           variant == VariantNode(names, nodes, tag, room, align)
<1>1. /\ variant.size = Up(at + room, a) /\ variant.align = a
      /\ \A i \in 1 .. Len(nodes) : variant.parts[i] = Placed(names[i], nodes[i], at)
  BY DEF VariantNode, Node
<1> HIDE DEF variant
<1>2. a \in Aligns /\ a % tag = 0 /\ a % align = 0 BY Strictest
<1>3. tag \in Nat \ {0} /\ align \in Nat \ {0} BY DEF Aligns
<1>4. at \in Nat /\ tag <= at /\ at % align = 0 BY <1>3, UpFacts
<1> HIDE DEF a, at
<1>5. a \in Nat \ {0} BY <1>2 DEF Aligns
<1>6. variant.size \in Nat /\ at + room <= variant.size /\ variant.size % a = 0
  <2>1. at + room \in Nat BY <1>4
  <2> QED BY <1>1, <1>5, <2>1, UpFacts, ZenonT(40)
<1>7. ASSUME NEW i \in 1 .. Len(nodes)
      PROVE  LET part == variant.parts[i]
             IN  /\ part.type = nodes[i] /\ part.at \in Nat /\ tag <= part.at
                 /\ part.at % nodes[i].align = 0 /\ variant.align % nodes[i].align = 0
                 /\ part.at + nodes[i].size <= variant.size
  <2>1. nodes[i].size \in 0 .. room /\ nodes[i].align \in Aligns /\ align % nodes[i].align = 0 OBVIOUS
  <2>2. variant.parts[i].type = nodes[i] /\ variant.parts[i].at = at
    <3>1. variant.parts[i] = Placed(names[i], nodes[i], at) BY <1>1
    <3> QED BY <3>1 DEF Placed
  <2>3. at % nodes[i].align = 0 BY <1>4, <2>1, Divides
  <2>4. a % nodes[i].align = 0
    <3>1. a \in Nat BY <1>5
    <3> QED BY <1>2, <2>1, <3>1, Divides
  <2> QED BY <1>1, <1>4, <1>6, <2>1, <2>2, <2>3, <2>4
<1> QED BY <1>1, <1>2, <1>3, <1>4, <1>6, <1>7 DEF variant

-----------------------------------------------------------------------------
(* A value below 2^PtrBits is its own residue. *)
LEMMA UintptrSmall ==
  ASSUME NEW n \in Nat, n < 2^PtrBits
  PROVE  Uintptr(n) = n
<1> DEFINE M == 2^PtrBits
<1>1. M \in Nat \ {0} /\ n < M
  BY PtrAssumption
<1> HIDE DEF M
<1>2. n % M = n
  BY <1>1
<1> QED
  BY <1>2 DEF Uintptr, M

(* Rounding down to a multiple of a. *)
LEMMA RoundDown ==
  ASSUME NEW y \in Nat, NEW a \in Nat \ {0}
  PROVE  /\ y - (y % a) \in Nat /\ (y - (y % a)) % a = 0
         /\ y - a < y - (y % a) /\ y - (y % a) <= y
<1>1. y % a \in Nat /\ y % a < a
  OBVIOUS
<1>2. y \div a \in Nat /\ y = a * (y \div a) + (y % a)
  OBVIOUS
<1>3. PICK q \in Nat : q = y \div a
  BY <1>2
<1>4. y - (y % a) = a * q
  BY <1>1, <1>2, <1>3
<1>5. (a * q) % a = 0
  OBVIOUS
<1> QED
  BY <1>1, <1>4, <1>5

(* simpleAlloc never takes less than it is asked for. *)
LEMMA HeapBytesEnough ==
  ASSUME NEW size \in Nat \ {0}, NEW align \in Nat, size + align + 7 < 2^PtrBits
  PROVE  /\ Padded(size, align) = IF align <= 8 THEN size ELSE size + align
         /\ HeapBytes(size, align) \in Nat
         /\ Padded(size, align) <= HeapBytes(size, align)
<1> DEFINE n == IF align <= 8 THEN size ELSE size + align
           M == 2^PtrBits
<1>1. M \in Nat
  BY PtrAssumption
<1> HIDE DEF M
<1>2. n \in Nat /\ n < M /\ n + 7 < M /\ size + align < M
  BY <1>1 DEF M
<1>3. Uintptr(size + align) = size + align /\ Uintptr(n + 7) = n + 7
  BY <1>2, UintptrSmall DEF M
<1>4. Padded(size, align) = n
  BY <1>3 DEF Padded, Uintptr
<1> HIDE DEF n
<1>5. HeapBytes(size, align) = 8 * ((n + 7) \div 8)
  BY <1>3, <1>4 DEF HeapBytes, Uintptr
<1>6. 8 * ((n + 7) \div 8) \in Nat /\ n <= 8 * ((n + 7) \div 8)
  BY <1>2
<1> QED
  BY <1>4, <1>5, <1>6 DEF n

(* Wherever the Go heap lies, a block of the collector-only allocator is   *)
(* aligned and lies inside the words taken for it, if these lie within the *)
(* address space (simpleAlloc).                                            *)
THEOREM SimpleLayout ==
  ASSUME NEW size \in Nat \ {0}, NEW align \in Nat, align \in {1, 2, 4, 8} \/ align > 8,
         NEW base \in Nat, base % 8 = 0, size + align + 7 < 2^PtrBits,
         base + HeapBytes(size, align) <= 2^PtrBits
  PROVE  /\ simpleAlloc(size, align, base) % align = 0
         /\ base <= simpleAlloc(size, align, base)
         /\ simpleAlloc(size, align, base) + size <= base + HeapBytes(size, align)
<1> DEFINE p == simpleAlloc(size, align, base)
           bytes == HeapBytes(size, align)
<1>1. CASE align <= 8
  <2>1. p = base
    BY <1>1 DEF simpleAlloc
  <2>2. base % align = 0
    BY <1>1
  <2>3. bytes \in Nat /\ size <= bytes
    BY <1>1, HeapBytesEnough
  <2> QED
    BY <2>1, <2>2, <2>3
<1>2. CASE align > 8
  <2> DEFINE y == base + align - 1
             M == 2^PtrBits
  <2>1. bytes \in Nat /\ size + align <= bytes
    BY <1>2, HeapBytesEnough
  <2>2. M \in Nat /\ base + bytes <= M
    BY PtrAssumption
  <2> HIDE DEF M, bytes
  <2>3. y \in Nat /\ y < M /\ align \in Nat \ {0}
    BY <1>2, <2>1, <2>2
  <2>4. Uintptr(y) = y
    BY <2>3, UintptrSmall DEF M
  <2>5. p = (y \div align) * align
    BY <1>2, <2>4 DEF simpleAlloc, RoundUp, Uintptr
  <2> HIDE DEF p, y
  <2>6. /\ y - (y % align) \in Nat /\ (y - (y % align)) % align = 0
        /\ y - align < y - (y % align) /\ y - (y % align) <= y
    BY <2>3, RoundDown
  <2>7. (y \div align) * align = y - (y % align)
    <3>1. y = align * (y \div align) + (y % align) /\ y \div align \in Nat /\ y % align \in Nat
      BY <2>3
    <3>2. PICK q, r \in Nat : q = y \div align /\ r = y % align
      BY <3>1
    <3>3. y = align * q + r /\ align * q = q * align /\ q * align \in Nat
      BY <3>1, <3>2, <2>3
    <3> QED
      BY <3>2, <3>3, <2>3
  <2> QED
    BY <1>2, <2>1, <2>3, <2>5, <2>6, <2>7 DEF p, bytes, y
<1> QED
  BY <1>1, <1>2

(* A reallocation yields an aligned block of the new size, the old one or  *)
(* one inside the words taken, and copies no more than fits into it, with  *)
(* one exception: a block that shrinks and at the same time asks for an    *)
(* alignment it does not have is copied whole (cabi_realloc).              *)
THEOREM SimpleRealloc ==
  ASSUME NEW ptr \in Nat, NEW oldSize \in Nat, NEW newSize \in Nat \ {0},
         NEW align \in Nat, align \in {1, 2, 4, 8} \/ align > 8,
         NEW base \in Nat, base % 8 = 0, newSize + align + 7 < 2^PtrBits,
         base + HeapBytes(newSize, align) <= 2^PtrBits,
         NEW new, new = cabi_realloc(ptr, oldSize, align, newSize, base)
  PROVE  /\ new.ptr % align = 0
         /\ \/ new.ptr = ptr /\ newSize <= oldSize /\ new.copied = 0
            \/ base <= new.ptr /\ new.ptr + newSize <= base + new.bytes
         /\ ptr % align = 0 \/ oldSize <= newSize => new.copied <= newSize
<1>0. /\ simpleAlloc(newSize, align, base) % align = 0
      /\ base <= simpleAlloc(newSize, align, base)
      /\ simpleAlloc(newSize, align, base) + newSize <= base + HeapBytes(newSize, align)
  BY SimpleLayout
<1>1. CASE ptr = nil
  <2>1. new.ptr = simpleAlloc(newSize, align, base) /\ new.copied = 0
        /\ new.bytes = HeapBytes(newSize, align)
    BY <1>1 DEF cabi_realloc, Fresh
  <2> QED
    BY <1>0, <2>1
<1>2. CASE ptr # nil /\ InPlace(ptr, oldSize, align, newSize)
  <2>1. new.ptr = ptr /\ new.copied = 0
    BY <1>2 DEF cabi_realloc
  <2> QED
    BY <1>2, <2>1 DEF InPlace
<1>3. CASE ptr # nil /\ ~ InPlace(ptr, oldSize, align, newSize)
  <2>1. new.ptr = simpleAlloc(newSize, align, base) /\ new.copied = oldSize
        /\ new.bytes = HeapBytes(newSize, align)
    BY <1>3 DEF cabi_realloc, Fresh
  <2>2. ptr % align = 0 \/ oldSize <= newSize => oldSize <= newSize
    BY <1>3 DEF InPlace
  <2> QED
    BY <1>0, <2>1, <2>2
<1> QED
  BY <1>1, <1>2, <1>3

-----------------------------------------------------------------------------
(* A memory in which no two cells share bytes and none lies beyond the     *)
(* heap.                                                                   *)
IsCell(c) == c = Cell(c.at, c.width, c.of, c.n) /\ c.at \in Nat /\ c.width \in Nat \ {0}

WellFormed(m) ==
  /\ m = [brk |-> m.brk, cells |-> m.cells] /\ m.brk \in Nat \ {nil} /\ m.brk % 8 = 0
  /\ \A c \in m.cells : IsCell(c) /\ c.at + c.width <= m.brk
  /\ \A c, d \in m.cells : c # d => ~ Overlap(c, d.at, d.width)

(* m2 is m with a value stored in the n bytes at a and in blocks taken     *)
(* meanwhile: nothing else has been written.                               *)
Stores(m, m2, a, n) ==
  /\ WellFormed(m2) /\ m.brk <= m2.brk
  /\ \A c \in m.cells : ~ Overlap(c, a, n) => c \in m2.cells
  /\ \A c \in m2.cells \ m.cells : (a <= c.at /\ c.at + c.width <= a + n) \/ m.brk <= c.at

(* A reader who asks for a cell as it was written gets its content. *)
LEMMA ReadCell ==
  ASSUME NEW m, WellFormed(m), NEW c \in m.cells
  PROVE  Read(m, c.at, c.width) = [of |-> c.of, n |-> c.n]
<1> DEFINE found == {d \in m.cells : Overlap(d, c.at, c.width)}
<1>1. Overlap(c, c.at, c.width) BY DEF Overlap, WellFormed, IsCell
<1>2. found = {c} BY <1>1 DEF WellFormed
<1>3. (CHOOSE d \in found : TRUE) = c BY <1>2
<1> QED BY <1>2, <1>3 DEF Read

LEMMA MemoryWellFormed == WellFormed(Memory)
BY HeapAssumption DEF WellFormed, Memory, nil

(* A cell that is written can be read, and no other cell is touched but    *)
(* those it overlaps (stores of scalars, flags and tags).                  *)
THEOREM WriteStores ==
  ASSUME NEW m, WellFormed(m), NEW c, IsCell(c), c.at + c.width <= m.brk
  PROVE  /\ Stores(m, Write(m, c), c.at, c.width)
         /\ Read(Write(m, c), c.at, c.width) = [of |-> c.of, n |-> c.n]
<1> DEFINE m2 == Write(m, c)
<1>1. m2.brk = m.brk /\ m2.cells = {d \in m.cells : ~ Overlap(d, c.at, c.width)} \cup {c}
      /\ m2 = [brk |-> m2.brk, cells |-> m2.cells]
  <2>1. m = [brk |-> m.brk, cells |-> m.cells] BY DEF WellFormed
  <2> DEFINE cells == {d \in m.cells : ~ Overlap(d, c.at, c.width)} \cup {c}
  <2> HIDE DEF cells
  <2>2. m2 = [m EXCEPT !.cells = cells] BY DEF Write, cells
  <2> HIDE DEF m2
  <2>3. m2 = [brk |-> m.brk, cells |-> cells] BY <2>1, <2>2
  <2> QED BY <2>3 DEF cells
<1> HIDE DEF m2
<1>2. ASSUME NEW d \in m.cells, ~ Overlap(d, c.at, c.width) PROVE ~ Overlap(c, d.at, d.width)
  BY <1>2 DEF Overlap, WellFormed, IsCell
<1>3. WellFormed(m2) BY <1>1, <1>2 DEF WellFormed
<1>4. Stores(m, m2, c.at, c.width)
  <2>1. c.at \in Nat /\ c.width \in Nat /\ m.brk <= m2.brk BY <1>1 DEF IsCell, WellFormed
  <2> QED BY <1>1, <1>3, <2>1 DEF Stores
<1>5. c \in m2.cells BY <1>1
<1> QED BY <1>3, <1>4, <1>5, ReadCell DEF m2

(* A block of the Go heap is new: no cell lies in it, and none is lost. *)
LEMMA GoNewKeeps ==
  ASSUME NEW m, WellFormed(m), NEW size \in Nat
  PROVE  LET block == GoNew(m, size)
         IN  /\ Stores(m, block.mem, 0, 0) /\ block.mem.cells = m.cells
             /\ size # 0 => block.ptr = m.brk /\ block.ptr + size <= block.mem.brk
<1> DEFINE m2 == GoNew(m, size).mem
<1>0. m.brk \in Nat /\ m.brk + size \in Nat /\ 8 \in Nat \ {0} BY DEF WellFormed
<1>1. /\ m2.brk \in Nat /\ m.brk + size <= m2.brk /\ m2.brk % 8 = 0 /\ m2.cells = m.cells
      /\ m2 = [brk |-> m2.brk, cells |-> m2.cells]
  <2>1. Up(m.brk + size, 8) \in Nat /\ m.brk + size <= Up(m.brk + size, 8) /\ Up(m.brk + size, 8) % 8 = 0
    BY <1>0, UpFacts
  <2> QED BY <2>1 DEF GoNew, WellFormed
<1>2. size # 0 => GoNew(m, size).ptr = m.brk BY DEF GoNew
<1> HIDE DEF m2
<1>3. WellFormed(m2)
  <2>1. \A c \in m.cells : c.at + c.width <= m2.brk BY <1>0, <1>1 DEF WellFormed, IsCell
  <2>2. m2.brk # nil BY <1>0, <1>1 DEF WellFormed, nil
  <2> QED BY <1>1, <2>1, <2>2 DEF WellFormed
<1>4. Stores(m, m2, 0, 0) BY <1>0, <1>1, <1>3 DEF Stores
<1> QED BY <1>0, <1>1, <1>2, <1>4 DEF m2

(* What cabi_realloc takes and copies, for the alignments of values: the   *)
(* block stays, is new, or moves to a place that is large enough.          *)
Taken(r, ptr, oldSize, align, newSize, base) ==
  /\ r.bytes \in Nat /\ r.bytes % 8 = 0 /\ r.ptr \in Nat /\ r.ptr % align = 0
  /\ \/ ptr # nil /\ r.ptr = ptr /\ r.copied = 0 /\ r.bytes = 0 /\ newSize <= oldSize
     \/ ptr = nil /\ r.ptr = base /\ r.copied = 0 /\ newSize <= r.bytes
     \/ ptr # nil /\ r.ptr = base /\ r.copied = oldSize /\ oldSize <= newSize /\ newSize <= r.bytes

LEMMA ReallocTakes ==
  ASSUME NEW ptr \in Nat, NEW oldSize \in Nat, NEW newSize \in Nat \ {0}, NEW align \in Aligns,
         NEW base \in Nat, base % 8 = 0, newSize + align + 7 < 2^PtrBits,
         ptr % align = 0 \/ oldSize <= newSize,
         NEW r, r = cabi_realloc(ptr, oldSize, align, newSize, base)
  PROVE  Taken(r, ptr, oldSize, align, newSize, base)
<1> DEFINE bytes == HeapBytes(newSize, align)
           M == 2^PtrBits
<1>1. bytes \in Nat /\ newSize <= bytes /\ bytes % 8 = 0
  <2>0. M \in Nat /\ newSize + align + 7 < M /\ align \in Nat BY PtrAssumption DEF Aligns
  <2>1. bytes \in Nat /\ Padded(newSize, align) <= bytes BY <2>0, HeapBytesEnough
  <2>2. bytes = 8 * (Uintptr(Padded(newSize, align) + 7) \div 8) BY DEF HeapBytes
  <2>3. Padded(newSize, align) = newSize BY DEF Padded, Aligns
  <2> HIDE DEF M
  <2>4. newSize + 7 \in Nat /\ newSize + 7 < M BY <2>0
  <2>5. Uintptr(newSize + 7) = newSize + 7 BY <2>4, UintptrSmall DEF M
  <2> HIDE DEF bytes
  <2>6. bytes = 8 * ((newSize + 7) \div 8) BY <2>2, <2>3, <2>5
  <2> QED BY <2>1, <2>3, <2>6
<1>2. simpleAlloc(newSize, align, base) = base BY DEF simpleAlloc, Aligns
<1>3. Fresh(newSize, align, base, 0) = [ptr |-> base, bytes |-> bytes, copied |-> 0]
      /\ Fresh(newSize, align, base, oldSize) = [ptr |-> base, bytes |-> bytes, copied |-> oldSize]
  BY <1>2 DEF Fresh
<1> HIDE DEF bytes
<1>4. base % align = 0 BY DEF Aligns
<1>5. CASE ptr = nil
  <2>1. r = Fresh(newSize, align, base, 0) BY <1>5 DEF cabi_realloc
  <2> QED BY <1>1, <1>3, <1>4, <1>5, <2>1 DEF Taken
<1>6. CASE ptr # nil /\ InPlace(ptr, oldSize, align, newSize)
  <2>1. r = [ptr |-> ptr, bytes |-> 0, copied |-> 0] BY <1>6 DEF cabi_realloc
  <2> QED BY <1>6, <2>1 DEF InPlace, Taken
<1>7. CASE ptr # nil /\ ~ InPlace(ptr, oldSize, align, newSize)
  <2>1. r = Fresh(newSize, align, base, oldSize) BY <1>7 DEF cabi_realloc
  <2>2. oldSize <= newSize BY <1>7 DEF InPlace
  <2> QED BY <1>1, <1>3, <1>4, <1>7, <2>1, <2>2 DEF Taken
<1> QED BY <1>5, <1>6, <1>7

(* What lay in the block at ptr, as far as its old and its new size reach, *)
(* lies at the same place of the new block.                                *)
Follows(m, ptr, oldSize, newSize, block) ==
  \A c \in m.cells :
    ptr <= c.at /\ c.at + c.width <= ptr + oldSize /\ c.at + c.width <= ptr + newSize =>
      /\ Cell(c.at - ptr + block.ptr, c.width, c.of, c.n) \in block.mem.cells
      /\ Read(block.mem, c.at - ptr + block.ptr, c.width) = Read(m, c.at, c.width)

(* A host that reallocates a block finds in the new one what lay in the    *)
(* old one, as far as both reach; the new block has its size and its       *)
(* alignment, and nothing that lies anywhere is lost (cabi_realloc).       *)
THEOREM ReallocKeeps ==
  ASSUME NEW m, WellFormed(m), NEW ptr \in Nat, NEW oldSize \in Nat, NEW newSize \in Nat \ {0},
         NEW align \in Aligns, ptr # nil => ptr + oldSize <= m.brk,
         ptr % align = 0 \/ oldSize <= newSize,
         newSize + align + 7 < 2^PtrBits, NEW block, block = Realloc(m, ptr, oldSize, align, newSize)
  PROVE  /\ Stores(m, block.mem, 0, 0) /\ m.cells \subseteq block.mem.cells
         /\ block.ptr \in Nat /\ block.ptr % align = 0 /\ block.ptr + newSize <= block.mem.brk
         /\ (block.ptr = ptr /\ newSize <= oldSize) \/ m.brk <= block.ptr
         /\ ptr # nil => Follows(m, ptr, oldSize, newSize, block)
<1>0. PICK r : r = cabi_realloc(ptr, oldSize, align, newSize, m.brk) OBVIOUS
<1> DEFINE Moved(c) == [c EXCEPT !.at = @ - ptr + r.ptr]
           old == {c \in m.cells : ptr <= c.at /\ c.at + c.width <= ptr + r.copied}
           copies == {Moved(c) : c \in old}
           kept == {d \in m.cells : \A c \in copies : ~ Overlap(d, c.at, c.width)}
           m2 == block.mem
<1>1. m.brk \in Nat /\ m.brk % 8 = 0 BY DEF WellFormed
<1>2. block = [ptr |-> r.ptr, mem |-> [brk |-> m.brk + r.bytes, cells |-> kept \cup copies]]
  BY <1>0 DEF Realloc
<1>3. /\ r.bytes \in Nat /\ r.bytes % 8 = 0 /\ r.ptr \in Nat /\ r.ptr % align = 0
      /\ \/ ptr # nil /\ r.ptr = ptr /\ r.copied = 0 /\ r.bytes = 0 /\ newSize <= oldSize
         \/ ptr = nil /\ r.ptr = m.brk /\ r.copied = 0 /\ newSize <= r.bytes
         \/ ptr # nil /\ r.ptr = m.brk /\ r.copied = oldSize /\ oldSize <= newSize /\ newSize <= r.bytes
  <2> HIDE DEF Moved, old, copies, kept, m2
  <2>1. Taken(r, ptr, oldSize, align, newSize, m.brk) BY <1>0, <1>1, ReallocTakes
  <2> QED BY <2>1 DEF Taken
<1>4. r.copied \in Nat BY <1>3
<1>5. r.copied > 0 => r.ptr = m.brk /\ r.copied <= r.bytes BY <1>3
<1>6. /\ m2 = [brk |-> m.brk + r.bytes, cells |-> kept \cup copies] /\ block.ptr = r.ptr
  <2> HIDE DEF kept, copies
  <2> QED BY <1>2
<1> HIDE DEF m2
<1>7. ASSUME NEW c \in old
      PROVE  /\ Moved(c) = Cell(c.at - ptr + r.ptr, c.width, c.of, c.n) /\ IsCell(c)
             /\ c.at - ptr + r.ptr \in Nat /\ m.brk <= c.at - ptr + r.ptr
             /\ c.at - ptr + r.ptr + c.width <= m.brk + r.bytes
  <2>1. c = Cell(c.at, c.width, c.of, c.n) /\ c.at \in Nat /\ c.width \in Nat \ {0} BY DEF WellFormed, IsCell
  <2>2. Moved(c) = Cell(c.at - ptr + r.ptr, c.width, c.of, c.n) BY <2>1 DEF Cell
  <2>3. ptr <= c.at /\ c.at + c.width <= ptr + r.copied OBVIOUS
  <2>4. r.copied > 0 BY <1>4, <2>1, <2>3
  <2>5. r.ptr = m.brk /\ r.copied <= r.bytes BY <1>5, <2>4
  <2> HIDE DEF Moved
  <2>6. /\ c.at - ptr + r.ptr \in Nat /\ m.brk <= c.at - ptr + r.ptr
        /\ c.at - ptr + r.ptr + c.width <= m.brk + r.bytes
    BY <1>1, <1>3, <1>4, <2>1, <2>3, <2>5, SMTT(30)
  <2> QED BY <2>1, <2>2, <2>6 DEF IsCell
<1>8. \A c \in m.cells : IsCell(c) /\ c.at + c.width <= m.brk BY DEF WellFormed
<1>9. ASSUME NEW d \in copies
      PROVE  IsCell(d) /\ m.brk <= d.at /\ d.at + d.width <= m.brk + r.bytes
  <2>1. PICK c \in old : d = Moved(c) BY <1>9
  <2>2. d = Cell(c.at - ptr + r.ptr, c.width, c.of, c.n) BY <1>7, <2>1
  <2>3. d.at = c.at - ptr + r.ptr /\ d.width = c.width /\ d.of = c.of /\ d.n = c.n BY <2>2 DEF Cell
  <2> HIDE DEF old, Moved, copies
  <2>4. c.width \in Nat \ {0} BY <1>7 DEF IsCell
  <2> QED BY <1>7, <2>2, <2>3, <2>4 DEF IsCell
<1>10. ASSUME NEW c \in m.cells, NEW d \in copies
       PROVE  ~ Overlap(c, d.at, d.width) /\ ~ Overlap(d, c.at, c.width)
  <2> HIDE DEF copies
  <2> QED BY <1>1, <1>8, <1>9 DEF Overlap, IsCell
<1>11. kept = m.cells BY <1>10
<1>12. ASSUME NEW d \in copies, NEW e \in copies, d # e PROVE ~ Overlap(d, e.at, e.width)
  <2>1. PICK c \in old : d = Moved(c) BY <1>12
  <2>2. PICK b \in old : e = Moved(b) BY <1>12
  <2>3. c # b BY <1>12, <2>1, <2>2
  <2>4. ~ Overlap(c, b.at, b.width) BY <2>3 DEF WellFormed
  <2>5. /\ d.at = c.at - ptr + r.ptr /\ d.width = c.width /\ e.at = b.at - ptr + r.ptr /\ e.width = b.width
    BY <1>7, <2>1, <2>2 DEF Cell
  <2>6. c.at \in Nat /\ c.width \in Nat /\ b.at \in Nat /\ b.width \in Nat BY <1>7 DEF IsCell
  <2> QED BY <1>3, <2>4, <2>5, <2>6 DEF Overlap
<1> HIDE DEF copies, kept
<1>13. m2.brk = m.brk + r.bytes /\ m2.cells = m.cells \cup copies BY <1>6, <1>11
<1>14. WellFormed(m2)
  <2>1. m2 = [brk |-> m2.brk, cells |-> m2.cells] BY <1>6
  <2>2. m2.brk \in Nat \ {nil} /\ m2.brk % 8 = 0
    <3>1. \A x, y \in Nat : x % 8 = 0 /\ y % 8 = 0 => x + y \in Nat /\ (x + y) % 8 = 0 OBVIOUS
    <3>2. m.brk # 0 BY DEF WellFormed, nil
    <3>3. m2.brk \in Nat /\ m2.brk % 8 = 0 BY <1>1, <1>3, <1>13, <3>1
    <3>4. m2.brk # nil BY <1>1, <1>3, <1>13, <3>2 DEF nil
    <3> QED BY <3>3, <3>4
  <2>3. \A c \in m2.cells : IsCell(c) /\ c.at + c.width <= m2.brk
    <3>1. ASSUME NEW c \in m.cells PROVE c.at + c.width <= m2.brk
      <4>1. c.at \in Nat /\ c.width \in Nat /\ c.at + c.width <= m.brk BY <1>8 DEF IsCell
      <4> QED BY <1>1, <1>3, <1>13, <4>1
    <3> QED BY <1>8, <1>9, <1>13, <3>1
  <2>4. \A c, d \in m.cells : c # d => ~ Overlap(c, d.at, d.width) BY DEF WellFormed
  <2>5. \A c, d \in m2.cells : c # d => ~ Overlap(c, d.at, d.width) BY <1>10, <1>12, <1>13, <2>4
  <2> QED BY <2>1, <2>2, <2>3, <2>5 DEF WellFormed
<1>15. Stores(m, m2, 0, 0)
  <2>1. m.brk <= m2.brk BY <1>1, <1>3, <1>13
  <2> QED BY <1>9, <1>13, <1>14, <2>1 DEF Stores
<1>16. block.ptr + newSize <= m2.brk
  <2>1. CASE r.ptr = m.brk /\ newSize <= r.bytes BY <1>1, <1>3, <1>6, <1>13, <2>1
  <2>2. CASE ptr # nil /\ r.ptr = ptr /\ r.bytes = 0 /\ newSize <= oldSize
    <3>1. ptr + oldSize <= m.brk BY <2>2
    <3> QED BY <1>1, <1>6, <1>13, <2>2, <3>1
  <2> QED BY <1>3, <2>1, <2>2
<1>17. ASSUME ptr # nil, NEW c \in m.cells,
              ptr <= c.at, c.at + c.width <= ptr + oldSize, c.at + c.width <= ptr + newSize
       PROVE  /\ Cell(c.at - ptr + r.ptr, c.width, c.of, c.n) \in m2.cells
              /\ Read(m2, c.at - ptr + r.ptr, c.width) = Read(m, c.at, c.width)
  <2>1. c = Cell(c.at, c.width, c.of, c.n) /\ c.at \in Nat /\ c.width \in Nat \ {0} BY <1>8 DEF IsCell
  <2>2. Read(m, c.at, c.width) = [of |-> c.of, n |-> c.n] BY ReadCell
  <2>3. CASE r.ptr = ptr
    <3>1. c.at - ptr + r.ptr = c.at /\ c \in m2.cells BY <1>13, <2>1, <2>3
    <3> QED BY <1>14, <2>1, <2>2, <3>1, ReadCell
  <2>4. CASE r.copied = oldSize
    <3> DEFINE d == Moved(c)
    <3>1. c \in old BY <1>17, <2>4
    <3>2. d \in copies BY <3>1 DEF copies
    <3>3. d = Cell(c.at - ptr + r.ptr, c.width, c.of, c.n) BY <1>7, <3>1
    <3> HIDE DEF d
    <3>4. d.at = c.at - ptr + r.ptr /\ d.width = c.width /\ d.of = c.of /\ d.n = c.n BY <3>3 DEF Cell
    <3>5. d \in m2.cells BY <1>13, <3>2
    <3> QED BY <1>14, <2>2, <3>3, <3>4, <3>5, ReadCell
  <2> QED BY <1>3, <1>17, <2>3, <2>4
<1>18. (block.ptr = ptr /\ newSize <= oldSize) \/ m.brk <= block.ptr BY <1>1, <1>3, <1>6
<1> QED BY <1>3, <1>6, <1>13, <1>15, <1>16, <1>17, <1>18 DEF m2, Follows

-----------------------------------------------------------------------------
(* A value stored in a part of some bytes is stored in these bytes. *)
LEMMA StoresWiden ==
  ASSUME NEW m, NEW m2, NEW a \in Nat, NEW n \in Nat, NEW at \in Nat, NEW size \in Nat,
         WellFormed(m), Stores(m, m2, at, size), a <= at, at + size <= a + n
  PROVE  Stores(m, m2, a, n)
<1>1. \A c \in m.cells : Overlap(c, at, size) => Overlap(c, a, n)
  BY DEF WellFormed, IsCell, Overlap
<1>2. \A c \in m2.cells : at <= c.at /\ c.at + c.width <= at + size => a <= c.at /\ c.at + c.width <= a + n
  BY DEF Stores, WellFormed, IsCell
<1> QED BY <1>1, <1>2 DEF Stores

(* One store after another, in the same bytes or in blocks taken meanwhile. *)
LEMMA StoresThen ==
  ASSUME NEW m, NEW m1, NEW m2, NEW a \in Nat, NEW n \in Nat, NEW at \in Nat, NEW size \in Nat,
         WellFormed(m), Stores(m, m1, a, n), Stores(m1, m2, at, size),
         (a <= at /\ at + size <= a + n) \/ m.brk <= at
  PROVE  Stores(m, m2, a, n)
<1>1. m.brk \in Nat /\ m1.brk \in Nat /\ m2.brk \in Nat /\ m.brk <= m1.brk /\ m1.brk <= m2.brk /\ WellFormed(m2)
  BY DEF Stores, WellFormed
<1>2. ASSUME NEW c \in m.cells, ~ Overlap(c, a, n) PROVE c \in m2.cells
  <2>1. c \in m1.cells BY <1>2 DEF Stores
  <2>2. c.at \in Nat /\ c.width \in Nat /\ c.at + c.width <= m.brk BY DEF WellFormed, IsCell
  <2>3. ~ Overlap(c, at, size) BY <1>1, <1>2, <2>2 DEF Overlap
  <2> QED BY <2>1, <2>3 DEF Stores
<1>3. ASSUME NEW c \in m2.cells \ m.cells
      PROVE  (a <= c.at /\ c.at + c.width <= a + n) \/ m.brk <= c.at
  <2>1. c.at \in Nat /\ c.width \in Nat BY DEF Stores, WellFormed, IsCell
  <2>2. CASE c \in m1.cells BY <1>3, <2>2 DEF Stores
  <2>3. CASE c \notin m1.cells
    <3>1. (at <= c.at /\ c.at + c.width <= at + size) \/ m1.brk <= c.at BY <2>3 DEF Stores
    <3> QED BY <1>1, <2>1, <3>1
  <2> QED BY <2>2, <2>3
<1> QED BY <1>1, <1>2, <1>3 DEF Stores

(* What was stored in some bytes, or in blocks taken for it, before a      *)
(* value was stored elsewhere.                                             *)
Holds(m, brk, a, n) == {c \in m.cells : (a <= c.at /\ c.at + c.width <= a + n) \/ brk <= c.at}

(* m2 shows all that was stored in the n bytes at a of m and behind brk. *)
Shows(m2, m, brk, a, n) ==
  \A c \in Holds(m, brk, a, n) :
    c \in m2.cells /\ Read(m2, c.at, c.width) = [of |-> c.of, n |-> c.n]

(* A store elsewhere, in front of the heap's old end, keeps them. *)
LEMMA StoresElsewhere ==
  ASSUME NEW m, NEW m2, NEW a \in Nat, NEW n \in Nat, NEW brk \in Nat, NEW at \in Nat, NEW size \in Nat,
         WellFormed(m), Stores(m, m2, at, size), at + size <= brk, a + n <= at \/ at + size <= a
  PROVE  Holds(m, brk, a, n) \subseteq m2.cells
<1> SUFFICES ASSUME NEW c \in Holds(m, brk, a, n) PROVE c \in m2.cells OBVIOUS
<1>1. c \in m.cells /\ ((a <= c.at /\ c.at + c.width <= a + n) \/ brk <= c.at) BY DEF Holds
<1>2. c.at \in Nat /\ c.width \in Nat BY <1>1 DEF WellFormed, IsCell
<1>3. ~ Overlap(c, at, size) BY <1>1, <1>2 DEF Overlap
<1> QED BY <1>1, <1>3 DEF Stores

(* Cells that are kept can be read. *)
LEMMA HoldsShown ==
  ASSUME NEW m, NEW m2, NEW brk, NEW a, NEW n, WellFormed(m2), Holds(m, brk, a, n) \subseteq m2.cells
  PROVE  Shows(m2, m, brk, a, n)
BY ReadCell DEF Shows

(* Parts stored one after the other, none in the bytes of another: all of  *)
(* them are there in the end.                                              *)
LEMMA PartsCross ==
  ASSUME NEW k \in Nat, NEW mem, NEW at, NEW size, NEW a \in Nat, NEW n \in Nat,
         WellFormed(mem[0]), a + n <= mem[0].brk,
         \A i \in 1 .. k : at[i] \in Nat /\ size[i] \in Nat /\ a <= at[i] /\ at[i] + size[i] <= a + n,
         \A i, j \in 1 .. k : i < j => at[i] + size[i] <= at[j],
         \A i \in 1 .. k : Stores(mem[i - 1], mem[i], at[i], size[i])
  PROVE  /\ Stores(mem[0], mem[k], a, n)
         /\ \A i \in 1 .. k : /\ Shows(mem[k], mem[i], mem[i - 1].brk, at[i], size[i])
                              /\ mem[i - 1].brk \in Nat /\ a + n <= mem[i - 1].brk
<1> DEFINE Kept(i, j) == /\ mem[i - 1].brk \in Nat /\ a + n <= mem[i - 1].brk
                         /\ Holds(mem[i], mem[i - 1].brk, at[i], size[i]) \subseteq mem[j].cells
           Good(j) == /\ Stores(mem[0], mem[j], a, n)
                      /\ \A i \in 1 .. j : Kept(i, j)
           T == {j \in 0 .. k : Good(j)}
<1>1. Good(0) BY DEF Stores, WellFormed
<1>2. ASSUME NEW j \in 1 .. k, Good(j - 1) PROVE Good(j)
  <2>1. j \in Nat /\ j - 1 \in Nat BY <1>2
  <2>2. Stores(mem[0], mem[j - 1], a, n) /\ Stores(mem[j - 1], mem[j], at[j], size[j]) BY <1>2
  <2>3. /\ at[j] \in Nat /\ size[j] \in Nat /\ a <= at[j] /\ at[j] + size[j] <= a + n
    BY <1>2
  <2>4. Stores(mem[0], mem[j], a, n) BY <2>2, <2>3, StoresThen
  <2>5. WellFormed(mem[j - 1]) /\ mem[j - 1].brk \in Nat /\ a + n <= mem[j - 1].brk
    BY <2>2 DEF Stores, WellFormed
  <2>6. ASSUME NEW i \in 1 .. j - 1 PROVE Kept(i, j)
    <3>1. Kept(i, j - 1) BY <1>2
    <3>2. i \in 1 .. k /\ i < j BY <2>1
    <3>3. at[i] \in Nat /\ size[i] \in Nat /\ at[i] + size[i] <= at[j] BY <3>2
    <3> DEFINE brk == mem[i - 1].brk
               H == Holds(mem[i], brk, at[i], size[i])
    <3>4. brk \in Nat /\ at[j] + size[j] <= brk BY <2>3, <3>1
    <3> HIDE DEF brk
    <3>5. H = Holds(mem[i], brk, at[i], size[i]) \cap mem[j - 1].cells BY <3>1 DEF brk
    <3>6. H \subseteq Holds(mem[j - 1], brk, at[i], size[i]) BY <3>5 DEF Holds
    <3>7. Holds(mem[j - 1], brk, at[i], size[i]) \subseteq mem[j].cells
      BY <2>2, <2>3, <2>5, <3>3, <3>4, StoresElsewhere
    <3> QED BY <3>1, <3>6, <3>7 DEF brk
  <2>7. Kept(j, j) BY <2>5 DEF Holds
  <2>8. \A i \in 1 .. j : i \in 1 .. j - 1 \/ i = j BY <2>1
  <2> HIDE DEF Kept
  <2> QED BY <2>4, <2>6, <2>7, <2>8
<1>3. k \in T
  <2>1. 0 \in T BY <1>1
  <2> HIDE DEF Good
  <2>2. \A j \in 1 .. k : j - 1 \in T => j \in T BY <1>2
  <2> HIDE DEF T
  <2>3. \A j \in 0 .. k : j \in T BY <2>1, <2>2, CountUp
  <2> QED BY <2>3
<1>4. WellFormed(mem[k]) BY <1>3 DEF Stores
<1> QED BY <1>3, <1>4, HoldsShown

(* Two parts of a value keep their distance wherever the value lies. *)
LEMMA Shifted ==
  ASSUME NEW a \in Nat, NEW x \in Nat, NEW y \in Nat, NEW z \in Nat, x + y <= z
  PROVE  a + x \in Nat /\ a <= a + x /\ (a + x) + y <= a + z
OBVIOUS

(* A record is stored in its own bytes and in blocks taken for it, and     *)
(* nothing of a field is lost to another field, however many there are and *)
(* whatever each of them stores (Store and Load of a record).              *)
THEOREM RecordCrosses ==
  ASSUME NEW names, NEW Nodes, NEW nodes \in Seq(Nodes),
         \A node \in Nodes : node.size \in Nat /\ node.align \in Aligns,
         NEW record, record = RecordNode(names, nodes),
         NEW a \in Nat, NEW mem, WellFormed(mem[0]), a + record.size <= mem[0].brk,
         \A i \in 1 .. Len(nodes) : Stores(mem[i - 1], mem[i], a + record.parts[i].at, nodes[i].size)
  PROVE  /\ Stores(mem[0], mem[Len(nodes)], a, record.size)
         /\ \A i \in 1 .. Len(nodes) :
              Shows(mem[Len(nodes)], mem[i], mem[i - 1].brk, a + record.parts[i].at, nodes[i].size)
<1> DEFINE k == Len(nodes)
           at == [i \in 1 .. k |-> a + record.parts[i].at]
           size == [i \in 1 .. k |-> nodes[i].size]
<1>1. Apart(record.parts, nodes, k, record.size) /\ record.size \in Nat BY RecordApart
<1>2. k \in Nat /\ \A i \in 1 .. k : nodes[i].size \in Nat OBVIOUS
<1>3. \A i \in 1 .. k : at[i] = a + record.parts[i].at /\ size[i] = nodes[i].size OBVIOUS
<1>4. \A i \in 1 .. k : Stores(mem[i - 1], mem[i], at[i], size[i]) BY <1>3
<1> HIDE DEF k, at, size
<1> DEFINE parts == record.parts
           all == record.size
<1>a. \A i \in 1 .. k : parts[i].at \in Nat /\ parts[i].at + size[i] <= all
  BY <1>1, <1>3 DEF Apart
<1>b. \A i, j \in 1 .. k : i < j => parts[i].at + size[i] <= parts[j].at
  BY <1>1, <1>3 DEF Apart
<1>c. \A i \in 1 .. k : at[i] = a + parts[i].at /\ size[i] \in Nat BY <1>2, <1>3
<1>d. all \in Nat BY <1>1
<1> HIDE DEF parts, all
<1>5. \A i \in 1 .. k : at[i] \in Nat /\ size[i] \in Nat /\ a <= at[i] /\ at[i] + size[i] <= a + all
  <2> SUFFICES ASSUME NEW i \in 1 .. k
               PROVE  at[i] \in Nat /\ size[i] \in Nat /\ a <= at[i] /\ at[i] + size[i] <= a + all
    OBVIOUS
  <2>1. PICK x \in Nat, y \in Nat : x = parts[i].at /\ y = size[i] BY <1>a, <1>c
  <2>2. x + y <= all /\ at[i] = a + x BY <1>a, <1>c, <2>1
  <2>3. a + x \in Nat /\ a <= a + x /\ (a + x) + y <= a + all BY <1>d, <2>2, Shifted
  <2> QED BY <2>1, <2>2, <2>3
<1>6. \A i, j \in 1 .. k : i < j => at[i] + size[i] <= at[j]
  <2> SUFFICES ASSUME NEW i \in 1 .. k, NEW j \in 1 .. k, i < j PROVE at[i] + size[i] <= at[j]
    OBVIOUS
  <2>1. PICK x \in Nat, y \in Nat, z \in Nat : x = parts[i].at /\ y = size[i] /\ z = parts[j].at
    BY <1>a, <1>c
  <2>2. x + y <= z /\ at[i] = a + x /\ at[j] = a + z BY <1>b, <1>c, <2>1
  <2>3. (a + x) + y <= a + z BY <2>2, Shifted
  <2> QED BY <2>1, <2>2, <2>3
<1> USE DEF all
<1>7. /\ Stores(mem[0], mem[k], a, record.size)
      /\ \A i \in 1 .. k : Shows(mem[k], mem[i], mem[i - 1].brk, at[i], size[i])
  BY <1>1, <1>2, <1>4, <1>5, <1>6, PartsCross
<1> QED BY <1>3, <1>7 DEF k

(* A variant is stored in its own bytes: the tag is still there when the   *)
(* payload of its case, whatever that stores, lies behind it (Store and    *)
(* Load of a variant).                                                     *)
THEOREM VariantCrosses ==
  ASSUME NEW names, NEW Nodes, NEW nodes \in Seq(Nodes), NEW tag \in Aligns,
         NEW room \in Nat, NEW align \in Aligns,
         \A node \in Nodes : node.size \in 0 .. room /\ node.align \in Aligns /\ align % node.align = 0,
         NEW variant, variant = VariantNode(names, nodes, tag, room, align),
         NEW a \in Nat, NEW m, WellFormed(m), a + variant.size <= m.brk, NEW i \in 1 .. Len(nodes),
         NEW tagged, tagged = Write(m, Cell(a, tag, <<>>, i - 1)),
         NEW m2, Stores(tagged, m2, a + variant.parts[i].at, nodes[i].size)
  PROVE  /\ Stores(m, m2, a, variant.size)
         /\ Read(m2, a, tag).n = i - 1
<1> DEFINE c == Cell(a, tag, <<>>, i - 1)
           at == variant.parts[i].at
           size == nodes[i].size
           all == variant.size
<1>1. all \in Nat /\ tag <= all /\ at \in Nat /\ tag <= at /\ at + size <= all
  <2> DEFINE v == VariantNode(names, nodes, tag, room, align)
  <2>1. /\ v.size \in Nat /\ v.align \in Aligns /\ v.size % v.align = 0
        /\ tag <= v.size /\ v.align % tag = 0
        /\ \A j \in 1 .. Len(nodes) :
             LET part == v.parts[j]
             IN  /\ part.type = nodes[j] /\ part.at \in Nat /\ tag <= part.at
                 /\ part.at % nodes[j].align = 0 /\ v.align % nodes[j].align = 0
                 /\ part.at + nodes[j].size <= v.size
    BY VariantApart
  <2> HIDE DEF v
  <2>2. variant = v BY DEF v
  <2> QED BY <2>1, <2>2
<1>2. size \in Nat /\ tag \in Nat \ {0} BY DEF Aligns
<1>3. IsCell(c) /\ c.at = a /\ c.width = tag /\ c.n = i - 1 BY <1>2 DEF IsCell, Cell
<1>4. a + all <= m.brk /\ m.brk \in Nat /\ Stores(tagged, m2, a + at, size) BY DEF WellFormed
<1> HIDE DEF c, at, size, all
<1>5. c.at + c.width <= m.brk BY <1>1, <1>2, <1>3, <1>4
<1>6. Stores(m, tagged, a, tag) /\ c \in tagged.cells
  <2>1. tagged = Write(m, c) BY DEF c
  <2>2. Stores(m, tagged, c.at, c.width) BY <1>3, <1>5, <2>1, WriteStores
  <2>3. c \in Write(m, c).cells BY DEF Write, WellFormed
  <2> QED BY <1>3, <2>1, <2>2, <2>3
<1>7. Stores(m, tagged, a, all) BY <1>1, <1>2, <1>6, StoresWiden
<1>8. Stores(m, m2, a, all) BY <1>1, <1>2, <1>4, <1>7, StoresThen
<1>9. c \in m2.cells
  <2>1. ~ Overlap(c, a + at, size) BY <1>1, <1>2, <1>3 DEF Overlap
  <2> QED BY <1>4, <1>6, <2>1 DEF Stores
<1>10. Read(m2, a, tag).n = i - 1
  <2>1. Read(m2, c.at, c.width) = [of |-> c.of, n |-> c.n] BY <1>8, <1>9, ReadCell DEF Stores
  <2> QED BY <1>3, <2>1
<1> QED BY <1>8, <1>10 DEF all

-----------------------------------------------------------------------------
(* A store to new blocks only is a store to any bytes, and loses nothing. *)
LEMMA StoresAnywhere ==
  ASSUME NEW m, NEW m2, NEW a \in Nat, NEW n \in Nat, WellFormed(m), Stores(m, m2, 0, 0)
  PROVE  Stores(m, m2, a, n) /\ m.cells \subseteq m2.cells
<1>1. \A c \in m.cells : ~ Overlap(c, 0, 0) BY DEF WellFormed, IsCell, Overlap
<1>2. \A c \in m2.cells \ m.cells : m.brk <= c.at
  <2> SUFFICES ASSUME NEW c \in m2.cells \ m.cells, c.at + c.width <= 0, 0 <= c.at PROVE m.brk <= c.at
    BY DEF Stores
  <2>1. c.at \in Nat /\ c.width \in Nat \ {0} BY DEF Stores, WellFormed, IsCell
  <2> QED BY <2>1
<1> QED BY <1>1, <1>2 DEF Stores

(* The block of a list's elements, for the Go program and for the host. *)
LEMMA ListBlock ==
  ASSUME NEW m, WellFormed(m), NEW n \in Nat \ {0}, NEW align \in Aligns,
         n + align + 7 < 2^PtrBits, NEW block \in {Realloc(m, nil, 0, align, n), GoNew(m, n)}
  PROVE  /\ Stores(m, block.mem, 0, 0) /\ block.ptr \in Nat /\ block.ptr % align = 0
         /\ m.brk <= block.ptr /\ block.ptr + n <= block.mem.brk
<1>1. m.brk \in Nat /\ m.brk % 8 = 0 BY DEF WellFormed
<1>2. CASE block = Realloc(m, nil, 0, align, n)
  <2>1. PICK ptr \in Nat, none \in Nat : ptr = nil /\ none = 0 BY DEF nil
  <2>2. /\ block = Realloc(m, ptr, none, align, n) /\ ptr % align = 0
        /\ ptr # nil => ptr + none <= m.brk
    BY <1>2, <2>1 DEF nil, Aligns
  <2>3. /\ Stores(m, block.mem, 0, 0) /\ m.cells \subseteq block.mem.cells
        /\ block.ptr \in Nat /\ block.ptr % align = 0 /\ block.ptr + n <= block.mem.brk
        /\ (block.ptr = ptr /\ n <= none) \/ m.brk <= block.ptr
        /\ ptr # nil => Follows(m, ptr, none, n, block)
    BY <2>2, ReallocKeeps
  <2> QED BY <2>1, <2>3
<1>3. CASE block = GoNew(m, n)
  <2>1. /\ Stores(m, block.mem, 0, 0) /\ block.ptr = m.brk /\ block.ptr + n <= block.mem.brk
    BY <1>3, GoNewKeeps
  <2>2. m.brk % align = 0 BY <1>1 DEF Aligns
  <2> QED BY <1>1, <2>1, <2>2
<1> QED BY <1>2, <1>3

(* The pointer and the length of a list, written behind its elements. *)
LEMMA PointedStores ==
  ASSUME NEW block, WellFormed(block.mem), NEW a \in Nat, NEW n, a + 8 <= block.mem.brk,
         NEW m2, m2 = Pointed(block, n, a)
  PROVE  /\ Stores(block.mem, m2, a, 8)
         /\ Read(m2, a, 4).n = block.ptr /\ Read(m2, a + 4, 4).n = n
<1> DEFINE p == Cell(a, 4, <<>>, block.ptr)
           c == Cell(a + 4, 4, <<>>, n)
           m == block.mem
           m1 == Write(m, p)
<1>0. m.brk \in Nat /\ a + 8 <= m.brk /\ WellFormed(m) BY DEF WellFormed
<1>1. IsCell(p) /\ p.at = a /\ p.width = 4 /\ p.n = block.ptr BY DEF IsCell, Cell
<1>2. IsCell(c) /\ c.at = a + 4 /\ c.width = 4 /\ c.n = n BY DEF IsCell, Cell
<1>3. m2 = Write(m1, c) BY DEF Pointed
<1> HIDE DEF p, c, m
<1>4. Stores(m, m1, a, 4) /\ p \in m1.cells
  <2>1. p.at + p.width <= m.brk BY <1>0, <1>1
  <2>2. Stores(m, m1, p.at, p.width) BY <1>0, <1>1, <2>1, WriteStores
  <2>3. p \in m1.cells BY <1>0 DEF Write, WellFormed
  <2> QED BY <1>1, <2>2, <2>3
<1>5. WellFormed(m1) /\ m.brk <= m1.brk /\ m1.brk \in Nat BY <1>4 DEF Stores, WellFormed
<1> HIDE DEF m1
<1>6. Stores(m1, m2, a + 4, 4) /\ Read(m2, a + 4, 4) = [of |-> c.of, n |-> c.n]
  <2>1. c.at + c.width <= m1.brk BY <1>0, <1>2, <1>5
  <2>2. Stores(m1, m2, c.at, c.width) /\ Read(m2, c.at, c.width) = [of |-> c.of, n |-> c.n]
    BY <1>2, <1>3, <1>5, <2>1, WriteStores
  <2> QED BY <1>2, <2>2
<1>7. Stores(m, m2, a, 8)
  <2>1. a + 4 \in Nat /\ a <= a + 4 /\ (a + 4) + 4 <= a + 8 /\ 4 \in Nat /\ 8 \in Nat /\ a <= a /\ a + 4 <= a + 8
    OBVIOUS
  <2>2. Stores(m, m1, a, 8) BY <1>0, <1>4, <2>1, StoresWiden
  <2> QED BY <1>0, <1>6, <2>1, <2>2, StoresThen
<1>8. p \in m2.cells
  <2>1. ~ Overlap(p, a + 4, 4) BY <1>1 DEF Overlap
  <2> QED BY <1>4, <1>6, <2>1 DEF Stores
<1>9. Read(m2, a, 4) = [of |-> p.of, n |-> p.n]
  <2>1. Read(m2, p.at, p.width) = [of |-> p.of, n |-> p.n] BY <1>7, <1>8, ReadCell DEF Stores
  <2> QED BY <1>1, <2>1
<1> QED BY <1>1, <1>2, <1>6, <1>7, <1>9 DEF m

(* What lies behind a block lies behind what is in front of the block. *)
LEMMA Beyond ==
  ASSUME NEW a \in Nat, NEW p \in Nat, a + 8 <= p
  PROVE  /\ \A n, b \in Nat : p + n <= b => a + 8 <= b
         /\ \A x \in Nat : p <= x => a + 8 <= x
OBVIOUS

(* The elements of an array do not overlap. *)
LEMMA Steps ==
  ASSUME NEW x \in Nat, NEW y \in Nat, NEW s \in Nat, x < y
  PROVE  x * s + s <= y * s /\ x * s \in Nat
<1>1. PICK d \in Nat : y = x + 1 + d
  <2>1. y - x - 1 \in Nat /\ y = x + 1 + (y - x - 1) OBVIOUS
  <2> QED BY <2>1
<1>2. d * s \in Nat /\ x * s \in Nat OBVIOUS
<1>3. y * s = x * s + s + d * s BY <1>1
<1> QED BY <1>2, <1>3

(* However long a list is, whichever of its elements are stored in its     *)
(* block, and whatever these store: the reader finds the pointer, the      *)
(* length and all of the elements, and the list has written to its own     *)
(* eight bytes and to new blocks only (Store and LoadList of a list, with  *)
(* the host's block and with the Go program's).                            *)
THEOREM ListCrosses ==
  ASSUME NEW m, WellFormed(m), NEW a \in Nat, a + 8 <= m.brk,
         NEW size \in Nat \ {0}, NEW align \in Aligns, NEW count \in Nat \ {0},
         count * size + align + 7 < 2^PtrBits,
         NEW block \in {Realloc(m, nil, 0, align, count * size), GoNew(m, count * size)},
         NEW k \in Nat, NEW pos \in [1 .. k -> 0 .. count - 1],
         \A i, j \in 1 .. k : i < j => pos[i] < pos[j],
         NEW mem, mem[0] = block.mem,
         \A i \in 1 .. k : Stores(mem[i - 1], mem[i], block.ptr + pos[i] * size, size),
         NEW m2, m2 = Pointed([block EXCEPT !.mem = mem[k]], count, a)
  PROVE  /\ Stores(m, m2, a, 8) /\ block.ptr % align = 0
         /\ Read(m2, a, 4).n = block.ptr /\ Read(m2, a + 4, 4).n = count
         /\ \A i \in 1 .. k : Shows(m2, mem[i], mem[i - 1].brk, block.ptr + pos[i] * size, size)
<1> DEFINE n == count * size
           at == [i \in 1 .. k |-> block.ptr + pos[i] * size]
           sizes == [i \in 1 .. k |-> size]
<1>0. n \in Nat \ {0} /\ m.brk \in Nat
  <2>1. count >= 1 /\ count * size >= 1 * size BY Steps, SMTT(30)
  <2> QED BY <2>1 DEF WellFormed
<1>1. /\ Stores(m, block.mem, 0, 0) /\ block.ptr \in Nat /\ block.ptr % align = 0
      /\ m.brk <= block.ptr /\ block.ptr + n <= block.mem.brk
  <2> HIDE DEF n
  <2>1. n + align + 7 < 2^PtrBits /\ block \in {Realloc(m, nil, 0, align, n), GoNew(m, n)} BY DEF n
  <2> QED BY <1>0, <2>1, ListBlock
<1>2. \A i \in 1 .. k : at[i] = block.ptr + pos[i] * size /\ sizes[i] = size OBVIOUS
<1>3. \A i \in 1 .. k : Stores(mem[i - 1], mem[i], at[i], sizes[i]) BY <1>2
<1> HIDE DEF at, sizes
<1>4. \A i \in 1 .. k : pos[i] * size \in Nat /\ pos[i] * size + size <= n BY Steps
<1>5. \A i, j \in 1 .. k : i < j => pos[i] * size + size <= pos[j] * size
  <2> SUFFICES ASSUME NEW i \in 1 .. k, NEW j \in 1 .. k, i < j PROVE pos[i] * size + size <= pos[j] * size
    OBVIOUS
  <2>1. pos[i] \in Nat /\ pos[j] \in Nat /\ pos[i] < pos[j] OBVIOUS
  <2> QED BY <2>1, Steps
<1> HIDE DEF n
<1>6. \A i \in 1 .. k : at[i] \in Nat /\ sizes[i] \in Nat /\ block.ptr <= at[i]
                        /\ at[i] + sizes[i] <= block.ptr + n
  <2> SUFFICES ASSUME NEW i \in 1 .. k
               PROVE  /\ at[i] \in Nat /\ sizes[i] \in Nat /\ block.ptr <= at[i]
                      /\ at[i] + sizes[i] <= block.ptr + n
    OBVIOUS
  <2>1. PICK p \in Nat, x \in Nat : p = block.ptr /\ x = pos[i] * size BY <1>1, <1>4
  <2>2. x + size <= n /\ at[i] = p + x /\ sizes[i] = size BY <1>2, <1>4, <2>1
  <2>3. n \in Nat /\ size \in Nat BY <1>0
  <2>4. p + x \in Nat /\ p <= p + x /\ (p + x) + size <= p + n BY <2>2, <2>3, Shifted
  <2> QED BY <2>1, <2>2, <2>3, <2>4
<1>7. \A i, j \in 1 .. k : i < j => at[i] + sizes[i] <= at[j]
  <2> SUFFICES ASSUME NEW i \in 1 .. k, NEW j \in 1 .. k, i < j PROVE at[i] + sizes[i] <= at[j]
    OBVIOUS
  <2>1. PICK p \in Nat, x \in Nat, y \in Nat : p = block.ptr /\ x = pos[i] * size /\ y = pos[j] * size
    BY <1>1, <1>4
  <2>2. x + size <= y /\ at[i] = p + x /\ at[j] = p + y /\ sizes[i] = size BY <1>2, <1>5, <2>1
  <2>3. size \in Nat OBVIOUS
  <2>4. (p + x) + size <= p + y BY <2>2, <2>3, Shifted
  <2> QED BY <2>2, <2>4
<1>8. WellFormed(mem[0]) /\ block.ptr + n <= mem[0].brk BY <1>1 DEF Stores
<1>9. /\ Stores(mem[0], mem[k], block.ptr, n)
      /\ \A i \in 1 .. k : /\ Shows(mem[k], mem[i], mem[i - 1].brk, at[i], sizes[i])
                           /\ mem[i - 1].brk \in Nat /\ block.ptr + n <= mem[i - 1].brk
  BY <1>0, <1>1, <1>3, <1>6, <1>7, <1>8, PartsCross
<1> DEFINE filled == [block EXCEPT !.mem = mem[k]]
           full == mem[k]
<1>10. filled.mem = full /\ filled.ptr = block.ptr
  <2>1. block = [ptr |-> block.ptr, mem |-> block.mem] BY DEF Realloc, GoNew
  <2> QED BY <2>1
<1>11. m2 = Pointed(filled, count, a) OBVIOUS
<1>12. Stores(block.mem, full, block.ptr, n) BY <1>9
<1> HIDE DEF full, filled
<1>13. Stores(m, full, 0, 0)
  <2>1. 0 \in Nat /\ n \in Nat BY <1>0
  <2> QED BY <1>1, <1>12, <2>1, StoresThen
<1>14. WellFormed(full) /\ full.brk \in Nat /\ a + 8 <= full.brk BY <1>0, <1>13 DEF Stores, WellFormed
<1>15. Stores(full, m2, a, 8) /\ Read(m2, a, 4).n = block.ptr /\ Read(m2, a + 4, 4).n = count
  BY <1>10, <1>11, <1>14, PointedStores, SMTT(30)
<1>16. Stores(m, m2, a, 8)
  <2>1. a <= a /\ a + 8 <= a + 8 /\ 8 \in Nat OBVIOUS
  <2>2. Stores(m, full, a, 8) BY <1>13, <2>1, StoresAnywhere
  <2> QED BY <1>15, <2>1, <2>2, StoresThen
<1>17. ASSUME NEW i \in 1 .. k
       PROVE  Shows(m2, mem[i], mem[i - 1].brk, block.ptr + pos[i] * size, size)
  <2> DEFINE brk == mem[i - 1].brk
             H == Holds(mem[i], brk, at[i], size)
  <2>1. /\ Shows(full, mem[i], brk, at[i], size) /\ brk \in Nat /\ block.ptr + n <= brk
        /\ at[i] \in Nat /\ block.ptr <= at[i] /\ at[i] = block.ptr + pos[i] * size
    BY <1>2, <1>6, <1>9 DEF full
  <2> HIDE DEF brk
  <2>2. H \subseteq full.cells BY <2>1 DEF Shows
  <2>3. H \subseteq Holds(full, brk, at[i], size) BY <2>2 DEF Holds
  <2>4. a + 8 <= brk /\ a + 8 <= at[i] /\ 8 \in Nat /\ size \in Nat
    <3>1. PICK p \in Nat, x \in Nat : p = block.ptr /\ x = at[i] BY <1>1, <2>1
    <3>e. \A z \in Nat : m.brk <= z => a + 8 <= z BY <1>0, Beyond
    <3>2. a + 8 <= p BY <1>1, <3>1, <3>e
    <3>3. p + n <= brk /\ p <= x BY <2>1, <3>1
    <3>4. a + 8 <= brk /\ a + 8 <= x BY <1>0, <2>1, <3>2, <3>3, Beyond
    <3> QED BY <3>1, <3>4
  <2>5. Holds(full, brk, at[i], size) \subseteq m2.cells BY <1>14, <1>15, <2>1, <2>4, StoresElsewhere
  <2>6. WellFormed(m2) BY <1>16 DEF Stores
  <2>7. Shows(m2, mem[i], brk, at[i], size) BY <2>3, <2>5, <2>6, HoldsShown
  <2> QED BY <2>1, <2>7 DEF brk
<1> QED BY <1>1, <1>15, <1>16, <1>17

(* A block that replaces one of n single bytes: what was written is found  *)
(* at its place, nothing else is written.                                  *)
Replaces(new, block, n, more) ==
  /\ Stores(block.mem, new.mem, 0, 0) /\ block.mem.cells \subseteq new.mem.cells
  /\ new.ptr \in Nat /\ new.ptr + more <= new.mem.brk
  /\ new.ptr = block.ptr \/ block.mem.brk <= new.ptr
  /\ \A j \in Nat : \A of, x :
       j < n /\ j < more /\ Cell(block.ptr + j, 1, of, x) \in block.mem.cells =>
         Cell(new.ptr + j, 1, of, x) \in new.mem.cells

(* The block of another size that a host asks for is such a block.         *)
LEMMA ResizedKeeps ==
  ASSUME NEW block, WellFormed(block.mem), NEW n \in Nat \ {0}, NEW more \in Nat \ {0},
         more + 8 < 2^PtrBits, block.ptr \in Nat \ {nil}, block.ptr + n <= block.mem.brk,
         NEW new, new = Resized(block, n, more)
  PROVE  Replaces(new, block, n, more)
<1> DEFINE ptr == block.ptr
           m == block.mem
<1>1. 1 \in Aligns /\ ptr \in Nat /\ n \in Nat /\ ptr % 1 = 0 BY DEF Aligns
<1>2. more + 1 + 7 < 2^PtrBits
  <2> DEFINE M == 2^PtrBits
  <2>1. M \in Nat /\ more + 8 < M BY PtrAssumption
  <2> HIDE DEF M
  <2>2. more + 1 + 7 < M BY <2>1
  <2> QED BY <2>2 DEF M
<1>3. new = Realloc(m, ptr, n, 1, more) /\ ptr + n <= m.brk /\ WellFormed(m) /\ ptr # nil BY DEF Resized
<1> HIDE DEF ptr, m
<1>4. /\ Stores(m, new.mem, 0, 0) /\ m.cells \subseteq new.mem.cells
      /\ new.ptr \in Nat /\ new.ptr % 1 = 0 /\ new.ptr + more <= new.mem.brk
      /\ (new.ptr = ptr /\ more <= n) \/ m.brk <= new.ptr
      /\ ptr # nil => Follows(m, ptr, n, more, new)
  BY <1>1, <1>2, <1>3, ReallocKeeps
<1>5. ASSUME NEW k \in Nat, NEW of, NEW x, k < n, k < more, Cell(ptr + k, 1, of, x) \in m.cells
      PROVE  Cell(new.ptr + k, 1, of, x) \in new.mem.cells
  <2> DEFINE c == Cell(ptr + k, 1, of, x)
  <2>1. c.at = ptr + k /\ c.width = 1 /\ c.of = of /\ c.n = x BY DEF Cell
  <2> HIDE DEF c
  <2>2. c \in m.cells BY <1>5 DEF c
  <2>3. ptr <= ptr + k /\ (ptr + k) + 1 <= ptr + n /\ (ptr + k) + 1 <= ptr + more BY <1>1, <1>5
  <2>4. Cell(c.at - ptr + new.ptr, c.width, c.of, c.n) \in new.mem.cells BY <1>3, <1>4, <2>1, <2>2, <2>3 DEF Follows
  <2>5. (ptr + k) - ptr + new.ptr = new.ptr + k BY <1>1, <1>4
  <2> QED BY <2>1, <2>4, <2>5
<1> QED BY <1>4, <1>5 DEF ptr, m, Replaces

(* A character that the host writes into its block. *)
LEMMA CharStores ==
  ASSUME NEW block, block = [ptr |-> block.ptr, mem |-> block.mem], WellFormed(block.mem),
         block.ptr \in Nat, NEW n \in Nat, block.ptr + n <= block.mem.brk, NEW k \in 0 .. n - 1, NEW of,
         NEW new, new = [block EXCEPT !.mem = Write(@, Cell(block.ptr + k, 1, of, 0))]
  PROVE  /\ Stores(block.mem, new.mem, block.ptr + k, 1) /\ WellFormed(new.mem)
         /\ new.ptr = block.ptr /\ new.mem.brk = block.mem.brk
         /\ new = [ptr |-> new.ptr, mem |-> new.mem]
         /\ Cell(block.ptr + k, 1, of, 0) \in new.mem.cells
<1> DEFINE c == Cell(block.ptr + k, 1, of, 0)
           m == block.mem
<1>1. IsCell(c) /\ c.at = block.ptr + k /\ c.width = 1 BY DEF IsCell, Cell
<1> HIDE DEF c
<1>2. new.mem = Write(m, c) /\ new.ptr = block.ptr /\ new = [ptr |-> new.ptr, mem |-> new.mem] BY DEF c
<1>3. WellFormed(m) /\ m.brk \in Nat BY DEF WellFormed
<1>4. c.at + c.width <= m.brk BY <1>1, <1>3
<1> HIDE DEF m
<1>5. Stores(m, new.mem, c.at, c.width) BY <1>1, <1>2, <1>3, <1>4, WriteStores
<1>6. new.mem.brk = m.brk /\ c \in new.mem.cells BY <1>2, <1>3 DEF Write, WellFormed
<1> QED BY <1>1, <1>2, <1>5, <1>6 DEF c, m, Stores

LEMMA CharRead ==
  ASSUME NEW m, WellFormed(m), NEW at, NEW of, Cell(at, 1, of, 0) \in m.cells
  PROVE  Read(m, at, 1) = [of |-> of, n |-> 0]
<1> DEFINE c == Cell(at, 1, of, 0)
<1>1. c.at = at /\ c.width = 1 /\ c.of = of /\ c.n = 0 BY DEF Cell
<1> HIDE DEF c
<1>2. c \in m.cells BY DEF c
<1>3. Read(m, c.at, c.width) = [of |-> c.of, n |-> c.n] BY <1>2, ReadCell
<1> QED BY <1>1, <1>3

(* A text of n characters that the host converts arrives whole: it asks    *)
(* for n bytes, writes the first character, finds that the rest needs more *)
(* room, asks for three bytes a character, writes another one, cuts the    *)
(* block to n bytes - and both characters are where the reader looks,      *)
(* while nothing outside the new blocks has been written (Filled with the  *)
(* host, cabi_realloc growing and shrinking a block).                      *)
THEOREM TextCrosses ==
  ASSUME NEW m, WellFormed(m), NEW n \in Nat \ {0}, 3 * n + 8 < 2^PtrBits,
         NEW first, NEW other, NEW k \in 1 .. n - 1,
         NEW asked, asked = Realloc(m, nil, 0, 1, n),
         NEW begun, begun = [asked EXCEPT !.mem = Write(@, Cell(asked.ptr, 1, first, 0))],
         NEW grown, grown = Resized(begun, n, 3 * n),
         NEW ended, ended = [grown EXCEPT !.mem = Write(@, Cell(grown.ptr + k, 1, other, 0))],
         NEW text, text = Resized(ended, 3 * n, n)
  PROVE  /\ Stores(m, text.mem, 0, 0) /\ m.cells \subseteq text.mem.cells
         /\ m.brk <= text.ptr /\ text.ptr + n <= text.mem.brk
         /\ Read(text.mem, text.ptr, 1) = [of |-> first, n |-> 0]
         /\ Read(text.mem, text.ptr + k, 1) = [of |-> other, n |-> 0]
<1>0. m.brk \in Nat \ {0} /\ n \in Nat /\ 3 * n \in Nat \ {0} /\ 3 * n > n /\ k \in Nat /\ k < n /\ k < 3 * n
      /\ 0 < n /\ 0 < 3 * n /\ 0 \in 0 .. n - 1 /\ k \in 0 .. 3 * n - 1 /\ k # 0
  BY DEF WellFormed, nil
<1>1. n + 1 + 7 < 2^PtrBits /\ n + 8 < 2^PtrBits
  <2> DEFINE M == 2^PtrBits
  <2>1. M \in Nat /\ 3 * n + 8 < M BY PtrAssumption
  <2> HIDE DEF M
  <2>2. n + 1 + 7 < M /\ n + 8 < M BY <2>1
  <2> QED BY <2>2 DEF M
<1>2. /\ Stores(m, asked.mem, 0, 0) /\ asked.ptr \in Nat
      /\ m.brk <= asked.ptr /\ asked.ptr + n <= asked.mem.brk
  <2>1. 1 \in Aligns /\ asked \in {Realloc(m, nil, 0, 1, n), GoNew(m, n)} BY DEF Aligns
  <2>2. /\ Stores(m, asked.mem, 0, 0) /\ asked.ptr \in Nat /\ asked.ptr % 1 = 0
        /\ m.brk <= asked.ptr /\ asked.ptr + n <= asked.mem.brk
    BY <1>1, <2>1, ListBlock
  <2> QED BY <2>2
<1>3. asked = [ptr |-> asked.ptr, mem |-> asked.mem] /\ WellFormed(asked.mem) BY <1>2 DEF Realloc, Stores
<1>4. grown = [ptr |-> grown.ptr, mem |-> grown.mem] BY DEF Resized, Realloc
<1>5. asked.ptr \in Nat \ {nil} /\ asked.ptr + 0 = asked.ptr BY <1>0, <1>2 DEF nil
<1>6. /\ Stores(asked.mem, begun.mem, asked.ptr, 1) /\ WellFormed(begun.mem)
      /\ begun.ptr = asked.ptr /\ begun.mem.brk = asked.mem.brk
      /\ Cell(asked.ptr + 0, 1, first, 0) \in begun.mem.cells
  <2>1. begun = [asked EXCEPT !.mem = Write(@, Cell(asked.ptr + 0, 1, first, 0))] BY <1>5
  <2>2. /\ Stores(asked.mem, begun.mem, asked.ptr + 0, 1) /\ WellFormed(begun.mem)
        /\ begun.ptr = asked.ptr /\ begun.mem.brk = asked.mem.brk
        /\ begun = [ptr |-> begun.ptr, mem |-> begun.mem]
        /\ Cell(asked.ptr + 0, 1, first, 0) \in begun.mem.cells
    BY <1>0, <1>2, <1>3, <2>1, CharStores
  <2> QED BY <1>5, <2>2
<1>7. /\ Stores(begun.mem, grown.mem, 0, 0) /\ begun.mem.cells \subseteq grown.mem.cells
      /\ grown.ptr \in Nat /\ grown.ptr + 3 * n <= grown.mem.brk
      /\ grown.ptr = begun.ptr \/ begun.mem.brk <= grown.ptr
      /\ Cell(grown.ptr + 0, 1, first, 0) \in grown.mem.cells
  <2> DEFINE more == 3 * n
  <2>1. more \in Nat \ {0} /\ more + 8 < 2^PtrBits /\ 0 < n /\ 0 < more /\ grown = Resized(begun, n, more)
    BY <1>0
  <2>4. begun.ptr \in Nat \ {nil} /\ begun.ptr + n <= begun.mem.brk /\ WellFormed(begun.mem) BY <1>2, <1>5, <1>6
  <2> HIDE DEF more
  <2>2. Replaces(grown, begun, n, more)
    BY <2>1, <2>4, ResizedKeeps
  <2>3. 0 \in Nat /\ Cell(begun.ptr + 0, 1, first, 0) \in begun.mem.cells BY <1>6
  <2> QED BY <2>1, <2>2, <2>3 DEF more, Replaces
<1>8. m.brk <= grown.ptr /\ grown.ptr \in Nat \ {nil} /\ WellFormed(grown.mem)
  <2>1. begun.mem.brk \in Nat /\ m.brk <= begun.mem.brk BY <1>2, <1>6 DEF Stores, WellFormed
  <2>2. WellFormed(grown.mem) BY <1>7 DEF Stores
  <2>3. PICK b \in Nat, g \in Nat : b = m.brk /\ g = grown.ptr BY <1>0, <1>7
  <2>4. b <= g BY <1>2, <1>6, <1>7, <2>1, <2>3
  <2>5. g # 0 BY <1>0, <2>3, <2>4
  <2> QED BY <2>2, <2>3, <2>4, <2>5 DEF nil
<1>9. /\ Stores(grown.mem, ended.mem, grown.ptr + k, 1) /\ WellFormed(ended.mem)
      /\ ended.ptr = grown.ptr /\ ended.mem.brk = grown.mem.brk
      /\ Cell(grown.ptr + k, 1, other, 0) \in ended.mem.cells
  <2> DEFINE more == 3 * n
  <2>1. more \in Nat /\ k \in 0 .. more - 1 /\ grown.ptr + more <= grown.mem.brk BY <1>0, <1>7
  <2> HIDE DEF more
  <2> QED BY <1>4, <1>8, <2>1, CharStores
<1>10. Cell(grown.ptr + 0, 1, first, 0) \in ended.mem.cells
  <2> DEFINE c == Cell(grown.ptr + 0, 1, first, 0)
  <2>1. c.at = grown.ptr + 0 /\ c.width = 1 BY DEF Cell
  <2> HIDE DEF c
  <2>2. ~ Overlap(c, grown.ptr + k, 1) BY <1>0, <1>8, <2>1 DEF Overlap
  <2> QED BY <1>7, <1>9, <2>2 DEF c, Stores
<1>11. /\ Stores(ended.mem, text.mem, 0, 0) /\ ended.mem.cells \subseteq text.mem.cells
       /\ text.ptr \in Nat /\ text.ptr + n <= text.mem.brk
       /\ text.ptr = ended.ptr \/ ended.mem.brk <= text.ptr
       /\ Cell(text.ptr + 0, 1, first, 0) \in text.mem.cells
       /\ Cell(text.ptr + k, 1, other, 0) \in text.mem.cells
  <2> DEFINE room == 3 * n
  <2>1. /\ room \in Nat \ {0} /\ 0 < n /\ 0 < room /\ k < room /\ text = Resized(ended, room, n)
        /\ ended.ptr + room <= ended.mem.brk
    BY <1>0, <1>7, <1>9
  <2>5. ended.ptr \in Nat \ {nil} /\ WellFormed(ended.mem) BY <1>8, <1>9
  <2>7. room \in Nat \ {0} /\ text = Resized(ended, room, n) /\ ended.ptr + room <= ended.mem.brk BY <2>1
  <2> HIDE DEF room
  <2>6. n + 8 < 2^PtrBits BY <1>1
  <2>2. Replaces(text, ended, room, n)
    BY <2>5, <2>6, <2>7, ResizedKeeps
  <2>3. 0 \in Nat /\ Cell(ended.ptr + 0, 1, first, 0) \in ended.mem.cells BY <1>9, <1>10
  <2>4. k \in Nat /\ k < n /\ Cell(ended.ptr + k, 1, other, 0) \in ended.mem.cells BY <1>0, <1>9
  <2> QED BY <2>1, <2>2, <2>3, <2>4 DEF Replaces
<1>12. Stores(m, text.mem, 0, 0)
  <2>1. 0 \in Nat /\ 1 \in Nat /\ 0 <= 0 /\ 0 + 0 <= 0 + 0 BY DEF nil
  <2>2. m.brk <= asked.ptr /\ m.brk <= grown.ptr + k /\ grown.ptr + k \in Nat BY <1>0, <1>2, <1>8
  <2>3. Stores(m, begun.mem, 0, 0) BY <1>2, <1>6, <2>1, <2>2, StoresThen
  <2>4. Stores(m, grown.mem, 0, 0) BY <1>7, <2>1, <2>3, StoresThen
  <2>5. Stores(m, ended.mem, 0, 0) BY <1>9, <2>1, <2>2, <2>4, StoresThen
  <2> QED BY <1>11, <2>1, <2>5, StoresThen
<1>13. WellFormed(text.mem) /\ m.cells \subseteq text.mem.cells
  <2>1. 0 \in Nat OBVIOUS
  <2> QED BY <1>12, <2>1, StoresAnywhere, ZenonT(40) DEF Stores
<1>14. m.brk <= text.ptr
  <2> DEFINE b == m.brk
             g == grown.ptr
             e == ended.mem.brk
             t == text.ptr
  <2>1. b \in Nat /\ g \in Nat /\ e \in Nat /\ b <= g /\ g + 3 * n <= e /\ (t = g \/ e <= t) /\ t \in Nat
    <3>1. e \in Nat BY <1>9 DEF WellFormed
    <3>2. g + 3 * n <= e BY <1>7, <1>9
    <3> QED BY <1>0, <1>8, <1>9, <1>11, <3>1, <3>2
  <2> HIDE DEF b, g, e, t
  <2>2. b <= t BY <1>0, <2>1
  <2> QED BY <2>2 DEF b, t
<1>15. /\ Read(text.mem, text.ptr, 1) = [of |-> first, n |-> 0]
       /\ Read(text.mem, text.ptr + k, 1) = [of |-> other, n |-> 0]
  <2>1. \A x \in Nat : x + 0 = x OBVIOUS
  <2>2. text.ptr + 0 = text.ptr BY <1>11, <2>1
  <2>3. Cell(text.ptr, 1, first, 0) \in text.mem.cells BY <1>11, <2>2, ZenonT(40)
  <2>4. Cell(text.ptr + k, 1, other, 0) \in text.mem.cells BY <1>11, ZenonT(40)
  <2> DEFINE mem == text.mem  at == text.ptr  far == text.ptr + k
  <2>5. /\ WellFormed(mem) /\ Cell(at, 1, first, 0) \in mem.cells
        /\ Cell(far, 1, other, 0) \in mem.cells
    BY <1>13, <2>3, <2>4
  <2> HIDE DEF mem, at, far
  <2>6. Read(mem, at, 1) = [of |-> first, n |-> 0] BY <2>5, CharRead
  <2>7. Read(mem, far, 1) = [of |-> other, n |-> 0] BY <2>5, CharRead
  <2> QED BY <2>6, <2>7 DEF mem, at, far
<1> QED BY <1>11, <1>12, <1>13, <1>14, <1>15
==============================================================================
