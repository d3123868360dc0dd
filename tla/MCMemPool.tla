------------------------------ MODULE MCMemPool ------------------------------
(* Small instances of MemPool for TLC: two size classes of 16 and 32 bytes, *)
(* requests at the edges of the classes and above the largest one.          *)
EXTENDS MemPoolInv, TLC

Req(size, align) == [size |-> size, align |-> align]

(* The largest payload of each class, one byte too many for the larger     *)
(* class, and an alignment above the header's.                             *)
MCRequests == {Req(8, 8), Req(24, 8), Req(25, 8), Req(8, 16)}
MCSmall == {Req(8, 8)}        \* the smaller class only

BlockSymmetry == Permutations(Blocks)
==============================================================================
