------------------------------ MODULE MCMemoryPool ------------------------------
(***************************************************************************)
(* Two pools and three types: a pointer, a structure of three pointers and a *)
(* pair of integers, which leaves the next free byte misaligned for a        *)
(* pointer.  A chunk holds a few of them, and a request may be larger.       *)
(***************************************************************************)
EXTENDS MemoryPool, TLC

CONSTANTS pointer, entry, pair

Elems == {pointer, entry, pair}
MCSize == [t \in Elems |-> IF t = entry THEN 24 ELSE 8]
MCAlignment == [t \in Elems |-> IF t = pair THEN 4 ELSE 8]

(* The pools are interchangeable.                                             *)
PoolSymmetry == Permutations(Pool)
=============================================================================
