------------------------- MODULE MCFixedSizeAllocator -------------------------
(* Three types whose sizes and alignments differ: a byte, a word, and a       *)
(* structure that is larger than its alignment.                               *)
EXTENDS FixedSizeAllocator

CONSTANTS byte, word, struct

Types == {byte, word, struct}
MCSize == [t \in Types |-> CASE t = byte -> 1 [] t = word -> 4 [] OTHER -> 6]
MCAlignment == [t \in Types |-> CASE t = byte -> 1 [] t = word -> 4 [] OTHER -> 2]
=============================================================================
