CONSTANTS
  pointer = pointer
  entry = entry
  pair = pair
  Pool = {first, second}
  Elem <- Elems
  Size <- MCSize
  Alignment <- MCAlignment
  CHUNK_SIZE = 48
  MaxN = 2
  MaxChunks = 3
SYMMETRY PoolSymmetry
SPECIFICATION Spec
INVARIANTS
  BlocksAreUsable
  EachChunkHasOneOwner
