------------------------------- MODULE MemoryPool -------------------------------
(***************************************************************************)
(* The memory behind every ArenaAllocator (impl/data_structures/            *)
(* memory_pool.h, arena_allocator.h): the vectors, hash sets and hash maps   *)
(* of the normalization take their memory from a pool, give nothing back      *)
(* (ArenaAllocator::deallocate does nothing) and the pool frees its chunks    *)
(* when it is destroyed.                                                    *)
(*                                                                         *)
(* An address is a chunk and an offset in it; chunks come from operator new  *)
(* and are aligned for every type.                                          *)
(***************************************************************************)
EXTENDS Naturals, Sequences, SequencesExt, FiniteSets

CONSTANTS
  Pool,        \* the variables that hold a pool
  Elem,        \* the types that are allocated
  Size,        \* sizeof
  Alignment,   \* alignof
  CHUNK_SIZE,
  MaxN,        \* bound on the n of allocate(n)
  MaxChunks    \* bound on the number of chunks

ASSUME ElemAssumption ==
  /\ Size \in [Elem -> Nat \ {0}] /\ Alignment \in [Elem -> Nat \ {0}]
  /\ \A t \in Elem : Size[t] % Alignment[t] = 0

(* The pools hold ComponentStorageEntry, TypeId, pairs and hash table nodes of  *)
(* them: structures of pointers, sizes and integers, whose alignments differ by  *)
(* a factor of two at most.                                                    *)
ASSUME AlignmentAssumption ==
  \A s, t \in Elem : (2 * Alignment[s]) % Alignment[t] = 0

ASSUME PoolBoundsAssumption ==
  /\ CHUNK_SIZE \in Nat \ {0} /\ MaxN \in Nat /\ MaxChunks \in Nat

VARIABLES
  pools,   \* the pool in each variable
  heap,    \* the chunks made so far: size, and how often freed
  blocks   \* history: the blocks that allocate has returned to a client that
           \* still uses them, with the pool that has to outlive them

vars == <<pools, heap, blocks>>

-----------------------------------------------------------------------------
Address == [chunk : Nat, at : Nat]
nullptr == [chunk |-> 0, at |-> 0]

(* reserved is the capacity of the vector allocated_chunks.                     *)
EmptyPool == [state |-> "live", allocated_chunks |-> <<>>, reserved |-> 0,
              first_free |-> nullptr, capacity |-> 0]
NoPool == [EmptyPool EXCEPT !.state = "none"]

Init == /\ pools = [p \in Pool |-> NoPool]
        /\ heap = <<>>
        /\ blocks = {}

Construct(p) ==
  /\ pools[p].state = "none"
  /\ pools' = [pools EXCEPT ![p] = EmptyPool]
  /\ UNCHANGED <<heap, blocks>>

-----------------------------------------------------------------------------
(* What allocate(n) of a t needs.  As sizeof is a multiple of alignof, the      *)
(* padding is a whole alignof per element.                                     *)
Count(n) == IF n = 0 THEN 1 ELSE n
misalignment(p, t) == pools[p].first_free.at % Alignment[t]
required_space(t, n) ==
  LET padding == Alignment[t] - (Size[t] % Alignment[t])
  IN  Count(n) * (Size[t] + padding)

(* Mutant: no room is left for the alignment.                                   *)
required_space_unpadded(p, t, n) == Count(n) * Size[t]

required_space_in_chunk(p, t, n) ==
  required_space(t, n) + (Alignment[t] - misalignment(p, t))

Block(p, t, n, address) ==
  [pool |-> p, chunk |-> address.chunk, at |-> address.at,
   size |-> Count(n) * Size[t], alignment |-> Alignment[t]]

AllocateInChunk(p, t, n) ==
  LET required == required_space_in_chunk(p, t, n)
      free == pools[p].first_free
  IN  /\ pools[p].state = "live"
      /\ required <= pools[p].capacity
      /\ blocks' = blocks \cup
           {Block(p, t, n, [free EXCEPT !.at = @ + misalignment(p, t)])}
      /\ pools' = [pools EXCEPT ![p].first_free.at = @ + required,
                                ![p].capacity = @ - required]
      /\ UNCHANGED heap

(* Mutant: the push_back makes room by itself.                                  *)
UnreservedSize(pool) == pool.reserved

(* So that the push_back that follows operator new does not throw.              *)
ReservedSize(pool) ==
  LET size == Len(pool.allocated_chunks)
  IN  IF size = pool.reserved THEN 1 + 2 * size ELSE pool.reserved

(* A push_back that has to make room may throw.                                 *)
PushBackOutcomes(pool) ==
  IF Len(pool.allocated_chunks) < pool.reserved THEN {"pushed"} ELSE {"pushed", "threw"}

(* A chunk of its own for a large request, which leaves the current chunk as it  *)
(* is; for another one a chunk that replaces the current one.                   *)
AllocateNewChunk(p, t, n) ==
  LET required == required_space(t, n)
      large == required > CHUNK_SIZE
      chunk == Len(heap) + 1
      pool == [pools[p] EXCEPT
                 !.reserved = ReservedSize(pools[p]),
                 !.first_free = IF large THEN @ ELSE [chunk |-> chunk, at |-> required],
                 !.capacity = IF large THEN @ ELSE CHUNK_SIZE - required]
  IN  /\ pools[p].state = "live"
      /\ required_space_in_chunk(p, t, n) > pools[p].capacity
      /\ Len(heap) < MaxChunks
      /\ heap' = Append(heap, [size |-> IF large THEN required ELSE CHUNK_SIZE, freed |-> 0])
      /\ \E outcome \in PushBackOutcomes(pool) :
           IF outcome = "threw"
             THEN /\ pools' = [pools EXCEPT ![p] = pool]
                  /\ UNCHANGED blocks
             ELSE /\ pools' = [pools EXCEPT ![p] = [pool EXCEPT !.allocated_chunks =
                                                      Append(@, chunk)]]
                  /\ blocks' = blocks \cup
                       {Block(p, t, n, [chunk |-> chunk, at |-> 0])}

(* operator new throws.                                                         *)
AllocateThrows(p, t, n) ==
  /\ pools[p].state = "live"
  /\ required_space_in_chunk(p, t, n) > pools[p].capacity
  /\ pools' = [pools EXCEPT ![p].reserved = ReservedSize(pools[p])]
  /\ UNCHANGED <<heap, blocks>>

-----------------------------------------------------------------------------
Freed(chunks) ==
  [c \in DOMAIN heap |->
     [heap[c] EXCEPT !.freed = @ + Cardinality({k \in DOMAIN chunks : chunks[k] = c})]]

(* The pool must outlive the blocks, so its clients are done with them.          *)
Destroy(p) ==
  /\ pools[p].state # "none"
  /\ heap' = Freed(pools[p].allocated_chunks)
  /\ pools' = [pools EXCEPT ![p] = NoPool]
  /\ blocks' = {x \in blocks : x.pool # p}

(* first_free and capacity stay: a pool that is moved from can be assigned to or  *)
(* destroyed, but not allocated from.                                            *)
MovedFrom(pool) ==
  [pool EXCEPT !.state = "moved_from", !.allocated_chunks = <<>>, !.reserved = 0]

Given(p, q) ==
  {[x EXCEPT !.pool = IF @ = q THEN p ELSE @] : x \in {y \in blocks : y.pool # p}}

MoveConstruct(p, q) ==
  /\ p # q
  /\ pools[p].state = "none" /\ pools[q].state = "live"
  /\ pools' = [pools EXCEPT ![p] = pools[q], ![q] = MovedFrom(pools[q])]
  /\ blocks' = Given(p, q)
  /\ UNCHANGED heap

MoveAssign(p, q) ==
  /\ p # q
  /\ pools[p].state # "none" /\ pools[q].state = "live"
  /\ heap' = Freed(pools[p].allocated_chunks)
  /\ pools' = [pools EXCEPT ![p] = pools[q], ![q] = MovedFrom(pools[q])]
  /\ blocks' = Given(p, q)

Next ==
  \/ \E p \in Pool : Construct(p) \/ Destroy(p)
  \/ \E p \in Pool, t \in Elem, n \in 0 .. MaxN :
       AllocateInChunk(p, t, n) \/ AllocateNewChunk(p, t, n) \/ AllocateThrows(p, t, n)
  \/ \E p, q \in Pool : MoveConstruct(p, q) \/ MoveAssign(p, q)

Spec == Init /\ [][Next]_vars

-----------------------------------------------------------------------------
(* The types of the variables.                                                  *)
PoolTypeOK ==
  /\ pools \in [Pool -> [state : {"none", "live", "moved_from"}, allocated_chunks : Seq(Nat),
                         reserved : Nat, first_free : Address, capacity : Nat]]
  /\ heap \in Seq([size : Nat, freed : Nat])
  /\ \A x \in blocks : x.pool \in Pool /\ x.chunk \in DOMAIN heap

Overlap(x, y) ==
  /\ x.chunk = y.chunk
  /\ x.at < y.at + y.size
  /\ y.at < x.at + x.size

(* Every block in use lies within a chunk that is not freed, is aligned for its   *)
(* type although allocate adds the misalignment where it should make up for it,   *)
(* and shares no byte with another block: what the padding of the blocks before    *)
(* it has left is enough, whatever the order of sizes and alignments.             *)
BlocksAreUsable ==
  \A x \in blocks :
    /\ heap[x.chunk].freed = 0
    /\ x.at + x.size <= heap[x.chunk].size
    /\ x.at % x.alignment = 0
    /\ \A y \in blocks : x # y => ~Overlap(x, y)

(* A chunk is freed once, and until then exactly one pool will free it: none leaks *)
(* or is freed twice when pools are moved, assigned over or out of memory.         *)
EachChunkHasOneOwner ==
  \A c \in DOMAIN heap :
    heap[c].freed
      + Cardinality({o \in [pool : Pool, index : DOMAIN heap] :
                       /\ o.index \in DOMAIN pools[o.pool].allocated_chunks
                       /\ pools[o.pool].allocated_chunks[o.index] = c}) = 1
=============================================================================
