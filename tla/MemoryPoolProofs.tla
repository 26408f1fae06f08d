--------------------------- MODULE MemoryPoolProofs ---------------------------
(***************************************************************************)
(* Proofs about MemoryPool, for every number of pools, chunks and blocks     *)
(* and all sizes of types: every chunk is freed exactly once, and the       *)
(* blocks are aligned, disjoint and within chunks that are not freed.       *)
(***************************************************************************)
EXTENDS MemoryPool, SequenceTheorems, FiniteSetTheorems, TLAPS

PoolRecord == [state : {"none", "live", "moved_from"}, allocated_chunks : Seq(Nat),
               reserved : Nat, first_free : Address, capacity : Nat]
Chunk == [size : Nat, freed : Nat]
BlockRecord == [pool : Pool, chunk : Nat, at : Nat, size : Nat, alignment : Nat]

StateOK ==
  /\ pools \in [Pool -> PoolRecord]
  /\ heap \in Seq(Chunk)
  /\ blocks \subseteq BlockRecord

(* A pool, and the chunk at each place of its allocated_chunks.               *)
Owns(pool, i, c) == i \in DOMAIN pool.allocated_chunks /\ pool.allocated_chunks[i] = c

(* Only a pool that is live has chunks; they are not freed and the vector has  *)
(* room for them.                                                             *)
PoolOK(pool, hp) ==
  /\ pool.state # "live" => pool.allocated_chunks = <<>>
  /\ Len(pool.allocated_chunks) <= pool.reserved
  /\ \A i, c \in Nat : Owns(pool, i, c) =>
       c \in DOMAIN hp /\ i <= c /\ hp[c].freed = 0

(* No chunk is in two places, and one that is not freed is in some place.     *)
OwnersOK ==
  /\ \A p \in Pool : PoolOK(pools[p], heap)
  /\ \A p, q \in Pool : \A i, j, c \in Nat :
       Owns(pools[p], i, c) /\ Owns(pools[q], j, c) => p = q /\ i = j
  /\ \A c \in DOMAIN heap :
       \/ heap[c].freed = 1
       \/ heap[c].freed = 0 /\ \E p \in Pool, i \in Nat : Owns(pools[p], i, c)

OwnerInv == StateOK /\ OwnersOK

-----------------------------------------------------------------------------
(* The places of allocated_chunks.                                            *)
LEMMA OwnsProperties ==
  ASSUME NEW pool \in PoolRecord, NEW i, NEW c, Owns(pool, i, c)
  PROVE  i \in Nat /\ i >= 1 /\ i <= Len(pool.allocated_chunks) /\ c \in Nat
<1>1. /\ pool.allocated_chunks \in Seq(Nat) /\ Len(pool.allocated_chunks) \in Nat
      /\ DOMAIN pool.allocated_chunks = 1 .. Len(pool.allocated_chunks)
  BY LenProperties DEF PoolRecord
<1> QED BY <1>1, ElementOfSeq DEF Owns

(* A pool without chunks owns none.                                           *)
LEMMA EmptyOwnsNothing ==
  ASSUME NEW pool, pool.allocated_chunks = <<>>, NEW i, NEW c
  PROVE  ~Owns(pool, i, c)
BY DEF Owns

(* Freeing the chunks of a pool frees each of them once, and no other.        *)
LEMMA FreedProperties ==
  ASSUME OwnerInv, NEW p \in Pool
  PROVE  LET hp == Freed(pools[p].allocated_chunks)
         IN  /\ hp \in Seq(Chunk) /\ DOMAIN hp = DOMAIN heap /\ Len(hp) = Len(heap)
             /\ \A c \in DOMAIN heap : hp[c].size = heap[c].size
             /\ \A c \in DOMAIN heap :
                  (\E i \in Nat : Owns(pools[p], i, c)) => hp[c].freed = 1
             /\ \A c \in DOMAIN heap :
                  ~(\E i \in Nat : Owns(pools[p], i, c)) => hp[c].freed = heap[c].freed
<1> DEFINE s == pools[p].allocated_chunks
           places(c) == {k \in DOMAIN s : s[k] = c}
           hp == Freed(s)
<1>1. /\ pools[p] \in PoolRecord /\ heap \in Seq(Chunk) /\ s \in Seq(Nat)
      /\ Len(s) \in Nat /\ DOMAIN s = 1 .. Len(s)
      /\ Len(heap) \in Nat /\ DOMAIN heap = 1 .. Len(heap)
      /\ \A c \in DOMAIN heap : heap[c] \in Chunk
  BY LenProperties, ElementOfSeq DEF OwnerInv, StateOK, PoolRecord
<1>2. ASSUME NEW c \in DOMAIN heap, NEW i \in Nat, Owns(pools[p], i, c)
      PROVE  Cardinality(places(c)) = 1 /\ heap[c].freed = 0
  <2>1. c \in Nat
    BY <1>1
  <2>2. \A j \in Nat : Owns(pools[p], j, c) => j = i
    BY <1>2, <2>1 DEF OwnerInv, OwnersOK
  <2>3. places(c) = {i}
    BY <1>1, <1>2, <2>2 DEF Owns
  <2>4. heap[c].freed = 0
    BY <1>2, <2>1 DEF OwnerInv, OwnersOK, PoolOK
  <2> QED BY <2>3, <2>4, FS_Singleton
<1>3. ASSUME NEW c \in DOMAIN heap, ~(\E i \in Nat : Owns(pools[p], i, c))
      PROVE  Cardinality(places(c)) = 0
  <2>1. places(c) = {}
    BY <1>1, <1>3 DEF Owns
  <2> QED BY <2>1, FS_EmptySet
<1>4. ASSUME NEW c \in DOMAIN heap
      PROVE  /\ Cardinality(places(c)) \in Nat
             /\ hp[c] = [heap[c] EXCEPT !.freed = @ + Cardinality(places(c))]
  <2>1. Cardinality(places(c)) \in Nat
    BY <1>2, <1>3
  <2> QED BY <2>1 DEF Freed
<1> HIDE DEF places
<1>5. ASSUME NEW c \in DOMAIN heap
      PROVE  /\ hp[c] \in Chunk /\ hp[c].size = heap[c].size
             /\ hp[c].freed = heap[c].freed + Cardinality(places(c))
  <2>1. ASSUME NEW r \in Chunk, NEW k \in Nat
        PROVE  /\ [r EXCEPT !.freed = @ + k] \in Chunk
               /\ [r EXCEPT !.freed = @ + k].size = r.size
               /\ [r EXCEPT !.freed = @ + k].freed = r.freed + k
    BY DEF Chunk
  <2> DEFINE m == Cardinality(places(c))
  <2>2. heap[c] \in Chunk /\ m \in Nat /\ hp[c] = [heap[c] EXCEPT !.freed = @ + m]
    BY <1>1, <1>4
  <2> HIDE DEF hp, m
  <2>3. /\ hp[c] \in Chunk /\ hp[c].size = heap[c].size
        /\ hp[c].freed = heap[c].freed + m
    BY <2>1, <2>2
  <2> QED BY <2>3 DEF m
<1>6. DOMAIN hp = DOMAIN heap
  BY DEF Freed
<1>7. hp \in [1 .. Len(heap) -> Chunk]
  <2>1. hp = [c \in DOMAIN heap |-> hp[c]]
    BY DEF Freed
  <2> HIDE DEF hp
  <2> QED BY <1>1, <1>5, <2>1
<1>8. hp \in Seq(Chunk)
  BY <1>1, <1>7, IsASeq
<1>9. Len(hp) = Len(heap)
  <2> HIDE DEF hp
  <2> QED BY <1>1, <1>6, <1>8, LenProperties
<1>10. ASSUME NEW c \in DOMAIN heap, \E i \in Nat : Owns(pools[p], i, c)
       PROVE  hp[c].freed = 1
  BY <1>2, <1>5, <1>10
<1>11. ASSUME NEW c \in DOMAIN heap, ~(\E i \in Nat : Owns(pools[p], i, c))
       PROVE  hp[c].freed = heap[c].freed
  <2>1. heap[c].freed \in Nat
    BY <1>1 DEF Chunk
  <2> QED BY <1>3, <1>5, <1>11, <2>1
<1> HIDE DEF hp
<1> QED BY <1>5, <1>6, <1>8, <1>9, <1>10, <1>11 DEF hp

-----------------------------------------------------------------------------
(* The arithmetic of allocate.                                                *)
LEMMA ElemProperties ==
  ASSUME NEW t \in Elem, NEW n \in 0 .. MaxN
  PROVE  /\ Size[t] \in Nat /\ Size[t] >= 1
         /\ Alignment[t] \in Nat /\ Alignment[t] >= 1
         /\ Size[t] % Alignment[t] = 0
         /\ Count(n) \in Nat /\ Count(n) >= 1
BY ElemAssumption, PoolBoundsAssumption DEF Count

(* A product of natural numbers, as the provers need it.                      *)
LEMMA ProductBounds ==
  ASSUME NEW a \in Nat, NEW b \in Nat, NEW c \in Nat, a >= 1
  PROVE  /\ a * b \in Nat /\ a * c \in Nat /\ a * (b + c) = a * b + a * c
         /\ a * c >= c
BY SMTT(30)

(* The space asked for holds the block and a whole alignment besides.         *)
LEMMA RequiredSpace ==
  ASSUME NEW t \in Elem, NEW n \in 0 .. MaxN
  PROVE  /\ required_space(t, n) \in Nat
         /\ Count(n) * Size[t] \in Nat /\ Count(n) * Size[t] >= 1
         /\ required_space(t, n) = Count(n) * Size[t] + Count(n) * Alignment[t]
         /\ Count(n) * Alignment[t] \in Nat
         /\ Count(n) * Alignment[t] >= Alignment[t]
<1> DEFINE S == Size[t]
           A == Alignment[t]
           N == Count(n)
<1>1. /\ S \in Nat /\ S >= 1 /\ A \in Nat /\ A >= 1 /\ S % A = 0
      /\ N \in Nat /\ N >= 1
  BY ElemProperties
<1>2. required_space(t, n) = N * (S + A)
  <2>1. required_space(t, n) = N * (S + (A - (S % A)))
    BY DEF required_space
  <2> HIDE DEF S, A, N
  <2>2. A - 0 = A
    BY <1>1
  <2> QED BY <1>1, <2>1, <2>2
<1> HIDE DEF S, A, N
<1>3. /\ N * S \in Nat /\ N * A \in Nat /\ N * (S + A) = N * S + N * A
      /\ N * A >= A /\ N * S >= S
  BY <1>1, ProductBounds
<1>4. N * S >= 1 /\ N * S + N * A \in Nat
  BY <1>1, <1>3
<1> QED BY <1>2, <1>3, <1>4 DEF S, A, N

(* In a chunk it also holds what is left of an alignment.                     *)
LEMMA RequiredInChunk ==
  ASSUME StateOK, NEW p \in Pool, NEW t \in Elem, NEW n \in 0 .. MaxN
  PROVE  /\ misalignment(p, t) \in Nat /\ misalignment(p, t) < Alignment[t]
         /\ required_space_in_chunk(p, t, n) \in Nat
         /\ required_space_in_chunk(p, t, n)
              = required_space(t, n) + (Alignment[t] - misalignment(p, t))
         /\ required_space_in_chunk(p, t, n) >= 1
         /\ misalignment(p, t) + Count(n) * Size[t]
              <= required_space_in_chunk(p, t, n)
<1> DEFINE A == Alignment[t]
           m == misalignment(p, t)
           r == required_space(t, n)
           b == Count(n) * Size[t]
           c == Count(n) * Alignment[t]
<1>1. A \in Nat /\ A >= 1
  BY ElemProperties
<1>2. pools[p].first_free.at \in Nat
  BY DEF StateOK, PoolRecord, Address
<1>3. m \in Nat /\ m < A
  BY <1>1, <1>2 DEF misalignment
<1>4. r \in Nat /\ b \in Nat /\ c \in Nat /\ r = b + c /\ c >= A
  BY RequiredSpace
<1>5. required_space_in_chunk(p, t, n) = r + (A - m)
  BY DEF required_space_in_chunk
<1> HIDE DEF A, m, r, b, c
<1>6. r + (A - m) \in Nat /\ r + (A - m) >= 1 /\ m + b <= r + (A - m)
  BY <1>1, <1>3, <1>4
<1> QED BY <1>3, <1>5, <1>6 DEF A, m, r, b, c

-----------------------------------------------------------------------------
(* What each operation does to the fields of the pools.                       *)
LEMMA InChunkFields ==
  ASSUME StateOK, NEW p \in Pool, NEW t \in Elem, NEW n \in 0 .. MaxN,
         AllocateInChunk(p, t, n)
  PROVE  /\ pools' \in [Pool -> PoolRecord]
         /\ \A q \in Pool \ {p} : pools'[q] = pools[q]
         /\ pools'[p].state = "live" /\ pools[p].state = "live"
         /\ pools'[p].allocated_chunks = pools[p].allocated_chunks
         /\ pools'[p].reserved = pools[p].reserved
         /\ pools'[p].first_free.chunk = pools[p].first_free.chunk
         /\ pools'[p].first_free.at
              = pools[p].first_free.at + required_space_in_chunk(p, t, n)
         /\ pools'[p].capacity = pools[p].capacity - required_space_in_chunk(p, t, n)
         /\ pools[p].capacity >= required_space_in_chunk(p, t, n)
<1> DEFINE r == required_space_in_chunk(p, t, n)
<1>1. r \in Nat
  BY RequiredInChunk
<1>2. /\ pools \in [Pool -> PoolRecord] /\ pools[p] \in PoolRecord
      /\ pools[p].first_free \in Address
      /\ pools[p].first_free.at \in Nat /\ pools[p].first_free.chunk \in Nat
      /\ pools[p].capacity \in Nat
  BY DEF StateOK, PoolRecord, Address
<1>3. /\ pools[p].state = "live" /\ r <= pools[p].capacity
      /\ pools' = [pools EXCEPT ![p].first_free.at = @ + r, ![p].capacity = @ - r]
  BY DEF AllocateInChunk
<1> HIDE DEF r
<1> DEFINE free == [pools[p].first_free EXCEPT !.at = @ + r]
           new == [pools[p] EXCEPT !.first_free = free, !.capacity = @ - r]
<1>4. /\ free \in Address /\ free.chunk = pools[p].first_free.chunk
      /\ free.at = pools[p].first_free.at + r
  BY <1>1, <1>2 DEF Address
<1>5. pools[p].capacity - r \in Nat
  BY <1>1, <1>2, <1>3
<1>6. pools' = [pools EXCEPT ![p] = new]
  BY <1>2, <1>3 DEF PoolRecord, Address
<1> HIDE DEF free
<1>7. /\ new \in PoolRecord /\ new.state = pools[p].state
      /\ new.allocated_chunks = pools[p].allocated_chunks
      /\ new.reserved = pools[p].reserved
      /\ new.first_free = free /\ new.capacity = pools[p].capacity - r
  BY <1>2, <1>4, <1>5 DEF PoolRecord
<1> HIDE DEF new
<1> QED BY <1>1, <1>2, <1>3, <1>4, <1>6, <1>7 DEF r

(* The vector has room for one more chunk once it is reserved.                *)
LEMMA RoomIsReserved ==
  ASSUME NEW pool \in PoolRecord, Len(pool.allocated_chunks) <= pool.reserved
  PROVE  /\ ReservedSize(pool) \in Nat
         /\ Len(pool.allocated_chunks) < ReservedSize(pool)
<1>1. Len(pool.allocated_chunks) \in Nat /\ pool.reserved \in Nat
  BY LenProperties DEF PoolRecord
<1> QED BY <1>1 DEF ReservedSize

(* As the room is there, push_back does not throw.                            *)
LEMMA NewChunkFields ==
  ASSUME OwnerInv, NEW p \in Pool, NEW t \in Elem, NEW n \in 0 .. MaxN,
         AllocateNewChunk(p, t, n)
  PROVE  LET r == required_space(t, n)
         IN  /\ pools' \in [Pool -> PoolRecord]
             /\ \A q \in Pool \ {p} : pools'[q] = pools[q]
             /\ pools'[p].state = "live" /\ pools[p].state = "live"
             /\ pools'[p].allocated_chunks
                  = Append(pools[p].allocated_chunks, Len(heap) + 1)
             /\ Len(pools'[p].allocated_chunks) <= pools'[p].reserved
             /\ \/ /\ pools'[p].first_free = pools[p].first_free
                   /\ pools'[p].capacity = pools[p].capacity
                \/ /\ pools'[p].first_free = [chunk |-> Len(heap) + 1, at |-> r]
                   /\ r <= CHUNK_SIZE
                   /\ pools'[p].capacity = CHUNK_SIZE - r
             /\ heap' = Append(heap, [size |-> IF r > CHUNK_SIZE THEN r ELSE CHUNK_SIZE,
                                      freed |-> 0])
             /\ blocks' = blocks \cup
                            {Block(p, t, n, [chunk |-> Len(heap) + 1, at |-> 0])}
<1> DEFINE r == required_space(t, n)
           chunk == Len(heap) + 1
           large == r > CHUNK_SIZE
           free == IF large THEN pools[p].first_free ELSE [chunk |-> chunk, at |-> r]
           capacity == IF large THEN pools[p].capacity ELSE CHUNK_SIZE - r
           pool == [pools[p] EXCEPT !.reserved = ReservedSize(pools[p]),
                      !.first_free = free, !.capacity = capacity]
           new == [pool EXCEPT !.allocated_chunks = Append(@, chunk)]
<1>1. /\ pools \in [Pool -> PoolRecord] /\ pools[p] \in PoolRecord
      /\ pools[p].first_free \in Address /\ pools[p].capacity \in Nat
      /\ pools[p].allocated_chunks \in Seq(Nat)
      /\ Len(pools[p].allocated_chunks) \in Nat
      /\ Len(heap) \in Nat /\ chunk \in Nat
  BY LenProperties DEF OwnerInv, StateOK, PoolRecord
<1>2. r \in Nat /\ CHUNK_SIZE \in Nat
  BY RequiredSpace, PoolBoundsAssumption
<1>3. /\ ReservedSize(pools[p]) \in Nat
      /\ Len(pools[p].allocated_chunks) < ReservedSize(pools[p])
  BY <1>1, RoomIsReserved DEF OwnerInv, OwnersOK, PoolOK
<1>4. free \in Address /\ capacity \in Nat
  BY <1>1, <1>2 DEF Address
<1>5. \/ free = pools[p].first_free /\ capacity = pools[p].capacity
      \/ /\ free = [chunk |-> chunk, at |-> r]
         /\ r <= CHUNK_SIZE /\ capacity = CHUNK_SIZE - r
  BY <1>2
<1> DEFINE Pushed == /\ pools' = [pools EXCEPT ![p] = new]
                     /\ blocks' = blocks \cup
                          {Block(p, t, n, [chunk |-> chunk, at |-> 0])}
           Threw == pools' = [pools EXCEPT ![p] = pool] /\ UNCHANGED blocks
<1>6. /\ pools[p].state = "live"
      /\ heap' = Append(heap, [size |-> IF r > CHUNK_SIZE THEN r ELSE CHUNK_SIZE,
                               freed |-> 0])
      /\ \E outcome \in PushBackOutcomes(pool) : IF outcome = "threw" THEN Threw ELSE Pushed
  <2>1. pool = [pools[p] EXCEPT
                 !.reserved = ReservedSize(pools[p]),
                 !.first_free = IF large THEN @ ELSE [chunk |-> chunk, at |-> r],
                 !.capacity = IF large THEN @ ELSE CHUNK_SIZE - r]
    BY <1>1 DEF PoolRecord
  <2> QED BY <2>1 DEF AllocateNewChunk
<1> HIDE DEF free, capacity, Pushed, Threw
<1>7. /\ pool \in PoolRecord /\ pool.state = pools[p].state
      /\ pool.allocated_chunks = pools[p].allocated_chunks
      /\ pool.reserved = ReservedSize(pools[p])
      /\ pool.first_free = free /\ pool.capacity = capacity
  BY <1>1, <1>3, <1>4 DEF PoolRecord
<1> HIDE DEF pool
<1>8. PushBackOutcomes(pool) = {"pushed"}
  BY <1>3, <1>7 DEF PushBackOutcomes
<1>9. Pushed
  BY <1>6, <1>8
<1>10. /\ Append(pools[p].allocated_chunks, chunk) \in Seq(Nat)
       /\ Len(Append(pools[p].allocated_chunks, chunk))
            = Len(pools[p].allocated_chunks) + 1
  BY <1>1, AppendProperties
<1> HIDE DEF chunk
<1>11. /\ new \in PoolRecord /\ new.state = pools[p].state
       /\ new.allocated_chunks = Append(pools[p].allocated_chunks, chunk)
       /\ new.reserved = ReservedSize(pools[p])
       /\ new.first_free = free /\ new.capacity = capacity
  BY <1>7, <1>10 DEF PoolRecord
<1>12. Len(new.allocated_chunks) <= new.reserved
  BY <1>1, <1>3, <1>10, <1>11
<1> HIDE DEF new, r
<1>13. /\ pools' \in [Pool -> PoolRecord]
       /\ \A q \in Pool \ {p} : pools'[q] = pools[q]
       /\ pools'[p] = new
  BY <1>1, <1>9, <1>11 DEF Pushed
<1>14. blocks' = blocks \cup {Block(p, t, n, [chunk |-> chunk, at |-> 0])}
  BY <1>9 DEF Pushed
<1> QED BY <1>5, <1>6, <1>11, <1>12, <1>13, <1>14 DEF chunk, r

(* When operator new throws, only the room in the vector has changed.         *)
LEMMA ThrowsFields ==
  ASSUME OwnerInv, NEW p \in Pool, NEW t \in Elem, NEW n \in 0 .. MaxN,
         AllocateThrows(p, t, n)
  PROVE  /\ pools' \in [Pool -> PoolRecord]
         /\ \A q \in Pool \ {p} : pools'[q] = pools[q]
         /\ pools'[p].state = pools[p].state
         /\ pools'[p].allocated_chunks = pools[p].allocated_chunks
         /\ Len(pools'[p].allocated_chunks) <= pools'[p].reserved
         /\ pools'[p].first_free = pools[p].first_free
         /\ pools'[p].capacity = pools[p].capacity
<1>1. pools \in [Pool -> PoolRecord] /\ pools[p] \in PoolRecord
      /\ Len(pools[p].allocated_chunks) \in Nat
  BY LenProperties DEF OwnerInv, StateOK, PoolRecord
<1>2. /\ ReservedSize(pools[p]) \in Nat
      /\ Len(pools[p].allocated_chunks) < ReservedSize(pools[p])
  BY <1>1, RoomIsReserved DEF OwnerInv, OwnersOK, PoolOK
<1> DEFINE new == [pools[p] EXCEPT !.reserved = ReservedSize(pools[p])]
<1>3. pools' = [pools EXCEPT ![p] = new]
  BY DEF AllocateThrows
<1>4. /\ new \in PoolRecord /\ new.state = pools[p].state
      /\ new.allocated_chunks = pools[p].allocated_chunks
      /\ new.reserved = ReservedSize(pools[p])
      /\ new.first_free = pools[p].first_free /\ new.capacity = pools[p].capacity
  BY <1>1, <1>2 DEF PoolRecord
<1>5. Len(new.allocated_chunks) <= new.reserved
  BY <1>1, <1>2, <1>4
<1> HIDE DEF new
<1> QED BY <1>1, <1>3, <1>4, <1>5

(* A pool that is moved takes all its fields along, and leaves no chunk.      *)
LEMMA MoveFields ==
  ASSUME StateOK, NEW p \in Pool, NEW q \in Pool, p # q,
         MoveConstruct(p, q) \/ MoveAssign(p, q)
  PROVE  /\ pools' \in [Pool -> PoolRecord]
         /\ \A o \in Pool \ {p, q} : pools'[o] = pools[o]
         /\ pools'[p] = pools[q] /\ pools[q].state = "live"
         /\ pools'[q].state = "moved_from" /\ pools'[q].allocated_chunks = <<>>
         /\ blocks' = Given(p, q)
<1>1. pools \in [Pool -> PoolRecord] /\ pools[p] \in PoolRecord /\ pools[q] \in PoolRecord
  BY DEF StateOK
<1>2. /\ pools' = [pools EXCEPT ![p] = pools[q], ![q] = MovedFrom(pools[q])]
      /\ pools[q].state = "live" /\ blocks' = Given(p, q)
  BY DEF MoveConstruct, MoveAssign
<1>3. <<>> \in Seq(Nat)
  OBVIOUS
<1>4. /\ MovedFrom(pools[q]) \in PoolRecord
      /\ MovedFrom(pools[q]).state = "moved_from"
      /\ MovedFrom(pools[q]).allocated_chunks = <<>>
  BY <1>1, <1>3 DEF MovedFrom, PoolRecord
<1> QED BY <1>1, <1>2, <1>4

(* EmptyPool and NoPool.                                                      *)
LEMMA EmptyPoolFields ==
  /\ EmptyPool \in PoolRecord /\ EmptyPool.state = "live"
  /\ EmptyPool.allocated_chunks = <<>> /\ EmptyPool.reserved = 0
  /\ EmptyPool.first_free = nullptr /\ EmptyPool.capacity = 0
  /\ NoPool \in PoolRecord /\ NoPool.state = "none"
  /\ NoPool.allocated_chunks = <<>> /\ NoPool.reserved = 0
<1>1. <<>> \in Seq(Nat) /\ nullptr \in Address
  BY DEF nullptr, Address
<1> QED BY <1>1 DEF EmptyPool, NoPool, PoolRecord

-----------------------------------------------------------------------------
(* A step that leaves the chunks where they are.                              *)
LEMMA SameOwners ==
  ASSUME OwnerInv, heap' = heap,
         \A o \in Pool :
           /\ pools'[o].allocated_chunks = pools[o].allocated_chunks
           /\ pools[o].state = "live" => pools'[o].state = "live"
           /\ Len(pools'[o].allocated_chunks) <= pools'[o].reserved
  PROVE  OwnersOK'
<1>1. \A o \in Pool : \A i, c : Owns(pools[o], i, c)' <=> Owns(pools[o], i, c)
  BY DEF Owns
<1>2. ASSUME NEW o \in Pool
      PROVE  PoolOK(pools[o], heap)'
  <2>1. PoolOK(pools[o], heap)
    BY DEF OwnerInv, OwnersOK
  <2> QED BY <1>1, <2>1 DEF PoolOK
<1>3. \A o, q \in Pool : \A i, j, c \in Nat :
        Owns(pools[o], i, c)' /\ Owns(pools[q], j, c)' => o = q /\ i = j
  <2> SUFFICES ASSUME NEW o \in Pool, NEW q \in Pool, NEW i \in Nat, NEW j \in Nat,
                      NEW c \in Nat, Owns(pools[o], i, c)', Owns(pools[q], j, c)'
               PROVE  o = q /\ i = j
    OBVIOUS
  <2>1. Owns(pools[o], i, c) /\ Owns(pools[q], j, c)
    BY <1>1
  <2> QED BY <2>1 DEF OwnerInv, OwnersOK
<1>4. \A c \in DOMAIN heap :
        \/ heap[c].freed = 1
        \/ heap[c].freed = 0 /\ \E o \in Pool, i \in Nat : Owns(pools[o], i, c)'
  BY <1>1 DEF OwnerInv, OwnersOK
<1> QED BY <1>2, <1>3, <1>4 DEF OwnersOK

(* A new chunk is one that no pool has, and is owned by the pool that asked.  *)
LEMMA NewChunkOwners ==
  ASSUME OwnerInv, NEW p \in Pool, NEW t \in Elem, NEW n \in 0 .. MaxN,
         AllocateNewChunk(p, t, n)
  PROVE  /\ heap' \in Seq(Chunk) /\ DOMAIN heap' = DOMAIN heap \cup {Len(heap) + 1}
         /\ \A c \in DOMAIN heap : heap'[c] = heap[c]
         /\ \A o \in Pool, i, c \in Nat :
              Owns(pools[o], i, c)' <=>
                \/ Owns(pools[o], i, c)
                \/ /\ o = p /\ c = Len(heap) + 1
                   /\ i = Len(pools[p].allocated_chunks) + 1
         /\ OwnersOK'
<1> DEFINE s == pools[p].allocated_chunks
           k == Len(heap) + 1
           l == Len(s) + 1
           r == required_space(t, n)
           e == [size |-> IF r > CHUNK_SIZE THEN r ELSE CHUNK_SIZE, freed |-> 0]
<1>1. /\ pools \in [Pool -> PoolRecord] /\ heap \in Seq(Chunk) /\ s \in Seq(Nat)
      /\ Len(heap) \in Nat /\ Len(s) \in Nat
      /\ DOMAIN heap = 1 .. Len(heap) /\ DOMAIN s = 1 .. Len(s) /\ k \in Nat /\ l \in Nat
  BY LenProperties DEF OwnerInv, StateOK, PoolRecord
<1>2. /\ \A q \in Pool \ {p} : pools'[q] = pools[q]
      /\ pools'[p].state = "live"
      /\ pools'[p].allocated_chunks = Append(s, k)
      /\ Len(pools'[p].allocated_chunks) <= pools'[p].reserved
      /\ heap' = Append(heap, e)
  BY NewChunkFields
<1>3. e \in Chunk /\ e.freed = 0
  BY RequiredSpace, PoolBoundsAssumption DEF Chunk
<1> HIDE DEF e, s
<1>4. /\ heap' \in Seq(Chunk) /\ Len(heap') = Len(heap) + 1
      /\ \A c \in 1 .. Len(heap) : heap'[c] = heap[c]
      /\ heap'[k] = e /\ DOMAIN heap' = 1 .. Len(heap) + 1
  BY <1>1, <1>2, <1>3, AppendProperties, LenProperties
<1>5. DOMAIN heap' = DOMAIN heap \cup {k} /\ \A c \in DOMAIN heap : heap'[c] = heap[c]
  BY <1>1, <1>4
<1>6. /\ DOMAIN Append(s, k) = DOMAIN s \cup {l}
      /\ \A i \in DOMAIN s : Append(s, k)[i] = s[i]
      /\ Append(s, k)[l] = k
  <2>1. /\ Append(s, k) \in Seq(Nat) /\ Len(Append(s, k)) = Len(s) + 1
        /\ \A i \in 1 .. Len(s) : Append(s, k)[i] = s[i]
        /\ Append(s, k)[Len(s) + 1] = k
    BY <1>1, AppendProperties
  <2>2. DOMAIN Append(s, k) = 1 .. Len(s) + 1
    BY <2>1, LenProperties
  <2> QED BY <1>1, <2>1, <2>2
<1>7. l \notin DOMAIN s /\ k \notin DOMAIN heap
  BY <1>1
<1>8. \A o \in Pool, i, c \in Nat :
        Owns(pools[o], i, c)' <=> Owns(pools[o], i, c) \/ (o = p /\ c = k /\ i = l)
  <2>1. ASSUME NEW i \in Nat, NEW c \in Nat
        PROVE  Owns(pools[p], i, c)' <=> Owns(pools[p], i, c) \/ (c = k /\ i = l)
    <3> HIDE DEF k, l
    <3> QED BY <1>2, <1>6, <1>7 DEF Owns, s
  <2>2. \A o \in Pool \ {p} : \A i, c : Owns(pools[o], i, c)' <=> Owns(pools[o], i, c)
    BY <1>2 DEF Owns
  <2> QED BY <2>1, <2>2
<1>9. \A o \in Pool, i, c \in Nat : Owns(pools[o], i, c) => c \in DOMAIN heap /\ c # k
  BY <1>7 DEF OwnerInv, OwnersOK, PoolOK
<1>10. l <= k
  <2>1. CASE Len(s) = 0
    BY <1>1, <2>1
  <2>2. CASE Len(s) # 0
    <3>1. Owns(pools[p], Len(s), s[Len(s)]) /\ s[Len(s)] \in Nat
      BY <1>1, <2>2, ElementOfSeq DEF Owns, s
    <3>2. Len(s) <= s[Len(s)] /\ s[Len(s)] \in DOMAIN heap
      BY <1>1, <3>1 DEF OwnerInv, OwnersOK, PoolOK
    <3> QED BY <1>1, <3>1, <3>2
  <2> QED BY <2>1, <2>2
<1>11. ASSUME NEW o \in Pool
       PROVE  PoolOK(pools[o], heap)'
  <2>1. PoolOK(pools[o], heap)
    BY DEF OwnerInv, OwnersOK
  <2>2. (pools[o].state # "live")' => (pools[o].allocated_chunks)' = <<>>
    BY <1>2, <2>1 DEF PoolOK
  <2>3. Len(pools'[o].allocated_chunks) <= pools'[o].reserved
    BY <1>2, <2>1 DEF PoolOK
  <2>4. ASSUME NEW i \in Nat, NEW c \in Nat, Owns(pools[o], i, c)'
        PROVE  c \in DOMAIN heap' /\ i <= c /\ heap'[c].freed = 0
    <3> HIDE DEF k, l
    <3>1. CASE Owns(pools[o], i, c)
      BY <1>5, <2>1, <3>1 DEF PoolOK
    <3>2. CASE c = k /\ i = l
      BY <1>3, <1>4, <1>5, <1>10, <3>2
    <3> QED BY <1>8, <2>4, <3>1, <3>2
  <2> QED BY <2>2, <2>3, <2>4 DEF PoolOK
<1> HIDE DEF k, l
<1>12. \A o, q \in Pool : \A i, j, c \in Nat :
         Owns(pools[o], i, c)' /\ Owns(pools[q], j, c)' => o = q /\ i = j
  <2>1. \A o, q \in Pool : \A i, j, c \in Nat :
          Owns(pools[o], i, c) /\ Owns(pools[q], j, c) => o = q /\ i = j
    BY DEF OwnerInv, OwnersOK
  <2> QED BY <1>8, <1>9, <2>1
<1>13. ASSUME NEW c \in DOMAIN heap'
       PROVE  \/ heap'[c].freed = 1
              \/ heap'[c].freed = 0 /\ \E o \in Pool, i \in Nat : Owns(pools[o], i, c)'
  <2>1. CASE c = k
    BY <1>1, <1>3, <1>4, <1>8, <2>1
  <2>2. CASE c \in DOMAIN heap
    <3>1. \/ heap[c].freed = 1
          \/ heap[c].freed = 0 /\ \E o \in Pool, i \in Nat : Owns(pools[o], i, c)
      BY <2>2 DEF OwnerInv, OwnersOK
    <3>2. c \in Nat
      BY <1>1, <2>2
    <3> QED BY <1>5, <1>8, <2>2, <3>1, <3>2
  <2> QED BY <1>5, <2>1, <2>2
<1>14. OwnersOK'
  BY <1>11, <1>12, <1>13 DEF OwnersOK
<1> QED BY <1>4, <1>5, <1>8, <1>14 DEF k, l, s

(* Freeing a pool's chunks when it is destroyed.                              *)
LEMMA DestroyOwners ==
  ASSUME OwnerInv, NEW p \in Pool, Destroy(p)
  PROVE  /\ pools' \in [Pool -> PoolRecord] /\ pools'[p] = NoPool
         /\ \A o \in Pool \ {p} : pools'[o] = pools[o]
         /\ OwnersOK'
<1>1. /\ pools' = [pools EXCEPT ![p] = NoPool] /\ heap' = Freed(pools[p].allocated_chunks)
      /\ pools \in [Pool -> PoolRecord]
  BY DEF Destroy, OwnerInv, StateOK
<1>2. /\ pools' \in [Pool -> PoolRecord] /\ pools'[p] = NoPool
      /\ \A o \in Pool \ {p} : pools'[o] = pools[o]
  BY <1>1, EmptyPoolFields
<1>3. /\ heap' \in Seq(Chunk) /\ DOMAIN heap' = DOMAIN heap
      /\ \A c \in DOMAIN heap :
           (\E i \in Nat : Owns(pools[p], i, c)) => heap'[c].freed = 1
      /\ \A c \in DOMAIN heap :
           ~(\E i \in Nat : Owns(pools[p], i, c)) => heap'[c].freed = heap[c].freed
  BY <1>1, FreedProperties
<1>4. \A i, c : ~Owns(pools[p], i, c)'
  BY <1>2, EmptyPoolFields DEF Owns
<1>5. \A o \in Pool \ {p} : \A i, c : Owns(pools[o], i, c)' <=> Owns(pools[o], i, c)
  BY <1>2 DEF Owns
<1>6. \A o, q \in Pool : \A i, j, c \in Nat :
        Owns(pools[o], i, c) /\ Owns(pools[q], j, c) => o = q /\ i = j
  BY DEF OwnerInv, OwnersOK
<1>7. ASSUME NEW o \in Pool
      PROVE  PoolOK(pools[o], heap)'
  <2>1. CASE o = p
    <3>1. /\ (pools[p].state # "live")' => (pools[p].allocated_chunks)' = <<>>
          /\ Len(pools'[p].allocated_chunks) <= pools'[p].reserved
      BY <1>2, EmptyPoolFields
    <3> QED BY <1>4, <2>1, <3>1 DEF PoolOK
  <2>2. CASE o # p
    <3>1. PoolOK(pools[o], heap) /\ pools'[o] = pools[o]
      BY <1>2, <2>2 DEF OwnerInv, OwnersOK
    <3>2. ASSUME NEW i \in Nat, NEW c \in Nat, Owns(pools[o], i, c)
          PROVE  c \in DOMAIN heap' /\ i <= c /\ heap'[c].freed = 0
      <4>1. c \in DOMAIN heap /\ i <= c /\ heap[c].freed = 0
        BY <3>1, <3>2 DEF PoolOK
      <4>2. ~(\E j \in Nat : Owns(pools[p], j, c))
        BY <1>6, <2>2, <3>2
      <4> QED BY <1>3, <4>1, <4>2
    <3> QED BY <3>1, <3>2 DEF PoolOK
  <2> QED BY <2>1, <2>2
<1>8. \A o, q \in Pool : \A i, j, c \in Nat :
        Owns(pools[o], i, c)' /\ Owns(pools[q], j, c)' => o = q /\ i = j
  BY <1>4, <1>5, <1>6
<1>9. ASSUME NEW c \in DOMAIN heap'
      PROVE  \/ heap'[c].freed = 1
             \/ heap'[c].freed = 0 /\ \E o \in Pool, i \in Nat : Owns(pools[o], i, c)'
  <2>1. CASE \E i \in Nat : Owns(pools[p], i, c)
    BY <1>3, <2>1
  <2>2. CASE ~(\E i \in Nat : Owns(pools[p], i, c))
    <3>1. \/ heap[c].freed = 1
          \/ heap[c].freed = 0 /\ \E o \in Pool, i \in Nat : Owns(pools[o], i, c)
      BY <1>3 DEF OwnerInv, OwnersOK
    <3>2. heap'[c].freed = heap[c].freed
      BY <1>3, <2>2
    <3> QED BY <1>5, <2>2, <3>1, <3>2
  <2> QED BY <2>1, <2>2
<1> QED BY <1>2, <1>7, <1>8, <1>9 DEF OwnersOK

(* The chunks of the pool that is assigned to are freed; one that is          *)
(* constructed has none.                                                      *)
LEMMA MoveHeap ==
  ASSUME OwnerInv, NEW p \in Pool, NEW q \in Pool,
         MoveConstruct(p, q) \/ MoveAssign(p, q)
  PROVE  /\ heap' \in Seq(Chunk) /\ DOMAIN heap' = DOMAIN heap
         /\ \A c \in DOMAIN heap : heap'[c].size = heap[c].size
         /\ \A c \in DOMAIN heap :
              (\E i \in Nat : Owns(pools[p], i, c)) => heap'[c].freed = 1
         /\ \A c \in DOMAIN heap :
              ~(\E i \in Nat : Owns(pools[p], i, c)) => heap'[c].freed = heap[c].freed
<1>1. CASE MoveConstruct(p, q)
  <2>1. heap' = heap /\ pools[p].state = "none" /\ heap \in Seq(Chunk)
    BY <1>1 DEF MoveConstruct, OwnerInv, StateOK
  <2>2. pools[p].allocated_chunks = <<>>
    BY <2>1 DEF OwnerInv, OwnersOK, PoolOK
  <2> QED BY <2>1, <2>2, EmptyOwnsNothing
<1>2. CASE MoveAssign(p, q)
  <2>1. heap' = Freed(pools[p].allocated_chunks)
    BY <1>2 DEF MoveAssign
  <2> QED BY <2>1, FreedProperties
<1> QED BY <1>1, <1>2

(* A pool that is moved passes on its chunks.                                 *)
LEMMA MoveOwners ==
  ASSUME OwnerInv, NEW p \in Pool, NEW q \in Pool, p # q,
         MoveConstruct(p, q) \/ MoveAssign(p, q)
  PROVE  OwnersOK'
<1>1. /\ \A o \in Pool \ {p, q} : pools'[o] = pools[o]
      /\ pools'[p] = pools[q] /\ pools[q].state = "live"
      /\ pools'[q].state = "moved_from" /\ pools'[q].allocated_chunks = <<>>
      /\ pools' \in [Pool -> PoolRecord]
  BY MoveFields DEF OwnerInv
<1>2. /\ DOMAIN heap' = DOMAIN heap
      /\ \A c \in DOMAIN heap :
           (\E i \in Nat : Owns(pools[p], i, c)) => heap'[c].freed = 1
      /\ \A c \in DOMAIN heap :
           ~(\E i \in Nat : Owns(pools[p], i, c)) => heap'[c].freed = heap[c].freed
  BY MoveHeap
<1>3. \A i, c : ~Owns(pools[q], i, c)'
  BY <1>1 DEF Owns
<1>4. \A i, c : Owns(pools[p], i, c)' <=> Owns(pools[q], i, c)
  BY <1>1 DEF Owns
<1>5. \A o \in Pool \ {p, q} : \A i, c : Owns(pools[o], i, c)' <=> Owns(pools[o], i, c)
  BY <1>1 DEF Owns
<1>6. \A o, r \in Pool : \A i, j, c \in Nat :
        Owns(pools[o], i, c) /\ Owns(pools[r], j, c) => o = r /\ i = j
  BY DEF OwnerInv, OwnersOK
<1>7. ASSUME NEW o \in Pool \ {p}, NEW i \in Nat, NEW c \in Nat, Owns(pools[o], i, c)
      PROVE  c \in DOMAIN heap' /\ i <= c /\ heap'[c].freed = 0
  <2>1. c \in DOMAIN heap /\ i <= c /\ heap[c].freed = 0
    BY <1>7 DEF OwnerInv, OwnersOK, PoolOK
  <2>2. ~(\E j \in Nat : Owns(pools[p], j, c))
    BY <1>6, <1>7
  <2> QED BY <1>2, <2>1, <2>2
<1>8. ASSUME NEW o \in Pool
      PROVE  PoolOK(pools[o], heap)'
  <2>1. CASE o = q
    <3>1. Len(pools'[q].allocated_chunks) <= pools'[q].reserved
      BY <1>1 DEF PoolRecord
    <3> QED BY <1>1, <1>3, <2>1, <3>1 DEF PoolOK
  <2>2. CASE o = p
    <3>1. PoolOK(pools[q], heap) /\ pools'[o] = pools[q]
      BY <1>1, <2>2 DEF OwnerInv, OwnersOK
    <3>2. \A i, c \in Nat : Owns(pools[q], i, c) =>
            c \in DOMAIN heap' /\ i <= c /\ heap'[c].freed = 0
      BY <1>7
    <3> QED BY <3>1, <3>2 DEF PoolOK
  <2>3. CASE o # p /\ o # q
    <3>1. PoolOK(pools[o], heap) /\ pools'[o] = pools[o]
      BY <1>1, <2>3 DEF OwnerInv, OwnersOK
    <3>2. \A i, c \in Nat : Owns(pools[o], i, c) =>
            c \in DOMAIN heap' /\ i <= c /\ heap'[c].freed = 0
      BY <1>7, <2>3
    <3> QED BY <3>1, <3>2 DEF PoolOK
  <2> QED BY <2>1, <2>2, <2>3
<1>9. \A o, r \in Pool : \A i, j, c \in Nat :
        Owns(pools[o], i, c)' /\ Owns(pools[r], j, c)' => o = r /\ i = j
  <2> SUFFICES ASSUME NEW o \in Pool, NEW r \in Pool, NEW i \in Nat, NEW j \in Nat,
                      NEW c \in Nat, Owns(pools[o], i, c)', Owns(pools[r], j, c)'
               PROVE  o = r /\ i = j
    OBVIOUS
  <2>1. o # q /\ r # q
    BY <1>3
  <2>2. Owns(pools[IF o = p THEN q ELSE o], i, c)
    BY <1>4, <1>5, <2>1
  <2>3. Owns(pools[IF r = p THEN q ELSE r], j, c)
    BY <1>4, <1>5, <2>1
  <2>4. (IF o = p THEN q ELSE o) = (IF r = p THEN q ELSE r) /\ i = j
    BY <1>6, <2>2, <2>3
  <2> QED BY <2>1, <2>4
<1>10. ASSUME NEW c \in DOMAIN heap'
       PROVE  \/ heap'[c].freed = 1
              \/ heap'[c].freed = 0 /\ \E o \in Pool, i \in Nat : Owns(pools[o], i, c)'
  <2>1. CASE \E i \in Nat : Owns(pools[p], i, c)
    BY <1>2, <2>1
  <2>2. CASE ~(\E i \in Nat : Owns(pools[p], i, c))
    <3>1. \/ heap[c].freed = 1
          \/ heap[c].freed = 0 /\ \E o \in Pool, i \in Nat : Owns(pools[o], i, c)
      BY <1>2 DEF OwnerInv, OwnersOK
    <3>2. heap'[c].freed = heap[c].freed
      BY <1>2, <2>2
    <3> QED BY <1>4, <1>5, <2>2, <3>1, <3>2
  <2> QED BY <2>1, <2>2
<1> QED BY <1>8, <1>9, <1>10 DEF OwnersOK

-----------------------------------------------------------------------------
(* A block is a record of the pool, the place and the type it is for.         *)
LEMMA BlockFields ==
  ASSUME NEW p \in Pool, NEW t \in Elem, NEW n \in 0 .. MaxN, NEW address \in Address
  PROVE  LET x == Block(p, t, n, address)
         IN  /\ x \in BlockRecord /\ x.pool = p /\ x.chunk = address.chunk
             /\ x.at = address.at /\ x.size = Count(n) * Size[t]
             /\ x.alignment = Alignment[t]
<1>1. /\ Count(n) * Size[t] \in Nat /\ Alignment[t] \in Nat
      /\ address.chunk \in Nat /\ address.at \in Nat
  BY RequiredSpace, ElemProperties DEF Address
<1> QED BY <1>1 DEF Block, BlockRecord

(* What a move leaves of the blocks.                                          *)
LEMMA GivenFields ==
  ASSUME blocks \subseteq BlockRecord, NEW p \in Pool, NEW q \in Pool
  PROVE  /\ Given(p, q) \subseteq BlockRecord
         /\ \A y \in Given(p, q) : \E x \in blocks :
              /\ x.pool # p
              /\ y = [x EXCEPT !.pool = IF @ = q THEN p ELSE @]
              /\ y.pool = IF x.pool = q THEN p ELSE x.pool
              /\ y.chunk = x.chunk /\ y.at = x.at
              /\ y.size = x.size /\ y.alignment = x.alignment
<1>1. ASSUME NEW x \in BlockRecord
      PROVE  LET y == [x EXCEPT !.pool = IF @ = q THEN p ELSE @]
             IN  /\ y \in BlockRecord
                 /\ y.pool = IF x.pool = q THEN p ELSE x.pool
                 /\ y.chunk = x.chunk /\ y.at = x.at
                 /\ y.size = x.size /\ y.alignment = x.alignment
  BY DEF BlockRecord
<1>2. ASSUME NEW y \in Given(p, q)
      PROVE  \E x \in blocks :
               x.pool # p /\ y = [x EXCEPT !.pool = IF @ = q THEN p ELSE @]
  BY DEF Given
<1>3. ASSUME NEW y \in Given(p, q)
      PROVE  /\ y \in BlockRecord
             /\ \E x \in blocks :
                  /\ x.pool # p
                  /\ y = [x EXCEPT !.pool = IF @ = q THEN p ELSE @]
                  /\ y.pool = IF x.pool = q THEN p ELSE x.pool
                  /\ y.chunk = x.chunk /\ y.at = x.at
                  /\ y.size = x.size /\ y.alignment = x.alignment
  <2>1. PICK x \in blocks :
               x.pool # p /\ y = [x EXCEPT !.pool = IF @ = q THEN p ELSE @]
    BY <1>2
  <2>2. /\ y \in BlockRecord
        /\ y.pool = IF x.pool = q THEN p ELSE x.pool
        /\ y.chunk = x.chunk /\ y.at = x.at
        /\ y.size = x.size /\ y.alignment = x.alignment
    BY <1>1, <2>1
  <2> QED BY <2>1, <2>2
<1> QED BY <1>3

(* The inductive invariant of the owners.                                     *)
LEMMA OwnerInvInit == Init => OwnerInv
<1> SUFFICES ASSUME Init PROVE OwnerInv
  OBVIOUS
<1>1. pools = [p \in Pool |-> NoPool] /\ heap = <<>> /\ blocks = {}
  BY DEF Init
<1>2. StateOK
  BY <1>1, EmptyPoolFields DEF StateOK
<1>3. ASSUME NEW p \in Pool
      PROVE  PoolOK(pools[p], heap) /\ \A i, c : ~Owns(pools[p], i, c)
  <2>1. pools[p] = NoPool
    BY <1>1
  <2>2. \A i, c : ~Owns(pools[p], i, c)
    BY <2>1, EmptyPoolFields DEF Owns
  <2>3. Len(pools[p].allocated_chunks) <= pools[p].reserved
    BY <2>1, EmptyPoolFields
  <2> QED BY <2>1, <2>2, <2>3, EmptyPoolFields DEF PoolOK
<1> QED BY <1>1, <1>2, <1>3 DEF OwnerInv, OwnersOK

(* Every operation keeps it.                                                 *)
LEMMA OwnerInvNext == OwnerInv /\ [Next]_vars => OwnerInv'
<1> SUFFICES ASSUME OwnerInv, [Next]_vars PROVE StateOK' /\ OwnersOK'
  BY DEF OwnerInv
<1>0. /\ StateOK /\ pools \in [Pool -> PoolRecord] /\ heap \in Seq(Chunk)
      /\ blocks \subseteq BlockRecord
  BY DEF OwnerInv, StateOK
<1>R. \A o \in Pool : Len(pools[o].allocated_chunks) <= pools[o].reserved
  BY DEF OwnerInv, OwnersOK, PoolOK
<1>1. ASSUME NEW p \in Pool, Construct(p)
      PROVE  StateOK' /\ OwnersOK'
  <2>1. /\ pools' = [pools EXCEPT ![p] = EmptyPool] /\ heap' = heap /\ blocks' = blocks
        /\ pools[p].state = "none"
    BY <1>1 DEF Construct
  <2>2. pools[p].allocated_chunks = <<>>
    BY <2>1 DEF OwnerInv, OwnersOK, PoolOK
  <2>3. pools' \in [Pool -> PoolRecord]
    BY <1>0, <2>1, EmptyPoolFields
  <2>4. ASSUME NEW o \in Pool
        PROVE  /\ pools'[o].allocated_chunks = pools[o].allocated_chunks
               /\ pools[o].state = "live" => pools'[o].state = "live"
               /\ Len(pools'[o].allocated_chunks) <= pools'[o].reserved
    <3>1. CASE o = p
      BY <1>0, <2>1, <2>2, <3>1, EmptyPoolFields
    <3>2. CASE o # p
      BY <1>0, <1>R, <2>1, <3>2
    <3> QED BY <3>1, <3>2
  <2>5. OwnersOK'
    BY <2>1, <2>4, SameOwners
  <2> QED BY <1>0, <2>1, <2>3, <2>5 DEF StateOK
<1>2. ASSUME NEW p \in Pool, Destroy(p)
      PROVE  StateOK' /\ OwnersOK'
  <2>1. heap' = Freed(pools[p].allocated_chunks) /\ blocks' \subseteq blocks
    BY <1>2 DEF Destroy
  <2>2. heap' \in Seq(Chunk)
    BY <2>1, FreedProperties
  <2> QED BY <1>0, <1>2, <2>1, <2>2, DestroyOwners DEF StateOK
<1>3. ASSUME NEW p \in Pool, NEW t \in Elem, NEW n \in 0 .. MaxN, AllocateInChunk(p, t, n)
      PROVE  StateOK' /\ OwnersOK'
  <2> DEFINE free == pools[p].first_free
             address == [free EXCEPT !.at = @ + misalignment(p, t)]
  <2>1. /\ heap' = heap /\ blocks' = blocks \cup {Block(p, t, n, address)}
    BY <1>3 DEF AllocateInChunk
  <2>2. misalignment(p, t) \in Nat
    BY <1>0, RequiredInChunk
  <2>3. free \in Address
    BY <1>0 DEF PoolRecord
  <2>4. address \in Address
    <3> HIDE DEF free
    <3> QED BY <2>2, <2>3 DEF Address
  <2>5. Block(p, t, n, address) \in BlockRecord
    <3> HIDE DEF address
    <3> QED BY <2>4, BlockFields
  <2> HIDE DEF address
  <2>6. /\ pools' \in [Pool -> PoolRecord]
        /\ \A q \in Pool \ {p} : pools'[q] = pools[q]
        /\ pools'[p].state = "live"
        /\ pools'[p].allocated_chunks = pools[p].allocated_chunks
        /\ pools'[p].reserved = pools[p].reserved
    BY <1>0, <1>3, InChunkFields
  <2>7. OwnersOK'
    BY <1>R, <2>1, <2>6, SameOwners
  <2> QED BY <1>0, <2>1, <2>5, <2>6, <2>7 DEF StateOK
<1>4. ASSUME NEW p \in Pool, NEW t \in Elem, NEW n \in 0 .. MaxN, AllocateNewChunk(p, t, n)
      PROVE  StateOK' /\ OwnersOK'
  <2> DEFINE address == [chunk |-> Len(heap) + 1, at |-> 0]
  <2>1. /\ pools' \in [Pool -> PoolRecord]
        /\ blocks' = blocks \cup {Block(p, t, n, address)}
    BY <1>4, NewChunkFields
  <2>2. Len(heap) \in Nat
    BY <1>0, LenProperties
  <2>3. address \in Address
    BY <2>2 DEF Address
  <2> HIDE DEF address
  <2>4. Block(p, t, n, address) \in BlockRecord
    BY <2>3, BlockFields
  <2>5. heap' \in Seq(Chunk) /\ OwnersOK'
    BY <1>4, NewChunkOwners
  <2> QED BY <1>0, <2>1, <2>4, <2>5 DEF StateOK
<1>5. ASSUME NEW p \in Pool, NEW t \in Elem, NEW n \in 0 .. MaxN, AllocateThrows(p, t, n)
      PROVE  StateOK' /\ OwnersOK'
  <2>1. heap' = heap /\ blocks' = blocks
    BY <1>5 DEF AllocateThrows
  <2>2. /\ pools' \in [Pool -> PoolRecord]
        /\ \A q \in Pool \ {p} : pools'[q] = pools[q]
        /\ pools'[p].state = pools[p].state
        /\ pools'[p].allocated_chunks = pools[p].allocated_chunks
        /\ Len(pools'[p].allocated_chunks) <= pools'[p].reserved
    BY <1>5, ThrowsFields
  <2>3. OwnersOK'
    BY <1>R, <2>1, <2>2, SameOwners
  <2> QED BY <1>0, <2>1, <2>2, <2>3 DEF StateOK
<1>6. ASSUME NEW p \in Pool, NEW q \in Pool, MoveConstruct(p, q) \/ MoveAssign(p, q)
      PROVE  StateOK' /\ OwnersOK'
  <2>1. p # q
    BY <1>6 DEF MoveConstruct, MoveAssign
  <2>2. pools' \in [Pool -> PoolRecord] /\ blocks' = Given(p, q)
    BY <1>0, <1>6, <2>1, MoveFields
  <2>3. heap' \in Seq(Chunk)
    BY <1>6, MoveHeap
  <2>4. OwnersOK'
    BY <1>6, <2>1, MoveOwners
  <2> QED BY <1>0, <2>2, <2>3, <2>4, GivenFields DEF StateOK
<1>7. CASE UNCHANGED vars
  <2>1. pools' = pools /\ heap' = heap /\ blocks' = blocks
    BY <1>7 DEF vars
  <2>2. OwnersOK'
    BY <1>R, <2>1, SameOwners
  <2> QED BY <1>0, <2>1, <2>2 DEF StateOK
<1> QED BY <1>1, <1>2, <1>3, <1>4, <1>5, <1>6, <1>7 DEF Next

(* It holds in every state.                                                   *)
LEMMA OwnerInvariance == Spec => []OwnerInv
BY OwnerInvInit, OwnerInvNext, PTL DEF Spec

(* EachChunkHasOneOwner, for every number of pools and of chunks: a chunk is  *)
(* freed once, and until then exactly one place of one pool holds it.         *)
THEOREM ChunksAreFreedOnce == Spec => []EachChunkHasOneOwner
<1>1. OwnerInv => EachChunkHasOneOwner
  <2> SUFFICES ASSUME OwnerInv, NEW c \in DOMAIN heap
               PROVE  heap[c].freed
                        + Cardinality({o \in [pool : Pool, index : DOMAIN heap] :
                                         Owns(pools[o.pool], o.index, c)}) = 1
    BY DEF EachChunkHasOneOwner, Owns
  <2> DEFINE owners == {o \in [pool : Pool, index : DOMAIN heap] :
                          Owns(pools[o.pool], o.index, c)}
  <2>1. /\ heap \in Seq(Chunk) /\ Len(heap) \in Nat /\ DOMAIN heap = 1 .. Len(heap)
        /\ c \in Nat /\ pools \in [Pool -> PoolRecord]
    BY LenProperties DEF OwnerInv, StateOK
  <2>2. CASE \E p \in Pool, i \in Nat : Owns(pools[p], i, c)
    <3>1. PICK p \in Pool, i \in Nat : Owns(pools[p], i, c)
      BY <2>2
    <3>2. heap[c].freed = 0 /\ i <= c /\ i >= 1
      BY <2>1, <3>1, OwnsProperties DEF OwnerInv, OwnersOK, PoolOK
    <3>3. i \in DOMAIN heap
      BY <2>1, <3>2
    <3>4. \A q \in Pool, j \in Nat : Owns(pools[q], j, c) => q = p /\ j = i
      BY <2>1, <3>1 DEF OwnerInv, OwnersOK
    <3>5. owners = {[pool |-> p, index |-> i]}
      <4>1. [pool |-> p, index |-> i] \in owners
        BY <3>1, <3>3
      <4>2. ASSUME NEW o \in owners
            PROVE  o = [pool |-> p, index |-> i]
        <5>1. o \in [pool : Pool, index : DOMAIN heap] /\ o.pool = p /\ o.index = i
          BY <2>1, <3>4
        <5> QED BY <5>1
      <4> HIDE DEF owners
      <4> QED BY <4>1, <4>2
    <3> HIDE DEF owners
    <3>6. Cardinality(owners) = 1
      BY <3>5, FS_Singleton
    <3> QED BY <3>2, <3>6 DEF owners
  <2>3. CASE ~(\E p \in Pool, i \in Nat : Owns(pools[p], i, c))
    <3>1. heap[c].freed = 1
      BY <2>3 DEF OwnerInv, OwnersOK
    <3>2. owners = {}
      BY <2>1, <2>3
    <3> HIDE DEF owners
    <3>3. Cardinality(owners) = 0
      BY <3>2, FS_EmptySet
    <3> QED BY <3>1, <3>3 DEF owners
  <2> QED BY <2>2, <2>3
<1> QED BY <1>1, OwnerInvariance, PTL

-----------------------------------------------------------------------------
(* The next free byte may be out of line by half an alignment, no other way.   *)
HalfAligned(s) == \A t \in Elem : (2 * s) % Alignment[t] = 0

(* The free bytes of a pool are the end of one of its chunks.                 *)
FreeOK(pool, hp) ==
  pool.state = "live" =>
    /\ HalfAligned(pool.first_free.at)
    /\ \/ pool.first_free.chunk = 0 /\ pool.capacity = 0
       \/ /\ \E i \in Nat : Owns(pool, i, pool.first_free.chunk)
          /\ pool.first_free.at + pool.capacity <= hp[pool.first_free.chunk].size

(* A block lies in a chunk of its pool, before the free bytes.                *)
PlacedOK(x, pool, hp) ==
  /\ \E i \in Nat : Owns(pool, i, x.chunk)
  /\ x.at + x.size <= hp[x.chunk].size
  /\ x.at % x.alignment = 0
  /\ x.chunk = pool.first_free.chunk => x.at + x.size <= pool.first_free.at

LayoutOK ==
  /\ \A p \in Pool : FreeOK(pools[p], heap)
  /\ \A x \in blocks : PlacedOK(x, pools[x.pool], heap)
  /\ \A x, y \in blocks : x # y => ~Overlap(x, y)

LayoutInv == OwnerInv /\ LayoutOK

-----------------------------------------------------------------------------
(* Division with remainder.                                                   *)
LEMMA PoolDivision ==
  ASSUME NEW s \in Nat, NEW a \in Nat, a >= 1
  PROVE  \E q \in Nat : s = a * q + (s % a)
<1>1. s \div a \in Nat
  BY SMTT(30)
<1>2. s = a * (s \div a) + (s % a)
  BY SMTT(30)
<1> QED BY <1>1, <1>2

(* A multiple leaves no remainder.                                            *)
LEMMA NoRemainder ==
  ASSUME NEW a \in Nat, NEW k \in Nat, a >= 1
  PROVE  (a * k) % a = 0
BY SMTT(30)

(* A byte that is out of line by half an alignment is aligned after another   *)
(* half.                                                                      *)
LEMMA MisalignmentTwice ==
  ASSUME NEW s \in Nat, NEW a \in Nat, a >= 1, (2 * s) % a = 0
  PROVE  (s + (s % a)) % a = 0
<1> DEFINE r == s % a
<1>1. r \in Nat
  BY SMT
<1>2. PICK q \in Nat : s = a * q + r
  BY PoolDivision
<1>3. PICK m \in Nat : 2 * s = a * m
  <2>1. 2 * s \in Nat
    OBVIOUS
  <2>2. PICK m \in Nat : 2 * s = a * m + ((2 * s) % a)
    BY <2>1, PoolDivision
  <2>3. a * m \in Nat
    BY SMT
  <2> QED BY <2>2, <2>3
<1> HIDE DEF r
<1>4. s + r = a * m - a * q
  <2>1. a * m \in Nat /\ a * q \in Nat
    BY SMT
  <2> QED BY <1>1, <1>2, <1>3, <2>1
<1>5. q <= m
  <2>1. a * q <= a * m
    BY <1>1, <1>2, <1>4, SMT
  <2>2. ~(q >= m + 1)
    <3> SUFFICES ASSUME q >= m + 1 PROVE FALSE
      OBVIOUS
    <3>1. PICK d \in Nat : q = m + 1 + d
      <4>1. q - (m + 1) \in Nat
        OBVIOUS
      <4> QED BY <4>1
    <3>2. a * q = a * m + a + a * d
      BY <3>1, SMTT(30)
    <3>3. a * m \in Nat /\ a * d \in Nat /\ a * q \in Nat
      BY SMT
    <3> QED BY <2>1, <3>2, <3>3
  <2> QED BY <2>2
<1>6. PICK d \in Nat : m = q + d
  <2>1. m - q \in Nat
    BY <1>5
  <2> QED BY <2>1
<1>7. s + r = a * d
  <2>1. a * m = a * q + a * d
    BY <1>6, SMTT(30)
  <2>2. a * q \in Nat /\ a * d \in Nat
    BY SMT
  <2> QED BY <1>4, <2>1, <2>2
<1>8. (a * d) % a = 0
  BY NoRemainder
<1> QED BY <1>7, <1>8 DEF r

(* The space asked for is a multiple of the alignment.                        *)
LEMMA RequiredIsMultiple ==
  ASSUME NEW t \in Elem, NEW n \in 0 .. MaxN
  PROVE  \E k \in Nat : required_space(t, n) = Alignment[t] * k
<1> DEFINE S == Size[t]
           A == Alignment[t]
           N == Count(n)
<1>1. S \in Nat /\ A \in Nat /\ A >= 1 /\ S % A = 0 /\ N \in Nat
  BY ElemProperties
<1>2. required_space(t, n) = N * S + N * A
  BY RequiredSpace
<1> HIDE DEF S, A, N
<1>3. PICK u \in Nat : S = A * u
  <2>1. PICK u \in Nat : S = A * u + (S % A)
    BY <1>1, PoolDivision
  <2>2. A * u \in Nat /\ A * u + 0 = A * u
    BY <1>1, SMT
  <2>3. S = A * u + 0
    BY <1>1, <2>1
  <2> QED BY <2>2, <2>3
<1>4. N * u \in Nat /\ N * u + N \in Nat
  BY <1>1, SMT
<1>5. N * (A * u) + N * A = A * (N * u + N)
  BY <1>1, SMTT(30)
<1> QED BY <1>2, <1>3, <1>4, <1>5 DEF A

(* After a block in the current chunk the next free byte is aligned for it.   *)
LEMMA FreeIsMultiple ==
  ASSUME NEW t \in Elem, NEW n \in 0 .. MaxN, NEW s \in Nat
  PROVE  \E k \in Nat :
           s + (required_space(t, n) + (Alignment[t] - (s % Alignment[t])))
             = Alignment[t] * k
<1> DEFINE A == Alignment[t]
           r == required_space(t, n)
           m == s % A
<1>1. A \in Nat /\ A >= 1
  BY ElemProperties
<1>2. PICK j \in Nat : r = A * j
  BY RequiredIsMultiple
<1> HIDE DEF r
<1>3. PICK q \in Nat : s = A * q + m
  BY <1>1, PoolDivision
<1>4. m \in Nat
  BY <1>1, SMT
<1> HIDE DEF m, A
<1>5. A * q \in Nat /\ A * j \in Nat
  BY <1>1, SMT
<1>6. s + (r + (A - m)) = A * q + A * j + A
  BY <1>1, <1>2, <1>3, <1>4, <1>5
<1>7. A * q + A * j + A = A * (q + j + 1)
  BY <1>1, SMTT(30)
<1>8. q + j + 1 \in Nat
  OBVIOUS
<1> QED BY <1>6, <1>7, <1>8 DEF A, m, r

(* A multiple of one alignment is a multiple of half of every other.          *)
LEMMA MultiplesAreHalfAligned ==
  ASSUME NEW t \in Elem, NEW k \in Nat
  PROVE  HalfAligned(Alignment[t] * k)
<1> SUFFICES ASSUME NEW u \in Elem
             PROVE  (2 * (Alignment[t] * k)) % Alignment[u] = 0
  BY DEF HalfAligned
<1> DEFINE A == Alignment[t]
           B == Alignment[u]
<1>1. A \in Nat /\ A >= 1 /\ B \in Nat /\ B >= 1
  BY ElemAssumption
<1>2. (2 * A) % B = 0
  BY AlignmentAssumption
<1> HIDE DEF A, B
<1>3. PICK m \in Nat : 2 * A = B * m
  <2>0. 2 * A \in Nat
    BY <1>1
  <2>1. PICK m \in Nat : 2 * A = B * m + ((2 * A) % B)
    BY <1>1, <2>0, PoolDivision
  <2>2. B * m \in Nat
    BY <1>1, SMT
  <2> QED BY <1>2, <2>1, <2>2
<1>4. 2 * (A * k) = (2 * A) * k
  BY <1>1, SMTT(30)
<1>5. (B * m) * k = B * (m * k)
  BY <1>1, SMTT(30)
<1>6. m * k \in Nat
  BY SMT
<1>7. (B * (m * k)) % B = 0
  BY <1>1, <1>6, NoRemainder
<1> QED BY <1>3, <1>4, <1>5, <1>7 DEF A, B

(* A chunk that a pool holds is one of the heap, and no other pool holds it.  *)
LEMMA OwnedChunk ==
  ASSUME OwnerInv, NEW p \in Pool, NEW i \in Nat, NEW c, Owns(pools[p], i, c)
  PROVE  /\ c \in DOMAIN heap /\ c \in Nat /\ c >= 1 /\ heap[c].freed = 0
         /\ heap[c].size \in Nat
         /\ \A q \in Pool, j \in Nat : Owns(pools[q], j, c) => q = p
<1>1. pools[p] \in PoolRecord /\ heap \in Seq(Chunk)
  BY DEF OwnerInv, StateOK
<1>2. c \in Nat /\ i >= 1
  BY <1>1, OwnsProperties
<1>3. c \in DOMAIN heap /\ i <= c /\ heap[c].freed = 0
  BY <1>2 DEF OwnerInv, OwnersOK, PoolOK
<1>4. heap[c].size \in Nat
  <2>1. heap[c] \in Chunk
    BY <1>1, <1>3, ElementOfSeq, LenProperties
  <2> QED BY <2>1 DEF Chunk
<1>5. c >= 1
  BY <1>2, <1>3
<1>6. \A q \in Pool, j \in Nat : Owns(pools[q], j, c) => q = p
  BY <1>2 DEF OwnerInv, OwnersOK
<1> QED BY <1>2, <1>3, <1>4, <1>5, <1>6

(* The types of a pool and of a block.                                        *)
LEMMA FieldTypes ==
  ASSUME StateOK
  PROVE  /\ \A p \in Pool : /\ pools[p].first_free.at \in Nat
                            /\ pools[p].first_free.chunk \in Nat
                            /\ pools[p].capacity \in Nat
         /\ \A x \in blocks : /\ x.pool \in Pool /\ x.chunk \in Nat /\ x.at \in Nat
                              /\ x.size \in Nat
BY DEF StateOK, PoolRecord, Address, BlockRecord

(* A pool that keeps its chunks and its free bytes, in a heap that keeps the  *)
(* sizes.                                                                     *)
LEMMA FreeStays ==
  ASSUME NEW old, NEW new, NEW hp, NEW nhp, FreeOK(old, hp),
         new.state = "live" => old.state = "live",
         new.first_free = old.first_free, new.capacity = old.capacity,
         \A i \in Nat : \A c : Owns(old, i, c) => Owns(new, i, c) /\ nhp[c].size = hp[c].size
  PROVE  FreeOK(new, nhp)
<1> SUFFICES ASSUME new.state = "live"
             PROVE  /\ HalfAligned(new.first_free.at)
                    /\ \/ new.first_free.chunk = 0 /\ new.capacity = 0
                       \/ /\ \E i \in Nat : Owns(new, i, new.first_free.chunk)
                          /\ new.first_free.at + new.capacity
                               <= nhp[new.first_free.chunk].size
  BY DEF FreeOK
<1>1. /\ HalfAligned(old.first_free.at)
      /\ \/ old.first_free.chunk = 0 /\ old.capacity = 0
         \/ /\ \E i \in Nat : Owns(old, i, old.first_free.chunk)
            /\ old.first_free.at + old.capacity <= hp[old.first_free.chunk].size
  BY DEF FreeOK
<1>2. CASE old.first_free.chunk = 0 /\ old.capacity = 0
  BY <1>1, <1>2
<1>3. CASE /\ \E i \in Nat : Owns(old, i, old.first_free.chunk)
           /\ old.first_free.at + old.capacity <= hp[old.first_free.chunk].size
  BY <1>1, <1>3
<1> QED BY <1>1, <1>2, <1>3

(* The same for a block.                                                      *)
LEMMA PlacedStays ==
  ASSUME NEW x, NEW old, NEW new, NEW hp, NEW nhp, PlacedOK(x, old, hp),
         new.first_free = old.first_free,
         \A i \in Nat : \A c : Owns(old, i, c) => Owns(new, i, c) /\ nhp[c].size = hp[c].size
  PROVE  PlacedOK(x, new, nhp)
<1>1. /\ \E i \in Nat : Owns(old, i, x.chunk)
      /\ x.at + x.size <= hp[x.chunk].size
      /\ x.at % x.alignment = 0
      /\ x.chunk = old.first_free.chunk => x.at + x.size <= old.first_free.at
  BY DEF PlacedOK
<1>2. (\E i \in Nat : Owns(new, i, x.chunk)) /\ nhp[x.chunk].size = hp[x.chunk].size
  BY <1>1
<1> QED BY <1>1, <1>2 DEF PlacedOK

(* The invariant of the blocks.                                               *)
LEMMA LayoutInvInit == Init => LayoutInv
<1> SUFFICES ASSUME Init PROVE LayoutOK
  BY OwnerInvInit DEF LayoutInv
<1>1. pools = [p \in Pool |-> NoPool] /\ blocks = {}
  BY DEF Init
<1>2. \A p \in Pool : FreeOK(pools[p], heap)
  BY <1>1, EmptyPoolFields DEF FreeOK
<1> QED BY <1>1, <1>2 DEF LayoutOK

(* A pool that is constructed.                                                *)
LEMMA ConstructLayout ==
  ASSUME LayoutInv, NEW p \in Pool, Construct(p)
  PROVE  LayoutOK'
<1>1. /\ pools' = [pools EXCEPT ![p] = EmptyPool] /\ heap' = heap /\ blocks' = blocks
      /\ pools[p].state = "none" /\ pools \in [Pool -> PoolRecord] /\ OwnerInv /\ StateOK
  BY DEF Construct, LayoutInv, OwnerInv, StateOK
<1>2. pools'[p] = EmptyPool /\ \A o \in Pool \ {p} : pools'[o] = pools[o]
  BY <1>1
<1>3. FreeOK(EmptyPool, heap)
  <2>1. HalfAligned(0)
    <3>1. ASSUME NEW t \in Elem
          PROVE  (2 * 0) % Alignment[t] = 0
      <4>1. Alignment[t] \in Nat /\ Alignment[t] >= 1
        BY ElemAssumption
      <4> QED BY <4>1
    <3> QED BY <3>1 DEF HalfAligned
  <2>2. EmptyPool.first_free.at = 0 /\ EmptyPool.first_free.chunk = 0
    BY EmptyPoolFields DEF nullptr
  <2> QED BY <2>1, <2>2, EmptyPoolFields DEF FreeOK
<1>4. ASSUME NEW o \in Pool
      PROVE  FreeOK(pools[o], heap)'
  BY <1>1, <1>2, <1>3 DEF LayoutInv, LayoutOK
<1>5. ASSUME NEW x \in blocks
      PROVE  PlacedOK(x, pools[x.pool], heap)'
  <2>1. PlacedOK(x, pools[x.pool], heap) /\ x.pool \in Pool
    BY <1>1, FieldTypes DEF LayoutInv, LayoutOK
  <2>2. x.pool # p
    <3>1. pools[p].allocated_chunks = <<>>
      BY <1>1 DEF OwnerInv, OwnersOK, PoolOK
    <3> QED BY <2>1, <3>1, EmptyOwnsNothing DEF PlacedOK
  <2> QED BY <1>1, <1>2, <2>1, <2>2
<1>6. \A x, y \in blocks : x # y => ~Overlap(x, y)
  BY DEF LayoutInv, LayoutOK
<1> QED BY <1>1, <1>4, <1>5, <1>6 DEF LayoutOK

(* A pool that is destroyed takes its blocks with it.                         *)
LEMMA DestroyLayout ==
  ASSUME LayoutInv, NEW p \in Pool, Destroy(p)
  PROVE  LayoutOK'
<1>1. /\ heap' = Freed(pools[p].allocated_chunks) /\ blocks' = {x \in blocks : x.pool # p}
      /\ OwnerInv /\ StateOK
  BY DEF Destroy, LayoutInv, OwnerInv
<1>2. pools'[p] = NoPool /\ \A o \in Pool \ {p} : pools'[o] = pools[o]
  BY <1>1, DestroyOwners
<1>3. \A c \in DOMAIN heap : heap'[c].size = heap[c].size
  BY <1>1, FreedProperties
<1>4. ASSUME NEW o \in Pool \ {p}
      PROVE  \A i \in Nat : \A c : Owns(pools[o], i, c) =>
               Owns(pools'[o], i, c) /\ heap'[c].size = heap[c].size
  BY <1>1, <1>2, <1>3, OwnedChunk
<1>5. ASSUME NEW o \in Pool
      PROVE  FreeOK(pools'[o], heap')
  <2>1. CASE o = p
    BY <1>2, <2>1, EmptyPoolFields DEF FreeOK
  <2>2. CASE o # p
    <3>1. FreeOK(pools[o], heap) /\ pools'[o] = pools[o]
      BY <1>2, <2>2 DEF LayoutInv, LayoutOK
    <3> QED BY <1>4, <2>2, <3>1, FreeStays
  <2> QED BY <2>1, <2>2
<1>6. ASSUME NEW x \in blocks'
      PROVE  PlacedOK(x, pools'[x.pool], heap')
  <2>1. x \in blocks /\ x.pool \in Pool \ {p}
    BY <1>1, FieldTypes
  <2>2. PlacedOK(x, pools[x.pool], heap) /\ pools'[x.pool] = pools[x.pool]
    BY <1>2, <2>1 DEF LayoutInv, LayoutOK
  <2> QED BY <1>4, <2>1, <2>2, PlacedStays
<1>7. \A x, y \in blocks' : x # y => ~Overlap(x, y)
  BY <1>1 DEF LayoutInv, LayoutOK
<1> QED BY <1>5, <1>6, <1>7 DEF LayoutOK

(* When operator new throws.                                                  *)
LEMMA ThrowsLayout ==
  ASSUME LayoutInv, NEW p \in Pool, NEW t \in Elem, NEW n \in 0 .. MaxN,
         AllocateThrows(p, t, n)
  PROVE  LayoutOK'
<1>1. heap' = heap /\ blocks' = blocks /\ OwnerInv /\ StateOK
  BY DEF AllocateThrows, LayoutInv, OwnerInv
<1>2. /\ \A q \in Pool \ {p} : pools'[q] = pools[q]
      /\ pools'[p].state = pools[p].state
      /\ pools'[p].allocated_chunks = pools[p].allocated_chunks
      /\ pools'[p].first_free = pools[p].first_free
      /\ pools'[p].capacity = pools[p].capacity
  BY <1>1, ThrowsFields
<1>3. ASSUME NEW o \in Pool
      PROVE  /\ pools'[o].first_free = pools[o].first_free
             /\ pools'[o].capacity = pools[o].capacity
             /\ pools'[o].state = pools[o].state
             /\ \A i \in Nat : \A c : Owns(pools[o], i, c) =>
                  Owns(pools'[o], i, c) /\ heap'[c].size = heap[c].size
  BY <1>1, <1>2 DEF Owns
<1>4. \A o \in Pool : FreeOK(pools'[o], heap')
  <2> SUFFICES ASSUME NEW o \in Pool PROVE FreeOK(pools'[o], heap')
    OBVIOUS
  <2>1. FreeOK(pools[o], heap)
    BY DEF LayoutInv, LayoutOK
  <2> QED BY <1>3, <2>1, FreeStays
<1>5. \A x \in blocks' : PlacedOK(x, pools'[x.pool], heap')
  <2> SUFFICES ASSUME NEW x \in blocks PROVE PlacedOK(x, pools'[x.pool], heap')
    BY <1>1
  <2>1. PlacedOK(x, pools[x.pool], heap) /\ x.pool \in Pool
    BY <1>1, FieldTypes DEF LayoutInv, LayoutOK
  <2>2. /\ pools'[x.pool].first_free = pools[x.pool].first_free
        /\ \A i \in Nat : \A c : Owns(pools[x.pool], i, c) =>
             Owns(pools'[x.pool], i, c) /\ heap'[c].size = heap[c].size
    BY <1>3, <2>1
  <2> QED BY <2>1, <2>2, PlacedStays
<1>6. \A x, y \in blocks' : x # y => ~Overlap(x, y)
  BY <1>1 DEF LayoutInv, LayoutOK
<1> QED BY <1>4, <1>5, <1>6 DEF LayoutOK

(* A block from the current chunk: it starts where the free bytes start, or    *)
(* half an alignment after, and is aligned.                                   *)
LEMMA InChunkLayout ==
  ASSUME LayoutInv, NEW p \in Pool, NEW t \in Elem, NEW n \in 0 .. MaxN,
         AllocateInChunk(p, t, n)
  PROVE  LayoutOK'
<1> DEFINE free == pools[p].first_free
           k == free.chunk
           m == misalignment(p, t)
           r == required_space_in_chunk(p, t, n)
           b == Count(n) * Size[t]
           address == [free EXCEPT !.at = @ + m]
           new == Block(p, t, n, address)
<1>1. /\ heap' = heap /\ blocks' = blocks \cup {new} /\ OwnerInv /\ StateOK
  BY DEF AllocateInChunk, LayoutInv, OwnerInv
<1>2. /\ \A q \in Pool \ {p} : pools'[q] = pools[q]
      /\ pools'[p].state = "live" /\ pools[p].state = "live"
      /\ pools'[p].allocated_chunks = pools[p].allocated_chunks
      /\ pools'[p].first_free.chunk = k
      /\ pools'[p].first_free.at = free.at + r
      /\ pools'[p].capacity = pools[p].capacity - r
      /\ pools[p].capacity >= r
  BY <1>1, InChunkFields
<1>3. /\ m \in Nat /\ m < Alignment[t] /\ r \in Nat /\ r >= 1 /\ m + b <= r
      /\ r = required_space(t, n) + (Alignment[t] - m)
  BY <1>1, RequiredInChunk
<1>4. free.at \in Nat /\ k \in Nat /\ pools[p].capacity \in Nat /\ free \in Address
  BY <1>1, FieldTypes DEF StateOK, PoolRecord
<1>5. b \in Nat
  BY RequiredSpace
<1>6. m = free.at % Alignment[t]
  BY DEF misalignment
<1> HIDE DEF b
<1>7. /\ new.pool = p /\ new.chunk = k /\ new.at = free.at + m /\ new.size = b
      /\ new.alignment = Alignment[t]
  <2>1. /\ address \in Address /\ address.chunk = k /\ address.at = free.at + m
    <3> HIDE DEF free, m
    <3> QED BY <1>3, <1>4 DEF Address
  <2> HIDE DEF address
  <2> QED BY <2>1, BlockFields DEF b
<1> HIDE DEF new, r, m
<1>8. /\ HalfAligned(free.at)
      /\ \E i \in Nat : Owns(pools[p], i, k)
      /\ free.at + pools[p].capacity <= heap[k].size
  <2>1. FreeOK(pools[p], heap)
    BY DEF LayoutInv, LayoutOK
  <2>2. pools[p].capacity # 0
    BY <1>2, <1>3, <1>4
  <2> QED BY <1>2, <2>1, <2>2 DEF FreeOK
<1>9. PICK i \in Nat : Owns(pools[p], i, k)
  BY <1>8
<1>10. /\ heap[k].size \in Nat
       /\ \A q \in Pool, j \in Nat : Owns(pools[q], j, k) => q = p
  BY <1>1, <1>9, OwnedChunk
<1>11. HalfAligned(free.at + r)
  <2>1. PICK j \in Nat : free.at + r = Alignment[t] * j
    BY <1>3, <1>4, <1>6, FreeIsMultiple
  <2> QED BY <2>1, MultiplesAreHalfAligned
<1> HIDE DEF free
<1>12. free.at + m + b <= free.at + r /\ free.at + r <= heap[k].size
  <2> HIDE DEF k
  <2> QED BY <1>2, <1>3, <1>4, <1>5, <1>8, <1>10
<1>13. \A o \in Pool : \A j, c : Owns(pools'[o], j, c) <=> Owns(pools[o], j, c)
  BY <1>2 DEF Owns
<1>14. FreeOK(pools'[p], heap')
  <2>1. free.at + r + (pools[p].capacity - r) <= heap[k].size
    <3> HIDE DEF k
    <3> QED BY <1>2, <1>3, <1>4, <1>8
  <2> QED BY <1>1, <1>2, <1>9, <1>11, <1>13, <2>1 DEF FreeOK
<1>15. ASSUME NEW o \in Pool
       PROVE  FreeOK(pools'[o], heap')
  BY <1>1, <1>2, <1>14 DEF LayoutInv, LayoutOK
<1>16. ASSUME NEW x \in blocks
       PROVE  /\ PlacedOK(x, pools'[x.pool], heap')
              /\ x.chunk = k => x.at + x.size <= free.at
  <2>1. /\ PlacedOK(x, pools[x.pool], heap) /\ x.pool \in Pool
        /\ x.at \in Nat /\ x.size \in Nat
    BY <1>1, FieldTypes DEF LayoutInv, LayoutOK
  <2>2. x.chunk = k => x.pool = p /\ x.at + x.size <= free.at
    BY <1>10, <2>1 DEF PlacedOK, free
  <2>3. CASE x.pool # p
    BY <1>1, <1>2, <2>1, <2>2, <2>3
  <2>4. CASE x.pool = p
    <3>1. x.chunk = k => x.at + x.size <= free.at + r
      BY <1>3, <1>4, <2>1, <2>2
    <3>2. /\ \E j \in Nat : Owns(pools[p], j, x.chunk)
          /\ x.at + x.size <= heap[x.chunk].size
          /\ x.at % x.alignment = 0
      BY <2>1, <2>4 DEF PlacedOK
    <3> QED BY <1>1, <1>2, <1>13, <2>2, <2>4, <3>1, <3>2 DEF PlacedOK
  <2> QED BY <2>2, <2>3, <2>4
<1>17. PlacedOK(new, pools'[new.pool], heap')
  <2>1. (free.at + m) % Alignment[t] = 0
    <3>1. Alignment[t] \in Nat /\ Alignment[t] >= 1 /\ (2 * free.at) % Alignment[t] = 0
      BY <1>8, ElemProperties DEF HalfAligned
    <3> QED BY <1>4, <1>6, <3>1, MisalignmentTwice
  <2>2. /\ (free.at + m) + b <= heap[k].size
        /\ (free.at + m) + b <= free.at + r
    <3> HIDE DEF k
    <3> QED BY <1>3, <1>4, <1>5, <1>10, <1>12
  <2>3. \E j \in Nat : Owns(pools'[p], j, k)
    BY <1>9, <1>13
  <2> HIDE DEF k
  <2> QED BY <1>1, <1>2, <1>7, <2>1, <2>2, <2>3 DEF PlacedOK
<1>18. ASSUME NEW x \in blocks
       PROVE  ~Overlap(x, new) /\ ~Overlap(new, x)
  <2>1. x.chunk = k => x.at + x.size <= free.at
    BY <1>16
  <2>2. x.at \in Nat /\ x.size \in Nat
    BY <1>1, FieldTypes
  <2>3. x.chunk = k => ~(new.at < x.at + x.size)
    <3> HIDE DEF k
    <3> QED BY <1>3, <1>4, <1>7, <2>1, <2>2
  <2> QED BY <1>7, <2>3 DEF Overlap
<1>19. ASSUME NEW x \in blocks', NEW y \in blocks', x # y
       PROVE  ~Overlap(x, y)
  <2>1. CASE x \in blocks /\ y \in blocks
    BY <1>19, <2>1 DEF LayoutInv, LayoutOK
  <2> QED BY <1>1, <1>18, <1>19, <2>1
<1> QED BY <1>1, <1>15, <1>16, <1>17, <1>19 DEF LayoutOK

(* A block at the start of a new chunk, in which there is no other.           *)
LEMMA NewChunkLayout ==
  ASSUME LayoutInv, NEW p \in Pool, NEW t \in Elem, NEW n \in 0 .. MaxN,
         AllocateNewChunk(p, t, n)
  PROVE  LayoutOK'
<1> DEFINE k == Len(heap) + 1
           l == Len(pools[p].allocated_chunks) + 1
           r == required_space(t, n)
           b == Count(n) * Size[t]
           address == [chunk |-> k, at |-> 0]
           new == Block(p, t, n, address)
           size == IF r > CHUNK_SIZE THEN r ELSE CHUNK_SIZE
<1>1. /\ OwnerInv /\ StateOK /\ heap \in Seq(Chunk) /\ Len(heap) \in Nat
      /\ DOMAIN heap = 1 .. Len(heap) /\ k \in Nat /\ k \notin DOMAIN heap
      /\ pools[p].allocated_chunks \in Seq(Nat) /\ l \in Nat
  BY LenProperties DEF LayoutInv, OwnerInv, StateOK, PoolRecord
<1>2. /\ \A q \in Pool \ {p} : pools'[q] = pools[q]
      /\ pools'[p].state = "live" /\ pools[p].state = "live"
      /\ \/ /\ pools'[p].first_free = pools[p].first_free
            /\ pools'[p].capacity = pools[p].capacity
         \/ /\ pools'[p].first_free = [chunk |-> k, at |-> r]
            /\ r <= CHUNK_SIZE
            /\ pools'[p].capacity = CHUNK_SIZE - r
      /\ heap' = Append(heap, [size |-> size, freed |-> 0])
      /\ blocks' = blocks \cup {new}
  BY <1>1, NewChunkFields
<1>3. /\ r \in Nat /\ b \in Nat /\ b <= r /\ CHUNK_SIZE \in Nat /\ size \in Nat
      /\ r <= size /\ size >= CHUNK_SIZE
  <2>1. /\ r \in Nat /\ b \in Nat /\ r = b + Count(n) * Alignment[t]
        /\ Count(n) * Alignment[t] \in Nat /\ CHUNK_SIZE \in Nat
    BY RequiredSpace, PoolBoundsAssumption
  <2> DEFINE a == Count(n) * Alignment[t]
  <2> HIDE DEF a, r, b
  <2>2. r = b + a /\ a \in Nat
    BY <2>1 DEF a
  <2> QED BY <2>1, <2>2
<1>4. /\ new.pool = p /\ new.chunk = k /\ new.at = 0 /\ new.size = b
      /\ new.alignment = Alignment[t]
  <2>1. address \in Address /\ address.chunk = k /\ address.at = 0
    BY <1>1 DEF Address
  <2> HIDE DEF address
  <2> QED BY <2>1, BlockFields
<1>5. PICK j \in Nat : r = Alignment[t] * j
  BY RequiredIsMultiple
<1>6. HalfAligned(r)
  BY <1>5, MultiplesAreHalfAligned
<1> HIDE DEF new, b, r, size
<1>7. /\ DOMAIN heap' = DOMAIN heap \cup {k}
      /\ \A c \in DOMAIN heap : heap'[c] = heap[c]
      /\ \A o \in Pool, i, c \in Nat :
           Owns(pools'[o], i, c) <=> Owns(pools[o], i, c) \/ (o = p /\ c = k /\ i = l)
  BY <1>1, NewChunkOwners
<1>8. heap'[k].size = size
  <2>1. heap'[k] = [size |-> size, freed |-> 0]
    <3>1. [size |-> size, freed |-> 0] \in Chunk
      BY <1>3 DEF Chunk
    <3> QED BY <1>1, <1>2, <3>1, AppendProperties
  <2> QED BY <2>1
<1> HIDE DEF k, l
<1>9. ASSUME NEW o \in Pool
      PROVE  \A i \in Nat : \A c : Owns(pools[o], i, c) =>
               Owns(pools'[o], i, c) /\ heap'[c].size = heap[c].size /\ c # k
  BY <1>1, <1>7, OwnedChunk
<1>10. Owns(pools'[p], l, k)
  BY <1>1, <1>7
<1>11. FreeOK(pools'[p], heap')
  <2>1. CASE /\ pools'[p].first_free = pools[p].first_free
             /\ pools'[p].capacity = pools[p].capacity
    <3>1. FreeOK(pools[p], heap)
      BY DEF LayoutInv, LayoutOK
    <3>2. \A i \in Nat : \A c : Owns(pools[p], i, c) =>
            Owns(pools'[p], i, c) /\ heap'[c].size = heap[c].size
      BY <1>9
    <3>3. pools'[p].state = "live" => pools[p].state = "live"
      BY <1>2
    <3> QED BY <2>1, <3>1, <3>2, <3>3, FreeStays
  <2>2. CASE /\ pools'[p].first_free = [chunk |-> k, at |-> r]
             /\ r <= CHUNK_SIZE
             /\ pools'[p].capacity = CHUNK_SIZE - r
    <3>1. pools'[p].first_free.chunk = k /\ pools'[p].first_free.at = r
      BY <2>2
    <3>2. r + (CHUNK_SIZE - r) <= size
      BY <1>3, <2>2
    <3> QED BY <1>1, <1>6, <1>8, <1>10, <2>2, <3>1, <3>2 DEF FreeOK
  <2> QED BY <1>2, <2>1, <2>2
<1>12. ASSUME NEW o \in Pool
       PROVE  FreeOK(pools'[o], heap')
  <2>1. CASE o # p
    <3>1. FreeOK(pools[o], heap) /\ pools'[o] = pools[o]
      BY <1>2, <2>1 DEF LayoutInv, LayoutOK
    <3> QED BY <1>9, <3>1, FreeStays
  <2> QED BY <1>11, <2>1
<1>13. ASSUME NEW x \in blocks
       PROVE  PlacedOK(x, pools'[x.pool], heap') /\ x.chunk # k
  <2>1. PlacedOK(x, pools[x.pool], heap) /\ x.pool \in Pool
    BY <1>1, FieldTypes DEF LayoutInv, LayoutOK
  <2>2. x.chunk # k
    BY <1>9, <2>1 DEF PlacedOK
  <2>3. CASE pools'[x.pool].first_free = pools[x.pool].first_free
    <3>1. \A i \in Nat : \A c : Owns(pools[x.pool], i, c) =>
            Owns(pools'[x.pool], i, c) /\ heap'[c].size = heap[c].size
      BY <1>9, <2>1
    <3> QED BY <2>1, <2>2, <2>3, <3>1, PlacedStays
  <2>4. CASE pools'[x.pool].first_free = [chunk |-> k, at |-> r]
    <3>1. pools'[x.pool].first_free.chunk = k
      BY <2>4
    <3>2. /\ \E i \in Nat : Owns(pools[x.pool], i, x.chunk)
          /\ x.at + x.size <= heap[x.chunk].size
          /\ x.at % x.alignment = 0
      BY <2>1 DEF PlacedOK
    <3>3. /\ \E i \in Nat : Owns(pools'[x.pool], i, x.chunk)
          /\ heap'[x.chunk].size = heap[x.chunk].size
      BY <1>9, <2>1, <3>2
    <3> QED BY <2>2, <3>1, <3>2, <3>3 DEF PlacedOK
  <2> QED BY <1>2, <2>1, <2>3, <2>4
<1>14. PlacedOK(new, pools'[new.pool], heap')
  <2>1. \E i \in Nat : Owns(pools'[p], i, k)
    BY <1>1, <1>10
  <2>2. 0 + b <= size /\ 0 + b <= r
    BY <1>3
  <2>3. 0 % Alignment[t] = 0
    <3>1. Alignment[t] \in Nat /\ Alignment[t] >= 1
      BY ElemProperties
    <3> QED BY <3>1
  <2>4. k = pools'[p].first_free.chunk => 0 + b <= pools'[p].first_free.at
    <3>1. CASE pools'[p].first_free = pools[p].first_free
      <4>1. k # pools[p].first_free.chunk
        <5>1. FreeOK(pools[p], heap)
          BY DEF LayoutInv, LayoutOK
        <5>2. k # 0
          BY <1>1 DEF k
        <5> QED BY <1>2, <1>9, <5>1, <5>2 DEF FreeOK
      <4> QED BY <3>1, <4>1
    <3>2. CASE pools'[p].first_free = [chunk |-> k, at |-> r]
      BY <2>2, <3>2
    <3> QED BY <1>2, <3>1, <3>2
  <2> QED BY <1>4, <1>8, <2>1, <2>2, <2>3, <2>4 DEF PlacedOK
<1>15. ASSUME NEW x \in blocks', NEW y \in blocks', x # y
       PROVE  ~Overlap(x, y)
  <2>1. CASE x \in blocks /\ y \in blocks
    BY <1>15, <2>1 DEF LayoutInv, LayoutOK
  <2> QED BY <1>2, <1>4, <1>13, <1>15, <2>1 DEF Overlap
<1> QED BY <1>2, <1>12, <1>13, <1>14, <1>15 DEF LayoutOK

(* The blocks of a pool that is moved go with it.                             *)
LEMMA MoveLayout ==
  ASSUME LayoutInv, NEW p \in Pool, NEW q \in Pool,
         MoveConstruct(p, q) \/ MoveAssign(p, q)
  PROVE  LayoutOK'
<1>0. OwnerInv /\ StateOK /\ p # q /\ blocks \subseteq BlockRecord
  BY DEF LayoutInv, OwnerInv, StateOK, MoveConstruct, MoveAssign
<1>1. /\ \A o \in Pool \ {p, q} : pools'[o] = pools[o]
      /\ pools'[p] = pools[q] /\ pools[q].state = "live"
      /\ pools'[q].state = "moved_from"
      /\ blocks' = Given(p, q)
  BY <1>0, MoveFields
<1>2. \A c \in DOMAIN heap : heap'[c].size = heap[c].size
  BY <1>0, MoveHeap
<1>3. \A o \in Pool, i \in Nat : \A c :
        Owns(pools[o], i, c) => heap'[c].size = heap[c].size
  BY <1>0, <1>2, OwnedChunk
<1>4. ASSUME NEW o \in Pool
      PROVE  FreeOK(pools[o], heap')
  <2>1. FreeOK(pools[o], heap)
    BY DEF LayoutInv, LayoutOK
  <2> QED BY <1>3, <2>1, FreeStays
<1>5. ASSUME NEW o \in Pool
      PROVE  FreeOK(pools'[o], heap')
  <2>1. CASE o = p
    BY <1>1, <1>4, <2>1
  <2>2. CASE o = q
    BY <1>1, <2>2 DEF FreeOK
  <2>3. CASE o # p /\ o # q
    BY <1>1, <1>4, <2>3
  <2> QED BY <2>1, <2>2, <2>3
<1>6. ASSUME NEW y \in blocks'
      PROVE  PlacedOK(y, pools'[y.pool], heap')
  <2>1. PICK x \in blocks :
          /\ x.pool # p
          /\ y.pool = IF x.pool = q THEN p ELSE x.pool
          /\ y.chunk = x.chunk /\ y.at = x.at
          /\ y.size = x.size /\ y.alignment = x.alignment
    BY <1>0, <1>1, GivenFields
  <2>2. x.pool \in Pool /\ PlacedOK(x, pools[x.pool], heap)
    BY <1>0, FieldTypes DEF LayoutInv, LayoutOK
  <2>3. pools'[y.pool] = pools[x.pool]
    BY <1>1, <2>1, <2>2
  <2>4. PlacedOK(x, pools[x.pool], heap')
    BY <1>3, <2>2, PlacedStays
  <2>5. PlacedOK(y, pools[x.pool], heap')
    BY <2>1, <2>4 DEF PlacedOK
  <2> QED BY <2>3, <2>5
<1>7. ASSUME NEW y \in blocks', NEW z \in blocks', y # z
      PROVE  ~Overlap(y, z)
  <2>1. PICK v \in blocks :
          /\ y = [v EXCEPT !.pool = IF @ = q THEN p ELSE @]
          /\ y.chunk = v.chunk /\ y.at = v.at /\ y.size = v.size
    BY <1>0, <1>1, GivenFields
  <2>2. PICK w \in blocks :
          /\ z = [w EXCEPT !.pool = IF @ = q THEN p ELSE @]
          /\ z.chunk = w.chunk /\ z.at = w.at /\ z.size = w.size
    BY <1>0, <1>1, GivenFields
  <2>3. v # w
    BY <1>7, <2>1, <2>2
  <2>4. ~Overlap(v, w)
    BY <2>3 DEF LayoutInv, LayoutOK
  <2> QED BY <2>1, <2>2, <2>4 DEF Overlap
<1> QED BY <1>5, <1>6, <1>7 DEF LayoutOK

(* Every operation keeps the invariant of the blocks.                         *)
LEMMA LayoutInvNext == LayoutInv /\ [Next]_vars => LayoutInv'
<1> SUFFICES ASSUME LayoutInv, [Next]_vars PROVE LayoutOK'
  BY OwnerInvNext DEF LayoutInv
<1>1. CASE UNCHANGED vars
  <2>1. pools' = pools /\ heap' = heap /\ blocks' = blocks
    BY <1>1 DEF vars
  <2> QED BY <2>1 DEF LayoutInv, LayoutOK
<1> QED BY <1>1, ConstructLayout, DestroyLayout, InChunkLayout, NewChunkLayout,
           ThrowsLayout, MoveLayout DEF Next

(* BlocksAreUsable, for all types whose alignments differ by a factor of two  *)
(* at most: a block lies within a chunk that is not freed, is aligned for its *)
(* type and shares no byte with another.                                      *)
THEOREM BlocksStayUsable == Spec => []BlocksAreUsable
<1>1. Spec => []LayoutInv
  BY LayoutInvInit, LayoutInvNext, PTL DEF Spec
<1>2. LayoutInv => BlocksAreUsable
  <2> SUFFICES ASSUME LayoutInv, NEW x \in blocks
               PROVE  /\ heap[x.chunk].freed = 0
                      /\ x.at + x.size <= heap[x.chunk].size
                      /\ x.at % x.alignment = 0
                      /\ \A y \in blocks : x # y => ~Overlap(x, y)
    BY DEF BlocksAreUsable
  <2>1. /\ OwnerInv /\ x.pool \in Pool /\ PlacedOK(x, pools[x.pool], heap)
        /\ \A y \in blocks : x # y => ~Overlap(x, y)
    BY FieldTypes DEF LayoutInv, LayoutOK, OwnerInv
  <2>2. heap[x.chunk].freed = 0
    BY <2>1, OwnedChunk DEF PlacedOK
  <2> QED BY <2>1, <2>2 DEF PlacedOK
<1> QED BY <1>1, <1>2, PTL

(* PoolTypeOK: the types of the variables, and a block in use names a chunk    *)
(* that operator new has returned.                                            *)
THEOREM PoolTypeCorrectness == Spec => []PoolTypeOK
<1>1. Spec => []LayoutInv
  BY LayoutInvInit, LayoutInvNext, PTL DEF Spec
<1>2. LayoutInv => PoolTypeOK
  <2> SUFFICES ASSUME LayoutInv PROVE PoolTypeOK
    OBVIOUS
  <2>1. OwnerInv /\ StateOK
    BY DEF LayoutInv, OwnerInv
  <2>2. ASSUME NEW x \in blocks
        PROVE  x.pool \in Pool /\ x.chunk \in DOMAIN heap
    <3>1. x.pool \in Pool /\ PlacedOK(x, pools[x.pool], heap)
      BY <2>1, FieldTypes DEF LayoutInv, LayoutOK
    <3> QED BY <2>1, <3>1, OwnedChunk DEF PlacedOK
  <2> QED BY <2>1, <2>2 DEF PoolTypeOK, StateOK, PoolRecord, Chunk
<1> QED BY <1>1, <1>2, PTL
=============================================================================
