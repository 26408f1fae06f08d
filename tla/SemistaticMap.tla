----------------------------- MODULE SemistaticMap -----------------------------
(***************************************************************************)
(* SemistaticMap: the hash map from types to nodes of an injection graph.  *)
(*                                                                         *)
(* A map is built once.  Multipliers are tried at random until no bucket   *)
(* has beta elements; all the values then lie in one vector, ordered by    *)
(* bucket.  A second map is a shallow copy of the first with more elements: *)
(* its lookup table points into the vector of the first one, except for the *)
(* buckets that have grown, which are copied to a vector of its own.        *)
(***************************************************************************)
EXTENDS Integers, FiniteSets, FiniteSetsExt, SequencesExt

CONSTANTS Key,        \* types
          HashOf,     \* std::hash of a key
          WordBits,   \* the number of bits of Unsigned
          None

Unsigned == 0 .. 2 ^ WordBits - 1

ASSUME HashAssumption ==
  /\ WordBits \in Nat \ {0}
  /\ HashOf \in [Key -> Unsigned]
  /\ None \notin Key /\ None \notin Nat

(* Laws of the powers of two, of which the provers know none.                 *)
ASSUME PowersAssumption ==
  \A n \in 0 .. WordBits :
    2 ^ n \in Nat \ {0} /\ 2 ^ n * 2 ^ (WordBits - n) = 2 ^ WordBits

beta == 4

VARIABLES
  mapStatus,      \* "none", "choosing", "filling", "built", "inserting", "extended"
  hashFunction,   \* a and the number of bits that are kept, shared by the maps
  count,          \* elements of each bucket for the multiplier being tried
  elements,       \* what is still to be put into a map
  values,         \* the vectors of the two maps
  lookupTable,    \* their lookup tables
  capacity,       \* of the vector of the second map
  contents        \* history: the elements given to the first and second map

mapVars == <<mapStatus, hashFunction, count, elements, values, lookupTable,
             capacity, contents>>

Map == {"old", "new"}
Element == [key : Key, value : Nat]
NoElement == [key |-> None, value |-> 0]

(* A range [begin, end) of positions in the vector of the map vec.            *)
CandidateValuesRange == [vec : Map, begin : Nat, end : Nat]

(* The least number of bits, at least 1, that numbers n elements, and one.    *)
PickNumBits(n) == 1 + Min({r \in 1 .. n + 1 : 2 ^ r >= n})

Buckets == 0 .. 2 ^ hashFunction.numBits - 1

(* (Unsigned)(a * x) >> shift.                                                *)
HashWith(a, numBits, key) ==
  ((a * HashOf[key]) % 2 ^ WordBits) \div 2 ^ (WordBits - numBits)
Hash(key) == HashWith(hashFunction.a, hashFunction.numBits, key)

MapTypeOK ==
  /\ mapStatus \in {"none", "choosing", "filling", "built", "inserting",
                    "extended"}
  /\ hashFunction \in [a : Unsigned, numBits : 0 .. WordBits]
  /\ count \in [Buckets -> Nat]
  /\ elements \in Seq(Element)
  /\ values \in [Map -> Seq(Element \cup {NoElement})]
  /\ \A m \in Map : \A h \in DOMAIN lookupTable[m] :
       /\ lookupTable[m][h] \in CandidateValuesRange
       /\ lookupTable[m][h].begin <= lookupTable[m][h].end
       /\ lookupTable[m][h].end <= Len(values[lookupTable[m][h].vec])
  /\ capacity \in Nat
  /\ contents \in [Map -> SUBSET Element]

MapInit ==
  /\ mapStatus = "none"
  /\ hashFunction = [a |-> 0, numBits |-> 0]
  /\ count = [h \in {0} |-> 0]
  /\ elements = <<>>
  /\ values = [m \in Map |-> <<>>]
  /\ lookupTable = [m \in Map |-> <<>>]
  /\ capacity = 0
  /\ contents = [m \in Map |-> {}]

-----------------------------------------------------------------------------
(* SemistaticMap(values_begin, values_end, num_values, memory_pool).          *)
StartMap(elems) ==
  /\ mapStatus = "none"
  /\ mapStatus' = "choosing"
  /\ hashFunction' = [a |-> 0, numBits |-> PickNumBits(Len(elems))]
  /\ count' = [h \in 0 .. 2 ^ PickNumBits(Len(elems)) - 1 |-> 0]
  /\ elements' = elems
  /\ contents' = [contents EXCEPT !["old"] = ToSet(elems)]
  /\ UNCHANGED <<values, lookupTable, capacity>>

CountWith(a) ==
  [h \in Buckets |->
     count[h] + Cardinality({i \in DOMAIN elements :
       HashWith(a, hashFunction.numBits, elements[i].key) = h})]
Rejected(a) == \E h \in Buckets : CountWith(a)[h] >= beta

(* A bucket has got beta elements: forget the counts and draw again.          *)
PickAnother ==
  /\ mapStatus = "choosing"
  /\ \E a \in Unsigned : /\ Rejected(a)
                         /\ hashFunction' = [hashFunction EXCEPT !.a = a]
  /\ count' = [h \in Buckets |-> 0]
  /\ UNCHANGED <<mapStatus, elements, values, lookupTable, capacity, contents>>

(* std::partial_sum: the end of each bucket, where its range is at first.     *)
PartialSum(c, h) == SumFunctionOnSet(c, {g \in Buckets : g <= h})

PickHashFunction ==
  /\ mapStatus = "choosing"
  /\ \E a \in Unsigned : /\ ~Rejected(a)
                         /\ hashFunction' = [hashFunction EXCEPT !.a = a]
                         /\ count' = CountWith(a)
  /\ values' = [values EXCEPT !["old"] = [i \in DOMAIN elements |-> NoElement]]
  /\ lookupTable' = [lookupTable EXCEPT !["old"] =
       [h \in Buckets |-> [vec |-> "old", begin |-> PartialSum(count', h),
                           end |-> PartialSum(count', h)]]]
  /\ mapStatus' = "filling"
  /\ UNCHANGED <<elements, capacity, contents>>

(* An element goes before those that its bucket has already.                  *)
FillNext ==
  /\ mapStatus = "filling" /\ elements # <<>>
  /\ LET h == Hash(Head(elements).key)
         p == lookupTable["old"][h].begin - 1
     IN /\ lookupTable' = [lookupTable EXCEPT !["old"][h].begin = p]
        /\ values' = [values EXCEPT !["old"][p + 1] = Head(elements)]
  /\ elements' = Tail(elements)
  /\ mapStatus' = IF Tail(elements) = <<>> THEN "built" ELSE "filling"
  /\ UNCHANGED <<hashFunction, count, capacity, contents>>

(* A map without elements has nothing to fill.                                *)
FinishEmptyMap ==
  /\ mapStatus = "filling" /\ elements = <<>>
  /\ mapStatus' = "built"
  /\ UNCHANGED <<hashFunction, count, elements, values, lookupTable, capacity,
                 contents>>

-----------------------------------------------------------------------------
(* SemistaticMap(map, new_elements): sorted by hash, in any order otherwise.  *)
SortedByHash(s) == \A i, j \in DOMAIN s :
                     i < j => Hash(s[i].key) <= Hash(s[j].key)

RangeSizes ==
  [h \in Buckets |-> lookupTable["old"][h].end - lookupTable["old"][h].begin]

(* The new elements, and the old ones of each bucket that grows.              *)
SpaceNeeded(elems) ==
  Cardinality(elems)
    + SumFunctionOnSet(RangeSizes, {Hash(e.key) : e \in elems})

StartExtension(elems) ==
  /\ mapStatus = "built"
  /\ \E s \in SetToSeqs(elems) : SortedByHash(s) /\ elements' = s
  /\ capacity' = SpaceNeeded(elems)
  /\ lookupTable' = [lookupTable EXCEPT !["new"] = lookupTable["old"]]
  /\ contents' = [contents EXCEPT !["new"] = contents["old"] \cup elems]
  /\ mapStatus' = IF elems = {} THEN "extended" ELSE "inserting"
  /\ UNCHANGED <<hashFunction, count, values>>

RangeContents(r) == SubSeq(values[r.vec], r.begin + 1, r.end)

(* Mutant: the old elements of the bucket are left behind.                    *)
InsertWithoutOld ==
  /\ mapStatus = "inserting" /\ elements # <<>>
  /\ LET h == Hash(Head(elements).key)
         last == Max({i \in DOMAIN elements : Hash(elements[i].key) = h})
         bucket == SubSeq(elements, 1, last)
         begin == Len(values["new"])
     IN /\ values' = [values EXCEPT !["new"] = @ \o bucket]
        /\ lookupTable' = [lookupTable EXCEPT !["new"][h] =
             [vec |-> "new", begin |-> begin, end |-> begin + Len(bucket)]]
        /\ elements' = SubSeq(elements, last + 1, Len(elements))
  /\ mapStatus' = IF elements' = <<>> THEN "extended" ELSE "inserting"
  /\ UNCHANGED <<hashFunction, count, capacity, contents>>

(* All the new elements of a bucket: its old elements are copied first.       *)
Insert ==
  /\ mapStatus = "inserting" /\ elements # <<>>
  /\ LET h == Hash(Head(elements).key)
         last == Max({i \in DOMAIN elements : Hash(elements[i].key) = h})
         bucket == RangeContents(lookupTable["new"][h])
                     \o SubSeq(elements, 1, last)
         begin == Len(values["new"])
     IN /\ values' = [values EXCEPT !["new"] = @ \o bucket]
        /\ lookupTable' = [lookupTable EXCEPT !["new"][h] =
             [vec |-> "new", begin |-> begin, end |-> begin + Len(bucket)]]
        /\ elements' = SubSeq(elements, last + 1, Len(elements))
  /\ mapStatus' = IF elements' = <<>> THEN "extended" ELSE "inserting"
  /\ UNCHANGED <<hashFunction, count, capacity, contents>>

(* The first match in the range of the bucket; None if there is none.         *)
Find(m, key) ==
  LET bucket == RangeContents(lookupTable[m][Hash(key)])
      matches == {i \in DOMAIN bucket : bucket[i].key = key}
  IN IF matches = {} THEN None ELSE bucket[Min(matches)].value

MapStep == \/ PickAnother \/ PickHashFunction \/ FillNext \/ FinishEmptyMap
           \/ Insert

-----------------------------------------------------------------------------
Ready(m) == IF m = "old" THEN mapStatus \in {"built", "inserting", "extended"}
                         ELSE mapStatus = "extended"

(* A map that is ready finds every element that it was given, with its value, *)
(* and nothing else: the first map also while, and after, the second one is   *)
(* built on its data.                                                         *)
FindIsExact ==
  \A m \in Map : Ready(m) =>
    \A k \in Key :
      IF \E e \in contents[m] : e.key = k
        THEN [key |-> k, value |-> Find(m, k)] \in contents[m]
        ELSE Find(m, k) = None

(* push_back does not check the capacity of a FixedSizeVector: the space       *)
(* computed beforehand is what the insertions need, neither less nor more.    *)
SpaceIsExact ==
  /\ Len(values["new"]) <= capacity
  /\ mapStatus = "extended" => Len(values["new"]) = capacity
=============================================================================
