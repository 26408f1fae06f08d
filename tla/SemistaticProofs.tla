---------------------------- MODULE SemistaticProofs ----------------------------
(***************************************************************************)
(* Proofs about SemistaticMap and SemistaticGraph, for every hash function, *)
(* every set of types and all bindings.                                    *)
(***************************************************************************)
EXTENDS SemistaticGraph, FiniteSetTheorems, WellFoundedInduction,
        SequenceTheorems, TLAPS

-----------------------------------------------------------------------------
(* Induction over the subsets of a finite set: a set P of subsets that has s   *)
(* when it has s without any of its elements, has them all.                   *)
LEMMA FiniteInduction ==
  ASSUME NEW S, IsFiniteSet(S), NEW P,
         \A s \in SUBSET S : (\A x \in s : s \ {x} \in P) => s \in P
  PROVE  S \in P
<1> DEFINE T == (SUBSET S) \ P
           R == StrictSubsetOrdering(S)
           F == FiniteSubsetsOf(S)
<1>1. SUFFICES ASSUME S \notin P PROVE FALSE
  OBVIOUS
<1>2. IsWellFoundedOn(R, F)
  BY FS_StrictSubsetOrderingWellFounded
<1>3. T \subseteq F /\ T # {}
  <2>1. F = SUBSET S
    BY FS_FiniteSubsetsOfFinite
  <2> QED BY <1>1, <2>1
<1>4. PICK x \in T : \A y \in T : ~ (<<y, x>> \in R)
  <2> HIDE DEF T, R, F
  <2> QED BY <1>2, <1>3, WFMin, Zenon
<1>5. x \in SUBSET S
  OBVIOUS
<1>6. PICK e \in x : x \ {e} \notin P
  BY <1>4, <1>5
<1>7. x \ {e} \in T
  BY <1>5, <1>6
<1>8. <<x \ {e}, x>> \in R
  BY <1>5, <1>6 DEF StrictSubsetOrdering
<1> QED BY <1>4, <1>7, <1>8

LEMMA DisjointUnion ==
  ASSUME NEW S, IsFiniteSet(S), NEW T, IsFiniteSet(T), S \cap T = {}
  PROVE  /\ IsFiniteSet(S \cup T)
         /\ Cardinality(S) \in Nat /\ Cardinality(T) \in Nat
         /\ Cardinality(S \cup T) = Cardinality(S) + Cardinality(T)
<1>1. Cardinality(S \cap T) = 0
  BY FS_EmptySet
<1>2. Cardinality(S) \in Nat /\ Cardinality(T) \in Nat
  BY FS_CardinalityType
<1>3. /\ IsFiniteSet(S \cup T)
      /\ Cardinality(S \cup T)
           = Cardinality(S) + Cardinality(T) - Cardinality(S \cap T)
  BY FS_Union
<1> QED BY <1>1, <1>2, <1>3

LEMMA IntervalSize ==
  ASSUME NEW n \in Nat
  PROVE  IsFiniteSet(1 .. n) /\ Cardinality(1 .. n) = n
BY FS_Interval

LEMMA SameCardinality ==
  ASSUME NEW S, IsFiniteSet(S), NEW T, NEW f \in [S -> T],
         \A a, b \in S : f[a] = f[b] => a = b,
         \A t \in T : \E a \in S : f[a] = t
  PROVE  IsFiniteSet(T) /\ Cardinality(T) = Cardinality(S)
<1>1. f \in Bijection(S, T)
  BY DEF Bijection, Injection, Surjection, IsInjective
<1>2. ExistsBijection(S, T)
  BY <1>1 DEF ExistsBijection
<1> QED BY <1>2, FS_Bijection

(* The sum of a function is the number of pairs below it.                     *)
Below(c, s) == {x \in s \X Nat : x[2] < c[x[1]]}

LEMMA BelowOne ==
  ASSUME NEW D, NEW c \in [D -> Nat], NEW x \in D
  PROVE  IsFiniteSet(Below(c, {x})) /\ Cardinality(Below(c, {x})) = c[x]
<1> DEFINE n == c[x]
           f == [j \in 1 .. n |-> <<x, j - 1>>]
<1>1. n \in Nat /\ IsFiniteSet(1 .. n) /\ Cardinality(1 .. n) = n
  BY FS_Interval
<1>2. f \in [1 .. n -> Below(c, {x})]
  BY <1>1 DEF Below
<1>3. \A a, b \in 1 .. n : f[a] = f[b] => a = b
  BY <1>1
<1>4. \A p \in Below(c, {x}) : \E a \in 1 .. n : f[a] = p
  <2> TAKE p \in Below(c, {x})
  <2>1. p = <<x, p[2]>> /\ p[2] \in Nat /\ p[2] < n
    BY DEF Below
  <2>2. p[2] + 1 \in 1 .. n
    BY <2>1, <1>1
  <2> QED BY <2>1, <2>2
<1> HIDE DEF f, n
<1>5. /\ IsFiniteSet(Below(c, {x}))
      /\ Cardinality(Below(c, {x})) = Cardinality(1 .. n)
  BY ONLY <1>1, <1>2, <1>3, <1>4, SameCardinality
<1> QED BY <1>1, <1>5 DEF n

LEMMA BelowSplit ==
  ASSUME NEW c, NEW s, NEW x \in s
  PROVE  /\ Below(c, s) = Below(c, s \ {x}) \cup Below(c, {x})
         /\ Below(c, s \ {x}) \cap Below(c, {x}) = {}
BY DEF Below

LEMMA BelowFinite ==
  ASSUME NEW D, NEW c \in [D -> Nat], NEW S \in SUBSET D, IsFiniteSet(S)
  PROVE  /\ IsFiniteSet(Below(c, S)) /\ Cardinality(Below(c, S)) \in Nat
         /\ \A x \in S :
              Cardinality(Below(c, S)) = c[x] + Cardinality(Below(c, S \ {x}))
<1> DEFINE P == {s \in SUBSET S : IsFiniteSet(Below(c, s))}
<1>1. ASSUME NEW s \in SUBSET S, \A x \in s : s \ {x} \in P
      PROVE  s \in P
  <2>1. CASE s = {}
    <3>1. Below(c, s) = {}
      BY <2>1 DEF Below
    <3> QED BY <3>1, FS_EmptySet
  <2>2. CASE s # {}
    <3>1. PICK x \in s : s \ {x} \in P
      BY <1>1, <2>2
    <3>2. IsFiniteSet(Below(c, {x}))
      BY <3>1, BelowOne
    <3>3. IsFiniteSet(Below(c, s \ {x}) \cup Below(c, {x}))
      BY <3>1, <3>2, FS_Union
    <3> QED BY <3>1, <3>3, BelowSplit
  <2> QED BY <2>1, <2>2
<1>2. S \in P
  <2> HIDE DEF P
  <2> QED BY <1>1, FiniteInduction
<1>3. ASSUME NEW x \in S
      PROVE  Cardinality(Below(c, S)) = c[x] + Cardinality(Below(c, S \ {x}))
  <2>1. /\ Below(c, S) = Below(c, S \ {x}) \cup Below(c, {x})
        /\ Below(c, S \ {x}) \cap Below(c, {x}) = {}
    BY BelowSplit
  <2>2. IsFiniteSet(Below(c, S \ {x}))
    BY <1>2, FS_Subset, <2>1
  <2>3. IsFiniteSet(Below(c, {x})) /\ Cardinality(Below(c, {x})) = c[x]
    BY BelowOne
  <2>4. Cardinality(Below(c, S))
          = Cardinality(Below(c, S \ {x})) + Cardinality(Below(c, {x}))
    BY <2>1, <2>2, <2>3, DisjointUnion
  <2>5. c[x] \in Nat /\ Cardinality(Below(c, S \ {x})) \in Nat
    BY <2>2, FS_CardinalityType
  <2> QED BY <2>3, <2>4, <2>5
<1> QED BY <1>2, <1>3, FS_CardinalityType

LEMMA SumIsCount ==
  ASSUME NEW D, NEW c \in [D -> Nat], NEW S \in SUBSET D, IsFiniteSet(S)
  PROVE  SumFunctionOnSet(c, S) = Cardinality(Below(c, S))
<1> DEFINE Eq(f) == f = [s \in SUBSET S |->
                           IF s = {} THEN 0
                           ELSE c[CHOOSE x \in s : TRUE]
                                  + f[s \ {CHOOSE x \in s : TRUE}]]
           iter == CHOOSE f : Eq(f)
           total == [s \in SUBSET S |-> Cardinality(Below(c, s))]
<1>1. SumFunctionOnSet(c, S) = iter[S]
  BY DEF SumFunctionOnSet, FoldFunctionOnSet, MapThenFoldSet
<1>2. Eq(total)
  <2>1. Below(c, {}) = {}
    BY DEF Below
  <2>2. total[{}] = 0
    BY <2>1, FS_EmptySet
  <2>3. ASSUME NEW s \in SUBSET S, s # {}
        PROVE  total[s] = c[CHOOSE x \in s : TRUE]
                            + total[s \ {CHOOSE x \in s : TRUE}]
    <3>1. (CHOOSE x \in s : TRUE) \in s
      BY <2>3
    <3>2. IsFiniteSet(s) /\ s \in SUBSET D
      BY FS_Subset
    <3>3. \A x \in s : Cardinality(Below(c, s))
                         = c[x] + Cardinality(Below(c, s \ {x}))
      BY <3>2, BelowFinite
    <3> QED BY <3>1, <3>3
  <2> QED BY <2>2, <2>3
<1>3. Eq(iter)
  <2> HIDE DEF Eq
  <2> QED BY <1>2
<1>4. iter[S] = total[S]
  <2> HIDE DEF iter
  <2> DEFINE P == {s \in SUBSET S : iter[s] = total[s]}
  <2>1. ASSUME NEW s \in SUBSET S, \A x \in s : s \ {x} \in P
        PROVE  s \in P
    <3>1. CASE s = {}
      BY <3>1, <1>2, <1>3
    <3>2. CASE s # {}
      <4> DEFINE y == CHOOSE x \in s : TRUE
      <4>1. y \in s /\ s \ {y} \in SUBSET S
        BY <3>2
      <4>2. iter[s] = c[y] + iter[s \ {y}]
        BY <1>3, <3>2
      <4>3. total[s] = c[y] + total[s \ {y}]
        BY <1>2, <3>2
      <4>4. iter[s \ {y}] = total[s \ {y}]
        BY <2>1, <4>1
      <4> QED BY <4>2, <4>3, <4>4
    <3> QED BY <3>1, <3>2
  <2> HIDE DEF P
  <2>2. S \in P
    BY <2>1, FiniteInduction
  <2> QED BY <2>2 DEF P
<1> QED BY <1>1, <1>4

LEMMA SumOfNone ==
  ASSUME NEW D, NEW c \in [D -> Nat]
  PROVE  SumFunctionOnSet(c, {}) = 0
<1>1. Below(c, {}) = {}
  BY DEF Below
<1> QED BY <1>1, SumIsCount, FS_EmptySet

LEMMA SumRemove ==
  ASSUME NEW D, NEW c \in [D -> Nat], NEW S \in SUBSET D, IsFiniteSet(S)
  PROVE  /\ SumFunctionOnSet(c, S) \in Nat
         /\ \A x \in S : /\ SumFunctionOnSet(c, S \ {x}) \in Nat
                         /\ SumFunctionOnSet(c, S)
                              = c[x] + SumFunctionOnSet(c, S \ {x})
<1>1. SumFunctionOnSet(c, S) = Cardinality(Below(c, S))
  BY SumIsCount
<1>2. ASSUME NEW x \in S
      PROVE  /\ SumFunctionOnSet(c, S \ {x}) = Cardinality(Below(c, S \ {x}))
             /\ Cardinality(Below(c, S \ {x})) \in Nat
  <2>1. IsFiniteSet(S \ {x})
    BY FS_RemoveElement
  <2>2. S \ {x} \in SUBSET D
    OBVIOUS
  <2> HIDE DEF Below
  <2> QED BY <2>1, <2>2, SumIsCount, BelowFinite
<1> QED BY <1>1, <1>2, BelowFinite

(* Adding up the sizes of classes: how many elements are in one of them.      *)
MappedTo(f, S) == {i \in DOMAIN f : f[i] \in S}

ClassSizes(f, B) == [b \in B |-> Cardinality(MappedTo(f, {b}))]

LEMMA SumOfClasses ==
  ASSUME NEW I, IsFiniteSet(I), NEW B, NEW f, f \in [I -> B],
         NEW S, S \subseteq B, IsFiniteSet(S)
  PROVE  SumFunctionOnSet(ClassSizes(f, B), S) = Cardinality(MappedTo(f, S))
<1> DEFINE c == ClassSizes(f, B)
<1>0. c \in [B -> Nat] /\ \A b \in B : c[b] = Cardinality(MappedTo(f, {b}))
  <2>1. \A b \in B : MappedTo(f, {b}) \subseteq I
    BY DEF MappedTo
  <2> QED BY <2>1, FS_Subset, FS_CardinalityType DEF ClassSizes
<1> HIDE DEF c
<1> DEFINE In(s) == MappedTo(f, s)
           P == {s \in SUBSET S : SumFunctionOnSet(c, s) = Cardinality(In(s))}
<1>1. ASSUME NEW s \in SUBSET S, \A x \in s : s \ {x} \in P
      PROVE  s \in P
  <2>1. CASE s = {}
    <3>1. In(s) = {}
      BY <2>1 DEF MappedTo
    <3> QED BY <1>0, <2>1, <3>1, SumOfNone, FS_EmptySet
  <2>2. CASE s # {}
    <3>1. PICK x \in s : s \ {x} \in P
      BY <1>1, <2>2
    <3>2. In(s) = In(s \ {x}) \cup In({x}) /\ In(s \ {x}) \cap In({x}) = {}
      BY DEF MappedTo
    <3>3. IsFiniteSet(In(s \ {x})) /\ IsFiniteSet(In({x}))
      <4>1. In(s \ {x}) \subseteq I /\ In({x}) \subseteq I
        BY DEF MappedTo
      <4> QED BY <4>1, FS_Subset
    <3>4. Cardinality(In({x})) = c[x]
      BY <1>0
    <3>5. IsFiniteSet(s) /\ s \in SUBSET B
      BY FS_Subset
    <3>6. SumFunctionOnSet(c, s) = c[x] + SumFunctionOnSet(c, s \ {x})
      BY <1>0, <3>5, SumRemove
    <3>7. Cardinality(In(s \ {x})) \in Nat /\ c[x] \in Nat
      BY <1>0, <3>3, FS_CardinalityType
    <3>8. SumFunctionOnSet(c, s \ {x}) = Cardinality(In(s \ {x}))
      BY <3>1
    <3>9. Cardinality(In(s)) = Cardinality(In(s \ {x})) + Cardinality(In({x}))
      <4> HIDE DEF In
      <4> QED BY <3>2, <3>3, DisjointUnion
    <3> QED BY <3>4, <3>6, <3>7, <3>8, <3>9
  <2> QED BY <2>1, <2>2
<1>2. S \in P
  <2> HIDE DEF P
  <2> QED BY <1>1, FiniteInduction
<1> QED BY <1>2 DEF c

LEMMA SumOfAll ==
  ASSUME NEW D, NEW c, c \in [D -> Nat], IsFiniteSet(D), NEW x, x \in D
  PROVE  SumFunctionOnSet(c, D) = c[x] + SumFunctionOnSet(c, D \ {x})
BY SumRemove

(* The sum over a sequence without its first element.                         *)
LEMMA SumOfTail ==
  ASSUME NEW n \in Nat, NEW f \in [1 .. n + 1 -> Nat], NEW g \in [1 .. n -> Nat],
         \A i \in 1 .. n : g[i] = f[i + 1]
  PROVE  /\ SumFunctionOnSet(g, 1 .. n) \in Nat
         /\ SumFunctionOnSet(f, 1 .. n + 1) = f[1] + SumFunctionOnSet(g, 1 .. n)
<1> DEFINE T == (1 .. n + 1) \ {1}
           b == [p \in Below(g, 1 .. n) |-> <<p[1] + 1, p[2]>>]
<1>1. IsFiniteSet(1 .. n) /\ IsFiniteSet(1 .. n + 1) /\ IsFiniteSet(T)
  <2>1. IsFiniteSet(1 .. n) /\ IsFiniteSet(1 .. n + 1)
    BY FS_Interval
  <2> QED BY <2>1, FS_RemoveElement
<1>2. SumFunctionOnSet(f, 1 .. n + 1) = f[1] + SumFunctionOnSet(f, T)
  <2> DEFINE D == 1 .. n + 1
  <2>1. 1 \in D /\ f \in [D -> Nat] /\ IsFiniteSet(D) /\ D \in SUBSET D
    BY <1>1
  <2> HIDE DEF D
  <2>2. \A x \in D : SumFunctionOnSet(f, D) = f[x] + SumFunctionOnSet(f, D \ {x})
    BY <2>1, SumOfAll, Zenon
  <2> QED BY <2>1, <2>2 DEF D
<1>3. \A p \in Below(g, 1 .. n) : /\ p = <<p[1], p[2]>> /\ p[1] \in 1 .. n
                                  /\ p[2] \in Nat /\ p[2] < g[p[1]]
  BY DEF Below
<1>4. Cardinality(Below(g, 1 .. n)) = Cardinality(Below(f, T))
  <2>1. b \in [Below(g, 1 .. n) -> Below(f, T)]
    <3> SUFFICES ASSUME NEW p \in Below(g, 1 .. n)
                 PROVE  <<p[1] + 1, p[2]>> \in Below(f, T)
      OBVIOUS
    <3> QED BY <1>3 DEF Below
  <2>2. \A p, q \in Below(g, 1 .. n) : b[p] = b[q] => p = q
    <3> TAKE p, q \in Below(g, 1 .. n)
    <3> HAVE b[p] = b[q]
    <3>1. p[1] + 1 = q[1] + 1 /\ p[2] = q[2]
      OBVIOUS
    <3> QED BY <3>1, <1>3
  <2>3. \A q \in Below(f, T) : \E p \in Below(g, 1 .. n) : b[p] = q
    <3> TAKE q \in Below(f, T)
    <3>1. q = <<q[1], q[2]>> /\ q[1] \in T /\ q[2] \in Nat /\ q[2] < f[q[1]]
      BY DEF Below
    <3>2. q[1] - 1 \in 1 .. n /\ g[q[1] - 1] = f[q[1]]
      BY <3>1
    <3>3. <<q[1] - 1, q[2]>> \in Below(g, 1 .. n)
      BY <3>1, <3>2 DEF Below
    <3>4. b[<<q[1] - 1, q[2]>>] = q
      BY <3>1, <3>2, <3>3
    <3> QED BY <3>3, <3>4
  <2>4. IsFiniteSet(Below(g, 1 .. n))
    BY <1>1, BelowFinite
  <2> DEFINE U == Below(g, 1 .. n)
             V == Below(f, T)
  <2>5. /\ IsFiniteSet(U) /\ b \in [U -> V]
        /\ \A p, q \in U : b[p] = b[q] => p = q
        /\ \A q \in V : \E p \in U : b[p] = q
    BY <2>1, <2>2, <2>3, <2>4
  <2> HIDE DEF b, U, V
  <2>6. Cardinality(V) = Cardinality(U)
    BY <2>5, SameCardinality
  <2> QED BY <2>6 DEF U, V
<1>5. SumFunctionOnSet(g, 1 .. n) = Cardinality(Below(g, 1 .. n))
  BY <1>1, SumIsCount
<1>6. SumFunctionOnSet(f, T) = Cardinality(Below(f, T))
  BY <1>1, SumIsCount
<1>7. SumFunctionOnSet(g, 1 .. n) \in Nat
  BY <1>1, SumRemove
<1> QED BY <1>2, <1>4, <1>5, <1>6, <1>7

(* A finite set of numbers has a least and a greatest element.                *)
LEMMA LeastAndGreatest ==
  ASSUME NEW S \in SUBSET Int, IsFiniteSet(S), S # {}
  PROVE  /\ Min(S) \in S /\ \A y \in S : Min(S) <= y
         /\ Max(S) \in S /\ \A y \in S : Max(S) >= y
<1> DEFINE P == {s \in SUBSET S : s # {} =>
                   /\ \E x \in s : \A y \in s : x <= y
                   /\ \E x \in s : \A y \in s : x >= y}
<1>1. ASSUME NEW s \in SUBSET S, \A x \in s : s \ {x} \in P
      PROVE  s \in P
  <2>1. SUFFICES ASSUME NEW e \in s
                 PROVE  /\ \E x \in s : \A y \in s : x <= y
                        /\ \E x \in s : \A y \in s : x >= y
    OBVIOUS
  <2>2. CASE s = {e}
    BY <2>2
  <2>3. CASE s # {e}
    <3>1. PICK u \in s \ {e}, v \in s \ {e} :
            \A y \in s \ {e} : u <= y /\ y <= v
      BY <1>1, <2>1, <2>3
    <3>2. \E x \in s : \A y \in s : x <= y
      <4>1. CASE u <= e BY <3>1, <4>1
      <4>2. CASE e <= u BY <3>1, <4>2
      <4> QED BY <4>1, <4>2
    <3>3. \E x \in s : \A y \in s : x >= y
      <4>1. CASE v <= e BY <3>1, <4>1
      <4>2. CASE e <= v BY <3>1, <4>2
      <4> QED BY <4>1, <4>2
    <3> QED BY <3>2, <3>3
  <2> QED BY <2>2, <2>3
<1>2. S \in P
  <2> HIDE DEF P
  <2> QED BY <1>1, FiniteInduction
<1>3. /\ \E x \in S : \A y \in S : x <= y
      /\ \E x \in S : \A y \in S : x >= y
  BY <1>2
<1> QED BY <1>3 DEF Min, Max

-----------------------------------------------------------------------------
(* The values of a range of positions.                                        *)
InRange(vs, r) == {vs[r.vec][p] : p \in r.begin + 1 .. r.end}

RangeOK(vs, r) == /\ r \in CandidateValuesRange
                  /\ r.begin <= r.end /\ r.end <= Len(vs[r.vec])

(* The bucket of each hash has the elements of the map with that hash, except *)
(* the pending ones.                                                          *)
Exact(m, pending) ==
  /\ lookupTable[m] \in [Buckets -> CandidateValuesRange]
  /\ \A h \in Buckets :
       /\ RangeOK(values, lookupTable[m][h])
       /\ InRange(values, lookupTable[m][h])
            = {e \in contents[m] \ pending : Hash(e.key) = h}

DistinctKeys(S) == \A e, f \in S : e.key = f.key => e = f
KeysOnce(s) == \A i, j \in DOMAIN s : s[i].key = s[j].key => i = j

(* The elements that are still to be put into the bucket of h.                *)
Remaining(h) == {e \in ToSet(elements) : Hash(e.key) = h}

(* There is room for them between the buckets below and what h has already.   *)
Room(h) ==
  /\ Cardinality(Remaining(h)) <= lookupTable["old"][h].begin
  /\ \A g \in Buckets : g < h =>
       lookupTable["old"][g].end
         <= lookupTable["old"][h].begin - Cardinality(Remaining(h))

(* The hashes of the elements that are still to be inserted.                  *)
Hashes(s) == {Hash(e.key) : e \in ToSet(s)}

MapTypes ==
  /\ mapStatus \in {"none", "choosing", "filling", "built", "inserting",
                    "extended"}
  /\ hashFunction \in [a : Unsigned, numBits : 0 .. WordBits]
  /\ mapStatus # "none" => hashFunction.numBits \in 1 .. WordBits
  /\ elements \in Seq(Element)
  /\ values \in [Map -> Seq(Element \cup {NoElement})]
  /\ lookupTable = [m \in Map |-> lookupTable[m]]
  /\ capacity \in Nat
  /\ contents \in [Map -> SUBSET Element]
  /\ \A m \in Map : DistinctKeys(contents[m])

ChoosingInv ==
  mapStatus = "choosing" =>
    /\ count = [h \in Buckets |-> 0]
    /\ KeysOnce(elements)
    /\ contents["old"] = ToSet(elements)

FillingInv ==
  mapStatus = "filling" =>
    /\ KeysOnce(elements)
    /\ ToSet(elements) \subseteq contents["old"]
    /\ Exact("old", ToSet(elements))
    /\ \A h \in Buckets : lookupTable["old"][h].vec = "old" /\ Room(h)

OldInv ==
  mapStatus \in {"built", "inserting", "extended"} =>
    /\ Exact("old", {})
    /\ \A h \in Buckets : lookupTable["old"][h].vec = "old"

NewInv ==
  /\ mapStatus \notin {"inserting", "extended"} =>
       values["new"] = <<>> /\ capacity = 0
  /\ mapStatus = "inserting" =>
       /\ SortedByHash(elements)
       /\ ToSet(elements) \subseteq contents["new"]
       /\ Exact("new", ToSet(elements))
       /\ \A h \in Hashes(elements) :
            lookupTable["new"][h] = lookupTable["old"][h]
       /\ capacity = Len(values["new"]) + Len(elements)
                       + SumFunctionOnSet(RangeSizes, Hashes(elements))
  /\ mapStatus = "extended" =>
       Exact("new", {}) /\ Len(values["new"]) = capacity

(* The inductive invariant of the map.                                        *)
MapInv == MapTypes /\ ChoosingInv /\ FillingInv /\ OldInv /\ NewInv

-----------------------------------------------------------------------------
(* The hash function: every key has a bucket.                                 *)
LEMMA DivBound ==
  ASSUME NEW x \in Nat, NEW p \in Nat, NEW q \in Nat \ {0}, x < p * q
  PROVE  x \div q \in 0 .. p - 1
<1> DEFINE d == x \div q
<1>1. d \in Int /\ q * d <= x /\ x < q * d + q /\ d >= 0
  BY Z3
<1>2. d < p
  <2>1. SUFFICES ASSUME d >= p PROVE FALSE
    BY <1>1
  <2> HIDE DEF d
  <2>2. q * d >= q * p
    BY <1>1, <2>1, Z3
  <2> QED BY <1>1, <2>2, Z3
<1> QED BY <1>1, <1>2

LEMMA HashIsBucket ==
  ASSUME NEW a \in Unsigned, NEW n \in 1 .. WordBits, NEW k \in Key
  PROVE  HashWith(a, n, k) \in 0 .. 2 ^ n - 1
<1> DEFINE W == 2 ^ WordBits
           p == 2 ^ n
           q == 2 ^ (WordBits - n)
<1>1. WordBits \in Nat /\ n \in 0 .. WordBits /\ WordBits - n \in 0 .. WordBits
      /\ WordBits \in 0 .. WordBits
  BY HashAssumption
<1>2. p \in Nat /\ q \in Nat \ {0} /\ W \in Nat \ {0} /\ p * q = W
  BY <1>1, PowersAssumption
<1>3. a \in Nat /\ HashOf[k] \in Nat
  BY <1>2, HashAssumption DEF Unsigned
<1>4. HashWith(a, n, k) = ((a * HashOf[k]) % W) \div q
  BY DEF HashWith
<1> HIDE DEF W, p, q
<1>5. a * HashOf[k] \in Nat
  BY <1>3
<1>6. (a * HashOf[k]) % W \in Nat /\ (a * HashOf[k]) % W < W
  BY <1>2, <1>5
<1>7. ((a * HashOf[k]) % W) \div q \in 0 .. p - 1
  BY <1>2, <1>6, DivBound
<1> QED BY <1>4, <1>7 DEF p

LEMMA BucketOfKey ==
  ASSUME MapTypes, mapStatus # "none", NEW k \in Key
  PROVE  Hash(k) \in Buckets
BY HashIsBucket DEF MapTypes, Hash, Buckets

LEMMA BucketsAreNat ==
  ASSUME MapTypes
  PROVE  IsFiniteSet(Buckets) /\ Buckets \subseteq Nat
<1>1. 2 ^ hashFunction.numBits \in Nat
  BY PowersAssumption DEF MapTypes
<1>2. 0 \in Int /\ 2 ^ hashFunction.numBits - 1 \in Int
  BY <1>1
<1>3. IsFiniteSet(Buckets)
  BY <1>2, FS_Interval DEF Buckets
<1> QED BY <1>1, <1>3 DEF Buckets

LEMMA SameHash ==
  ASSUME hashFunction' = hashFunction
  PROVE  Buckets' = Buckets /\ \A k : Hash(k)' = Hash(k)
BY DEF Buckets, Hash

LEMMA ImageIsFinite ==
  ASSUME NEW I, IsFiniteSet(I), NEW f, DOMAIN f = I
  PROVE  IsFiniteSet({f[i] : i \in I})
<1> DEFINE R == {f[i] : i \in I}
           g == [i \in I |-> f[i]]
<1>1. g \in [I -> R] /\ \A y \in R : \E i \in I : g[i] = y
  OBVIOUS
<1> HIDE DEF R, g
<1>2. g \in Surjection(I, R)
  BY <1>1 DEF Surjection
<1>3. IsFiniteSet(R)
  BY <1>2, FS_Surjection
<1> QED BY <1>3 DEF R

LEMMA ElementsOfSeq ==
  ASSUME NEW S, NEW s \in Seq(S)
  PROVE  /\ ToSet(s) \subseteq S /\ IsFiniteSet(ToSet(s)) /\ Len(s) \in Nat
         /\ DOMAIN s = 1 .. Len(s) /\ \A i \in DOMAIN s : s[i] \in S
<1>1. Len(s) \in Nat /\ DOMAIN s = 1 .. Len(s) /\ \A i \in 1 .. Len(s) : s[i] \in S
  BY ElementOfSeq, LenProperties
<1>2. IsFiniteSet(1 .. Len(s))
  BY <1>1, FS_Interval
<1>3. IsFiniteSet({s[i] : i \in 1 .. Len(s)})
  BY <1>1, <1>2, ImageIsFinite
<1> QED BY <1>1, <1>3 DEF ToSet

(* The sequences that enumerate a finite set.                                 *)
LEMMA EnumerationOfSet ==
  ASSUME NEW S, IsFiniteSet(S), NEW s \in SetToSeqs(S)
  PROVE  /\ s \in Seq(S) /\ ToSet(s) = S
         /\ Len(s) = Cardinality(S) /\ Cardinality(S) \in Nat
         /\ DOMAIN s = 1 .. Cardinality(S)
         /\ \A i, j \in DOMAIN s : s[i] = s[j] => i = j
<1> DEFINE n == Cardinality(S)
<1>1. n \in Nat
  BY FS_CardinalityType
<1>2. s \in [1 .. n -> S] /\ \A i, j \in 1 .. n : i # j => s[i] # s[j]
  BY DEF SetToSeqs
<1> HIDE DEF n
<1>3. s \in Seq(S) /\ Len(s) = n /\ DOMAIN s = 1 .. n
  BY <1>1, <1>2
<1>4. IsFiniteSet(1 .. n) /\ Cardinality(1 .. n) = n
  BY <1>1, IntervalSize
<1>5. s \in Injection(1 .. n, S)
  BY <1>2 DEF Injection, IsInjective
<1>6. s \in Surjection(1 .. n, S)
  BY <1>4, <1>5, FS_Injection DEF n
<1>7. ToSet(s) = S
  BY <1>2, <1>3, <1>6 DEF Surjection, ToSet
<1> QED BY <1>1, <1>2, <1>3, <1>7 DEF n

LEMMA PartOfSeq ==
  ASSUME NEW S, NEW s \in Seq(S), NEW a \in Nat, NEW b \in Nat,
         a <= b, b <= Len(s)
  PROVE  LET q == SubSeq(s, a + 1, b)
         IN /\ q \in Seq(S) /\ Len(q) = b - a /\ DOMAIN q = 1 .. b - a
            /\ \A i \in 1 .. b - a : q[i] = s[i + a]
<1> DEFINE q == SubSeq(s, a + 1, b)
<1>1. q = [i \in 1 .. b - a |-> s[i + a]]
  OBVIOUS
<1>2. b - a \in Nat /\ \A i \in 1 .. b - a : s[i + a] \in S
  BY LenProperties, ElementOfSeq
<1> HIDE DEF q
<1>3. q \in Seq(S) /\ Len(q) = b - a /\ DOMAIN q = 1 .. b - a
  BY <1>1, <1>2
<1> QED BY <1>1, <1>3 DEF q

LEMMA RestOfSeq ==
  ASSUME NEW S, NEW s \in Seq(S), NEW a \in 1 .. Len(s)
  PROVE  LET q == SubSeq(s, a + 1, Len(s))
         IN /\ q \in Seq(S) /\ Len(q) = Len(s) - a /\ DOMAIN q = 1 .. Len(s) - a
            /\ \A i \in 1 .. Len(s) - a : q[i] = s[i + a]
<1>1. a \in Nat /\ Len(s) \in Nat /\ a <= Len(s) /\ Len(s) <= Len(s)
  BY LenProperties
<1> QED BY <1>1, PartOfSeq

LEMMA Concatenation ==
  ASSUME NEW S, NEW s \in Seq(S), NEW t \in Seq(S)
  PROVE  /\ s \o t \in Seq(S) /\ Len(s \o t) = Len(s) + Len(t)
         /\ Len(s) \in Nat /\ Len(t) \in Nat
         /\ DOMAIN (s \o t) = 1 .. Len(s) + Len(t)
         /\ \A i \in 1 .. Len(s) : (s \o t)[i] = s[i]
         /\ \A i \in 1 .. Len(t) : (s \o t)[i + Len(s)] = t[i]
BY LenProperties

(* A sequence in which no element is twice has as many elements as their set. *)
LEMMA CountOfSeq ==
  ASSUME NEW S, NEW s \in Seq(S), \A i, j \in DOMAIN s : s[i] = s[j] => i = j,
         NEW T \in SUBSET ToSet(s)
  PROVE  Cardinality({i \in DOMAIN s : s[i] \in T}) = Cardinality(T)
<1> DEFINE D == {i \in DOMAIN s : s[i] \in T}
           f == [i \in D |-> s[i]]
<1>1. IsFiniteSet(D)
  BY ElementsOfSeq, FS_Interval, FS_Subset
<1>2. f \in [D -> T] /\ \A i, j \in D : f[i] = f[j] => i = j
  OBVIOUS
<1>3. \A t \in T : \E i \in D : f[i] = t
  BY DEF ToSet
<1> HIDE DEF D, f
<1>4. Cardinality(D) = Cardinality(T)
  BY <1>1, <1>2, <1>3, SameCardinality
<1> QED BY <1>4 DEF D

(* What a lookup finds in a map without pending elements.                     *)
LEMMA FindExactly ==
  ASSUME MapTypes, mapStatus # "none", NEW m \in Map, Exact(m, {}),
         NEW k \in Key
  PROVE  /\ \A e \in contents[m] : e.key = k => Find(m, k) = e.value
         /\ (\A e \in contents[m] : e.key # k) => Find(m, k) = None
<1> DEFINE h == Hash(k)
           r == lookupTable[m][h]
           v == values[r.vec]
           bucket == RangeContents(r)
           matches == {i \in DOMAIN bucket : bucket[i].key = k}
<1>1. h \in Buckets
  BY BucketOfKey
<1>2. /\ RangeOK(values, r)
      /\ InRange(values, r) = {e \in contents[m] : Hash(e.key) = h}
  BY <1>1 DEF Exact
<1>3. v \in Seq(Element \cup {NoElement}) /\ Len(v) \in Nat
  BY <1>2 DEF RangeOK, CandidateValuesRange, MapTypes
<1>4. r.begin \in Nat /\ r.end \in Nat /\ r.begin <= r.end /\ r.end <= Len(v)
  BY <1>2 DEF RangeOK, CandidateValuesRange
<1> HIDE DEF r, v, h
<1>5. /\ DOMAIN bucket = 1 .. r.end - r.begin
      /\ \A i \in DOMAIN bucket : bucket[i] = v[r.begin + i]
  <2>1. bucket = SubSeq(v, r.begin + 1, r.end)
    BY DEF RangeContents, v
  <2>2. /\ DOMAIN SubSeq(v, r.begin + 1, r.end) = 1 .. r.end - r.begin
        /\ \A i \in 1 .. r.end - r.begin :
              SubSeq(v, r.begin + 1, r.end)[i] = v[i + r.begin]
    BY ONLY <1>3, <1>4, PartOfSeq
  <2> QED BY <2>1, <2>2, <1>4
<1> HIDE DEF bucket
<1>6. InRange(values, r) = {bucket[i] : i \in DOMAIN bucket}
  <2>1. ASSUME NEW p \in r.begin + 1 .. r.end
        PROVE  p - r.begin \in DOMAIN bucket /\ bucket[p - r.begin] = v[p]
    BY <1>4, <1>5
  <2>2. ASSUME NEW i \in DOMAIN bucket
        PROVE  r.begin + i \in r.begin + 1 .. r.end /\ bucket[i] = v[r.begin + i]
    BY <1>4, <1>5
  <2> QED BY <2>1, <2>2 DEF InRange, v
<1>7. Find(m, k) = IF matches = {} THEN None ELSE bucket[Min(matches)].value
  BY DEF Find, bucket, r, h
<1>8. CASE \E e \in contents[m] : e.key = k
  <2>1. PICK e \in contents[m] : e.key = k
    BY <1>8
  <2>2. \A f \in contents[m] : f.key = k => f = e
    BY <2>1 DEF MapTypes, DistinctKeys
  <2>3. e \in InRange(values, r)
    BY <1>2, <2>1 DEF h
  <2>4. matches # {}
    BY <1>6, <2>1, <2>3
  <2>5. Min(matches) \in matches
    <3>1. IsFiniteSet(matches) /\ matches \in SUBSET Int
      <4> DEFINE n == r.end - r.begin
      <4>1. n \in Nat
        BY <1>4
      <4>2. DOMAIN bucket = 1 .. n
        BY <1>5
      <4> HIDE DEF n
      <4>3. IsFiniteSet(DOMAIN bucket)
        BY <4>1, <4>2, FS_Interval
      <4>4. matches \subseteq DOMAIN bucket
        OBVIOUS
      <4>5. matches \subseteq Int
        BY <4>2, <4>4
      <4> HIDE DEF matches
      <4> QED BY <4>3, <4>4, <4>5, FS_Subset
    <3> HIDE DEF matches
    <3> QED BY <2>4, <3>1, LeastAndGreatest
  <2>6. bucket[Min(matches)] \in contents[m] /\ bucket[Min(matches)].key = k
    BY <1>2, <1>6, <2>5
  <2> HIDE DEF matches
  <2> QED BY <1>7, <2>1, <2>2, <2>4, <2>6
<1>9. CASE \A e \in contents[m] : e.key # k
  <2>1. matches = {}
    BY <1>2, <1>6, <1>9
  <2> QED BY <1>7, <1>9, <2>1
<1> QED BY <1>8, <1>9

-----------------------------------------------------------------------------
(* Each step keeps the invariant of the map.                                  *)
LEMMA StartMapStep ==
  ASSUME MapInv, NEW elems \in Seq(Element), KeysOnce(elems),
         PickNumBits(Len(elems)) \in 1 .. WordBits, StartMap(elems)
  PROVE  MapInv'
<1> USE DEF StartMap
<1>1. 0 \in Unsigned
  <2>1. WordBits \in 0 .. WordBits
    BY HashAssumption
  <2>2. 2 ^ WordBits \in Nat \ {0}
    BY <2>1, PowersAssumption
  <2> QED BY <2>2 DEF Unsigned
<1>2. ToSet(elems) \subseteq Element /\ DistinctKeys(ToSet(elems))
  BY ElementsOfSeq DEF DistinctKeys, KeysOnce, ToSet
<1>3. MapTypes'
  <2>1. hashFunction' \in [a : Unsigned, numBits : 0 .. WordBits]
        /\ hashFunction'.numBits \in 1 .. WordBits
    BY <1>1
  <2>2. contents' \in [Map -> SUBSET Element]
    BY <1>2 DEF MapInv, MapTypes, Map
  <2>3. \A m \in Map : DistinctKeys(contents'[m])
    BY <1>2 DEF MapInv, MapTypes, Map
  <2> QED BY <2>1, <2>2, <2>3 DEF MapInv, MapTypes, DistinctKeys
<1>4. ChoosingInv'
  <2>1. Buckets' = 0 .. 2 ^ PickNumBits(Len(elems)) - 1
    BY DEF Buckets
  <2>2. contents'["old"] = ToSet(elems)
    BY DEF MapInv, MapTypes, Map
  <2> QED BY <2>1, <2>2 DEF ChoosingInv, KeysOnce
<1>5. FillingInv' /\ OldInv' /\ NewInv'
  BY DEF FillingInv, OldInv, NewInv, MapInv
<1> QED BY <1>3, <1>4, <1>5 DEF MapInv

LEMMA PickAnotherStep ==
  ASSUME MapInv, PickAnother
  PROVE  MapInv'
<1> USE DEF PickAnother
<1>1. PICK a \in Unsigned : hashFunction' = [hashFunction EXCEPT !.a = a]
  OBVIOUS
<1>2. /\ hashFunction' \in [a : Unsigned, numBits : 0 .. WordBits]
      /\ hashFunction'.numBits = hashFunction.numBits
  BY <1>1 DEF MapInv, MapTypes
<1>3. Buckets' = Buckets
  BY <1>2 DEF Buckets
<1>4. MapTypes'
  BY <1>2 DEF MapInv, MapTypes, DistinctKeys
<1>5. ChoosingInv'
  BY <1>3 DEF MapInv, ChoosingInv, KeysOnce
<1>6. FillingInv' /\ OldInv' /\ NewInv'
  BY DEF FillingInv, OldInv, NewInv, MapInv
<1> QED BY <1>4, <1>5, <1>6 DEF MapInv

(* The hash function that is picked leaves room for each bucket.              *)
LEMMA PickHashFunctionStep ==
  ASSUME MapInv, PickHashFunction
  PROVE  MapInv'
<1>1. PICK a \in Unsigned : /\ hashFunction' = [hashFunction EXCEPT !.a = a]
                            /\ count' = CountWith(a)
  BY DEF PickHashFunction
<1>2. /\ mapStatus = "choosing" /\ mapStatus' = "filling"
      /\ values' = [values EXCEPT !["old"] = [i \in DOMAIN elements |-> NoElement]]
      /\ lookupTable' = [lookupTable EXCEPT !["old"] =
           [h \in Buckets |-> [vec |-> "old", begin |-> PartialSum(count', h),
                               end |-> PartialSum(count', h)]]]
      /\ elements' = elements /\ capacity' = capacity /\ contents' = contents
  BY DEF PickHashFunction
<1>3. /\ hashFunction' \in [a : Unsigned, numBits : 0 .. WordBits]
      /\ hashFunction'.numBits = hashFunction.numBits
      /\ hashFunction'.numBits \in 1 .. WordBits
  BY <1>1, <1>2 DEF MapInv, MapTypes
<1>4. Buckets' = Buckets
  BY <1>3 DEF Buckets
<1>5. /\ count = [h \in Buckets |-> 0] /\ KeysOnce(elements)
      /\ contents["old"] = ToSet(elements)
  BY <1>2 DEF MapInv, ChoosingInv
<1>6. elements \in Seq(Element)
  BY DEF MapInv, MapTypes
<1>7. MapTypes'
  <2>1. values' \in [Map -> Seq(Element \cup {NoElement})]
    <3>1. [i \in DOMAIN elements |-> NoElement] \in Seq(Element \cup {NoElement})
      <4>1. DOMAIN elements = 1 .. Len(elements) /\ Len(elements) \in Nat
        BY <1>6, ElementsOfSeq
      <4> QED BY <4>1
    <3> QED BY <1>2, <3>1 DEF MapInv, MapTypes
  <2>2. lookupTable' = [m \in Map |-> lookupTable'[m]]
    BY <1>2 DEF MapInv, MapTypes
  <2> QED BY <1>2, <1>3, <2>1, <2>2 DEF MapInv, MapTypes, DistinctKeys
<1> DEFINE T == ToSet(elements)
           f == [e \in T |-> Hash(e.key)']
<1>8. IsFiniteSet(T) /\ T \subseteq Element /\ Cardinality(T) = Len(elements)
  <2>1. \A i, j \in DOMAIN elements : elements[i] = elements[j] => i = j
    BY <1>5 DEF KeysOnce
  <2>2. Cardinality({i \in DOMAIN elements : elements[i] \in T}) = Cardinality(T)
    BY <1>6, <2>1, CountOfSeq
  <2>3. {i \in DOMAIN elements : elements[i] \in T} = 1 .. Len(elements)
    BY <1>6, ElementsOfSeq DEF ToSet
  <2>4. Cardinality(1 .. Len(elements)) = Len(elements)
    <3>1. Len(elements) \in Nat
      BY <1>6, ElementsOfSeq
    <3> QED BY <3>1, IntervalSize
  <2> QED BY <1>6, <2>2, <2>3, <2>4, ElementsOfSeq
<1>9. f \in [T -> Buckets]
  <2>1. \A e \in T : e.key \in Key
    BY <1>8 DEF Element
  <2>2. hashFunction'.a \in Unsigned
    BY <1>3
  <2>3. \A k \in Key : Hash(k)' \in Buckets'
    BY <1>3, <2>2, HashIsBucket DEF Hash, Buckets
  <2> QED BY <1>4, <2>1, <2>3
<1>10. \A h \in Buckets :
         count'[h] = Cardinality({e \in T : f[e] = h}) /\ count'[h] \in Nat
  <2> TAKE h \in Buckets
  <2> DEFINE U == {e \in T : f[e] = h}
             D == {i \in DOMAIN elements :
                     HashWith(a, hashFunction.numBits, elements[i].key) = h}
  <2>1. \A i, j \in DOMAIN elements : elements[i] = elements[j] => i = j
    BY <1>5 DEF KeysOnce
  <2>2. Cardinality({i \in DOMAIN elements : elements[i] \in U}) = Cardinality(U)
    <3>1. U \in SUBSET ToSet(elements) /\ elements \in Seq(Element)
      BY <1>6
    <3> HIDE DEF U
    <3> QED BY ONLY <2>1, <3>1, CountOfSeq
  <2>3. {i \in DOMAIN elements : elements[i] \in U} = D
    <3>1. \A i \in DOMAIN elements : elements[i] \in T
      BY DEF ToSet
    <3>2. hashFunction'.a = a
      BY <1>1 DEF MapInv, MapTypes
    <3>3. \A k : Hash(k)' = HashWith(a, hashFunction.numBits, k)
      BY <1>3, <3>2 DEF Hash, HashWith
    <3> QED BY <3>1, <3>3
  <2>4. count'[h] = 0 + Cardinality(D)
    BY <1>1, <1>5 DEF CountWith
  <2>5. Cardinality(U) \in Nat
    <3>1. U \subseteq T
      OBVIOUS
    <3> HIDE DEF U, T
    <3> QED BY <1>8, <3>1, FS_Subset, FS_CardinalityType
  <2>6. count'[h] = Cardinality(U) /\ count'[h] \in Nat
    <3> HIDE DEF U, D
    <3> QED BY <2>2, <2>3, <2>4, <2>5
  <2> QED BY <2>6
<1>11. count' \in [Buckets -> Nat]
  BY <1>1, <1>10 DEF CountWith
<1> DEFINE UpTo(h) == {e \in T : f[e] <= h}
<1>12. \A h \in Buckets : PartialSum(count', h) = Cardinality(UpTo(h))
  <2> TAKE h \in Buckets
  <2> DEFINE S == {g \in Buckets : g <= h}
  <2>1. IsFiniteSet(S) /\ S \in SUBSET Buckets
    BY BucketsAreNat, FS_Subset DEF MapInv
  <2>2. UpTo(h) = MappedTo(f, S)
    BY <1>9 DEF MappedTo
  <2>3. PartialSum(count', h) = SumFunctionOnSet(count', S)
    BY DEF PartialSum
  <2>4. count' = ClassSizes(f, Buckets)
    <3>1. \A g \in Buckets : MappedTo(f, {g}) = {e \in T : f[e] = g}
      BY DEF MappedTo
    <3> HIDE DEF T, f
    <3> QED BY <1>10, <1>11, <3>1 DEF ClassSizes
  <2> HIDE DEF S, f, T
  <2>5. SumFunctionOnSet(ClassSizes(f, Buckets), S) = Cardinality(MappedTo(f, S))
    BY <1>8, <1>9, <2>1, SumOfClasses
  <2> QED BY <2>2, <2>3, <2>4, <2>5
<1>13. \A h \in Buckets : /\ IsFiniteSet(UpTo(h)) /\ Cardinality(UpTo(h)) \in Nat
                          /\ Cardinality(UpTo(h)) <= Len(elements)
  BY <1>8, FS_Subset, FS_CardinalityType
<1>14. /\ lookupTable'["old"] \in [Buckets -> CandidateValuesRange]
       /\ \A h \in Buckets : lookupTable'["old"][h] = [vec |-> "old",
            begin |-> Cardinality(UpTo(h)), end |-> Cardinality(UpTo(h))]
  <2>1. lookupTable'["old"] =
          [h \in Buckets |-> [vec |-> "old", begin |-> PartialSum(count', h),
                              end |-> PartialSum(count', h)]]
    BY <1>2 DEF MapInv, MapTypes, Map
  <2> HIDE DEF UpTo
  <2> QED BY <2>1, <1>12, <1>13 DEF CandidateValuesRange, Map
<1>15. Exact("old", ToSet(elements))'
  <2>1. Len(values'["old"]) = Len(elements)
    <3>1. values'["old"] = [i \in DOMAIN elements |-> NoElement]
      BY <1>2 DEF MapInv, MapTypes, Map
    <3> QED BY <1>6, <3>1, ElementsOfSeq
  <2>2. ASSUME NEW h \in Buckets
        PROVE  /\ RangeOK(values', lookupTable'["old"][h])
               /\ InRange(values', lookupTable'["old"][h]) = {}
    <3> DEFINE n == Cardinality(UpTo(h))
    <3>1. n \in Nat /\ n <= Len(elements)
      BY <1>13
    <3>2. lookupTable'["old"][h] = [vec |-> "old", begin |-> n, end |-> n]
      BY <1>14
    <3>3. lookupTable'["old"][h] \in CandidateValuesRange
      BY <1>14
    <3> HIDE DEF n
    <3> QED BY <3>1, <3>2, <3>3, <2>1 DEF RangeOK, InRange
  <2>3. contents'["old"] \ ToSet(elements') = {}
    BY <1>2, <1>5
  <2> QED BY <1>2, <1>4, <1>14, <2>2, <2>3 DEF Exact
<1>16. \A h \in Buckets : lookupTable'["old"][h].vec = "old" /\ Room(h)'
  <2> TAKE h \in Buckets
  <2> DEFINE R == {e \in T : f[e] = h}
  <2>1. Remaining(h)' = R
    BY <1>2 DEF Remaining
  <2>2. IsFiniteSet(R) /\ Cardinality(R) \in Nat
    BY <1>8, FS_Subset, FS_CardinalityType
  <2>3. Cardinality(R) <= Cardinality(UpTo(h))
    <3>1. R \subseteq UpTo(h)
      BY <1>9, BucketsAreNat DEF MapInv
    <3> QED BY <1>13, <3>1, FS_Subset
  <2>4. ASSUME NEW g \in Buckets, g < h
        PROVE  Cardinality(UpTo(g)) <= Cardinality(UpTo(h)) - Cardinality(R)
    <3>1. UpTo(g) \cap R = {} /\ UpTo(g) \cup R \subseteq UpTo(h)
      BY <1>9, <2>4, BucketsAreNat DEF MapInv
    <3> HIDE DEF UpTo, R
    <3>2. Cardinality(UpTo(g) \cup R) = Cardinality(UpTo(g)) + Cardinality(R)
      BY <1>13, <2>2, <3>1, DisjointUnion
    <3>3. Cardinality(UpTo(g) \cup R) <= Cardinality(UpTo(h))
      BY <1>13, <3>1, FS_Subset
    <3> QED BY <3>2, <3>3, <1>13, <2>2
  <2> DEFINE n(g) == Cardinality(UpTo(g))
  <2>5. \A g \in Buckets : /\ lookupTable'["old"][g].vec = "old"
                           /\ lookupTable'["old"][g].begin = n(g)
                           /\ lookupTable'["old"][g].end = n(g)
    <3> TAKE g \in Buckets
    <3>1. lookupTable'["old"][g] = [vec |-> "old", begin |-> n(g), end |-> n(g)]
      BY <1>14
    <3> HIDE DEF n
    <3> QED BY <3>1
  <2>6. /\ Cardinality(R) <= n(h)
        /\ \A g \in Buckets : g < h => n(g) <= n(h) - Cardinality(R)
    BY <2>3, <2>4
  <2> HIDE DEF n, R
  <2>7. Room(h)'
    BY <1>4, <2>1, <2>5, <2>6 DEF Room
  <2> QED BY <2>5, <2>7
<1>17. FillingInv'
  BY <1>2, <1>4, <1>5, <1>15, <1>16 DEF FillingInv, KeysOnce
<1>18. ChoosingInv' /\ OldInv' /\ NewInv'
  <2>1. values'["new"] = values["new"]
    BY <1>2 DEF MapInv, MapTypes, Map
  <2> QED BY <1>2, <2>1 DEF ChoosingInv, OldInv, NewInv, MapInv
<1> QED BY <1>7, <1>17, <1>18 DEF MapInv

(* A range keeps its values when others are appended.                         *)
LEMMA RangeKept ==
  ASSUME NEW vs, NEW ws, NEW r, RangeOK(vs, r),
         Len(vs[r.vec]) \in Nat, Len(ws[r.vec]) \in Nat,
         Len(vs[r.vec]) <= Len(ws[r.vec]),
         \A p \in 1 .. Len(vs[r.vec]) : ws[r.vec][p] = vs[r.vec][p]
  PROVE  RangeOK(ws, r) /\ InRange(ws, r) = InRange(vs, r)
<1>1. r.begin \in Nat /\ r.end \in Nat /\ r.end <= Len(vs[r.vec])
  BY DEF RangeOK, CandidateValuesRange
<1>2. \A p \in r.begin + 1 .. r.end : ws[r.vec][p] = vs[r.vec][p]
  BY <1>1
<1>3. InRange(ws, r) = InRange(vs, r)
  BY <1>2 DEF InRange
<1>4. r.end <= Len(ws[r.vec])
  BY <1>1
<1> QED BY <1>3, <1>4 DEF RangeOK

(* The old map, when nothing that it refers to is changed.                    *)
LEMMA OldIsKept ==
  ASSUME MapInv, mapStatus \in {"built", "inserting", "extended"},
         hashFunction' = hashFunction, values'["old"] = values["old"],
         lookupTable'["old"] = lookupTable["old"],
         contents'["old"] = contents["old"]
  PROVE  OldInv'
<1>1. /\ Exact("old", {})
      /\ \A h \in Buckets : lookupTable["old"][h].vec = "old"
  BY DEF MapInv, OldInv
<1>2. Buckets' = Buckets /\ \A k : Hash(k)' = Hash(k)
  BY SameHash
<1>3. \A h \in Buckets :
        /\ RangeOK(values', lookupTable["old"][h])
        /\ InRange(values', lookupTable["old"][h])
             = InRange(values, lookupTable["old"][h])
  BY <1>1 DEF RangeOK, InRange, Exact
<1>4. Exact("old", {})'
  BY <1>1, <1>2, <1>3 DEF Exact
<1> QED BY <1>1, <1>2, <1>4 DEF OldInv

LEMMA FinishEmptyMapStep ==
  ASSUME MapInv, FinishEmptyMap
  PROVE  MapInv'
<1> USE DEF FinishEmptyMap
<1>1. ToSet(elements) = {}
  BY DEF ToSet
<1>2. Buckets' = Buckets /\ \A k : Hash(k)' = Hash(k)
  BY SameHash
<1>3. MapTypes'
  BY DEF MapInv, MapTypes, DistinctKeys
<1>4. Exact("old", {}) /\ \A h \in Buckets : lookupTable["old"][h].vec = "old"
  BY <1>1 DEF MapInv, FillingInv
<1>5. Exact("old", {})'
  BY <1>2, <1>4 DEF Exact
<1>6. OldInv' /\ ChoosingInv' /\ FillingInv' /\ NewInv'
  BY <1>2, <1>4, <1>5 DEF MapInv, OldInv, ChoosingInv, FillingInv, NewInv
<1> QED BY <1>3, <1>6 DEF MapInv

LEMMA FillNextStep ==
  ASSUME MapInv, FillNext
  PROVE  MapInv'
<1> DEFINE t == lookupTable["old"]
           v == values["old"]
           e0 == Head(elements)
           h0 == Hash(e0.key)
           b == t[h0].begin
<1>1. /\ mapStatus = "filling" /\ elements # <<>> /\ elements' = Tail(elements)
      /\ lookupTable' = [lookupTable EXCEPT !["old"][h0].begin = b - 1]
      /\ values' = [values EXCEPT !["old"][b - 1 + 1] = e0]
      /\ mapStatus' = IF Tail(elements) = <<>> THEN "built" ELSE "filling"
      /\ hashFunction' = hashFunction /\ capacity' = capacity
      /\ contents' = contents
  BY DEF FillNext
<1>2. /\ elements \in Seq(Element) /\ v \in Seq(Element \cup {NoElement})
      /\ MapTypes /\ contents["old"] \subseteq Element
  BY DEF MapInv, MapTypes, Map
<1>3. /\ KeysOnce(elements) /\ ToSet(elements) \subseteq contents["old"]
      /\ Exact("old", ToSet(elements))
      /\ \A h \in Buckets : t[h].vec = "old" /\ Room(h)
  BY <1>1 DEF MapInv, FillingInv
<1>4. Buckets' = Buckets /\ \A k : Hash(k)' = Hash(k)
  BY <1>1, SameHash
<1>5. /\ Tail(elements) \in Seq(Element) /\ KeysOnce(Tail(elements))
      /\ e0 \in ToSet(elements) /\ e0 \in Element
      /\ ToSet(Tail(elements)) = ToSet(elements) \ {e0}
  <2>1. /\ DOMAIN elements = 1 .. Len(elements) /\ Len(elements) \in Nat \ {0}
        /\ \A i \in DOMAIN elements : elements[i] \in Element
    BY <1>1, <1>2, ElementsOfSeq, EmptySeq
  <2>2. e0 = elements[1] /\ 1 \in DOMAIN elements
    BY <1>1, <1>2, <2>1
  <2>3. /\ Tail(elements) \in Seq(Element)
        /\ DOMAIN Tail(elements) = 1 .. Len(elements) - 1
        /\ \A i \in 1 .. Len(elements) - 1 : Tail(elements)[i] = elements[i + 1]
    BY <1>1, <1>2, <2>1
  <2>4. KeysOnce(Tail(elements))
    <3> SUFFICES ASSUME NEW i \in 1 .. Len(elements) - 1,
                        NEW j \in 1 .. Len(elements) - 1,
                        elements[i + 1].key = elements[j + 1].key
                 PROVE  i = j
      BY <2>3 DEF KeysOnce
    <3>1. i + 1 \in DOMAIN elements /\ j + 1 \in DOMAIN elements
      BY <2>1
    <3>2. i + 1 = j + 1
      BY <1>3, <3>1 DEF KeysOnce
    <3> QED BY <3>2
  <2>5. ASSUME NEW i \in 1 .. Len(elements) - 1
        PROVE  elements[i + 1] # e0 /\ i + 1 \in DOMAIN elements
    <3>1. i + 1 \in DOMAIN elements /\ i + 1 # 1
      BY <2>1
    <3> QED BY <1>3, <2>2, <3>1 DEF KeysOnce
  <2>6. ASSUME NEW i \in DOMAIN elements, elements[i] # e0
        PROVE  i - 1 \in 1 .. Len(elements) - 1 /\ elements[(i - 1) + 1] = elements[i]
    BY <2>1, <2>2, <2>6
  <2>7. ToSet(Tail(elements)) = ToSet(elements) \ {e0}
    <3>1. ASSUME NEW x \in ToSet(Tail(elements))
          PROVE  x \in ToSet(elements) \ {e0}
      <4>1. PICK i \in 1 .. Len(elements) - 1 : x = elements[i + 1]
        BY <2>3, <3>1 DEF ToSet
      <4> QED BY <4>1, <2>5 DEF ToSet
    <3>2. ASSUME NEW x \in ToSet(elements) \ {e0}
          PROVE  x \in ToSet(Tail(elements))
      <4>1. PICK i \in DOMAIN elements : x = elements[i]
        BY <3>2 DEF ToSet
      <4>2. i - 1 \in 1 .. Len(elements) - 1 /\ elements[(i - 1) + 1] = x
        BY <4>1, <2>6, <3>2
      <4>3. Tail(elements)[i - 1] = x
        BY <2>3, <4>2
      <4> QED BY <4>2, <4>3, <2>3 DEF ToSet
    <3> QED BY <3>1, <3>2
  <2> QED BY <2>1, <2>2, <2>3, <2>4, <2>7 DEF ToSet
<1>6. h0 \in Buckets
  BY <1>1, <1>2, <1>5, BucketOfKey DEF Element
<1>7. \A h \in Buckets :
        /\ t[h] \in CandidateValuesRange /\ t[h].begin \in Nat /\ t[h].end \in Nat
        /\ t[h].vec = "old" /\ t[h].begin <= t[h].end /\ t[h].end <= Len(v)
        /\ IsFiniteSet(Remaining(h)) /\ Cardinality(Remaining(h)) \in Nat
        /\ InRange(values, t[h])
             = {e \in contents["old"] \ ToSet(elements) : Hash(e.key) = h}
  <2> TAKE h \in Buckets
  <2>1. IsFiniteSet(Remaining(h)) /\ Cardinality(Remaining(h)) \in Nat
    <3>1. Remaining(h) \subseteq ToSet(elements) /\ IsFiniteSet(ToSet(elements))
      BY <1>2, ElementsOfSeq DEF Remaining
    <3> QED BY <3>1, FS_Subset, FS_CardinalityType
  <2>2. t[h].vec = "old" /\ RangeOK(values, t[h])
    BY <1>3 DEF Exact
  <2> QED BY <1>3, <2>1, <2>2 DEF Exact, RangeOK, CandidateValuesRange
<1>8. /\ e0 \in Remaining(h0) /\ Cardinality(Remaining(h0)) >= 1
      /\ Cardinality(Remaining(h0) \ {e0}) = Cardinality(Remaining(h0)) - 1
  <2>1. e0 \in Remaining(h0)
    BY <1>5 DEF Remaining
  <2>2. /\ IsFiniteSet(Remaining(h0) \ {e0})
        /\ Cardinality(Remaining(h0) \ {e0}) = Cardinality(Remaining(h0)) - 1
    BY <1>6, <1>7, <2>1, FS_RemoveElement
  <2>3. Cardinality(Remaining(h0) \ {e0}) \in Nat
    BY <2>2, FS_CardinalityType
  <2> QED BY <1>6, <1>7, <2>1, <2>2, <2>3
<1>9. b \in Nat /\ 1 <= b /\ b <= Len(v) /\ Len(v) \in Nat
  BY <1>2, <1>3, <1>6, <1>7, <1>8, ElementsOfSeq DEF Room
<1>10. /\ values'["old"] = [v EXCEPT ![b] = e0] /\ values'["new"] = values["new"]
       /\ values' \in [Map -> Seq(Element \cup {NoElement})]
  <2>1. b - 1 + 1 = b
    BY <1>9
  <2>2. values \in [Map -> Seq(Element \cup {NoElement})]
    BY DEF MapInv, MapTypes
  <2>3. [v EXCEPT ![b] = e0] \in Seq(Element \cup {NoElement})
    BY <1>2, <1>5, <1>9
  <2>4. values' = [values EXCEPT !["old"] = [v EXCEPT ![b] = e0]]
    BY <1>1, <2>1
  <2> QED BY <2>2, <2>3, <2>4 DEF Map
<1>11. /\ Len(values'["old"]) = Len(v) /\ values'["old"][b] = e0
       /\ \A p \in 1 .. Len(v) : p # b => values'["old"][p] = v[p]
  BY <1>2, <1>9, <1>10
<1>12. /\ lookupTable' = [m \in Map |-> lookupTable'[m]]
       /\ lookupTable'["old"] = [t EXCEPT ![h0].begin = b - 1]
  BY <1>1, <1>2 DEF MapTypes, Map
<1>13. /\ lookupTable'["old"] \in [Buckets -> CandidateValuesRange]
       /\ lookupTable'["old"][h0]
            = [vec |-> "old", begin |-> b - 1, end |-> t[h0].end]
       /\ \A g \in Buckets : g # h0 => lookupTable'["old"][g] = t[g]
  <2>1. t \in [Buckets -> CandidateValuesRange]
    BY <1>3 DEF Exact
  <2>2. t[h0] = [vec |-> "old", begin |-> b, end |-> t[h0].end]
    BY <1>6, <1>7 DEF CandidateValuesRange
  <2>3. [t[h0] EXCEPT !.begin = b - 1]
          = [vec |-> "old", begin |-> b - 1, end |-> t[h0].end]
    BY <2>2
  <2>4. [vec |-> "old", begin |-> b - 1, end |-> t[h0].end] \in CandidateValuesRange
    BY <1>6, <1>7, <1>9 DEF CandidateValuesRange, Map
  <2>5. lookupTable'["old"] = [t EXCEPT ![h0] =
           [vec |-> "old", begin |-> b - 1, end |-> t[h0].end]]
    BY <1>12, <2>3
  <2> HIDE DEF t, b, h0
  <2> QED BY <1>6, <2>1, <2>4, <2>5
<1> HIDE DEF t, v, b, h0, e0
<1>14. \A g \in Buckets : g # h0 =>
         /\ RangeOK(values', lookupTable'["old"][g])
         /\ InRange(values', lookupTable'["old"][g]) = InRange(values, t[g])
  <2> TAKE g \in Buckets
  <2> HAVE g # h0
  <2>1. \A p \in t[g].begin + 1 .. t[g].end : p # b /\ p \in 1 .. Len(v)
    <3>1. g \in Nat /\ h0 \in Nat
      BY <1>2, <1>6, BucketsAreNat
    <3>2. CASE g < h0
      <4>1. t[g].end <= b - Cardinality(Remaining(h0))
        BY <1>3, <1>6, <3>2 DEF Room, t, b
      <4> QED BY <1>6, <1>7, <1>8, <1>9, <4>1
    <3>3. CASE h0 < g
      <4>1. t[h0].end <= t[g].begin - Cardinality(Remaining(g))
        BY <1>3, <1>6, <3>3 DEF Room, t, b
      <4>2. b <= t[h0].end
        BY <1>6, <1>7 DEF b
      <4>3. /\ t[g].begin \in Nat /\ t[g].end \in Nat /\ t[h0].end \in Nat
            /\ t[g].end <= Len(v) /\ Len(v) \in Nat /\ b \in Nat
            /\ Cardinality(Remaining(g)) \in Nat
        BY <1>6, <1>7, <1>9
      <4> QED BY ONLY <4>1, <4>2, <4>3, SMTT(30)
    <3> QED BY <3>1, <3>2, <3>3
  <2>2. \A p \in t[g].begin + 1 .. t[g].end :
          values'["old"][p] = values["old"][p]
    BY <1>11, <2>1 DEF v
  <2>3. t[g].vec = "old" /\ lookupTable'["old"][g] = t[g]
    BY <1>7, <1>13
  <2>4. InRange(values', lookupTable'["old"][g]) = InRange(values, t[g])
    BY <2>2, <2>3 DEF InRange
  <2> QED BY <1>7, <1>11, <2>3, <2>4 DEF RangeOK
<1>15. /\ RangeOK(values', lookupTable'["old"][h0])
       /\ InRange(values', lookupTable'["old"][h0])
            = {e0} \cup InRange(values, t[h0])
  <2>1. /\ t[h0].vec = "old" /\ b \in Nat /\ t[h0].begin = b
        /\ t[h0].end \in Nat /\ b <= t[h0].end /\ t[h0].end <= Len(v)
    BY <1>6, <1>7, <1>9 DEF b
  <2>2. InRange(values', lookupTable'["old"][h0])
          = {values'["old"][p] : p \in b .. t[h0].end}
    BY <1>13, <2>1, <1>9 DEF InRange
  <2>3. InRange(values, t[h0]) = {values'["old"][p] : p \in b + 1 .. t[h0].end}
    <3>1. \A p \in b + 1 .. t[h0].end : values'["old"][p] = values["old"][p]
      BY <1>9, <1>11, <2>1 DEF v
    <3> QED BY <2>1, <3>1 DEF InRange
  <2>4. b .. t[h0].end = {b} \cup (b + 1 .. t[h0].end)
    BY <2>1
  <2>5. InRange(values', lookupTable'["old"][h0])
          = {e0} \cup InRange(values, t[h0])
    BY <1>11, <2>2, <2>3, <2>4
  <2>6. RangeOK(values', lookupTable'["old"][h0])
    BY <1>6, <1>9, <1>11, <1>13, <2>1 DEF RangeOK
  <2> QED BY <2>5, <2>6
<1>16. Hash(e0.key) = h0
  BY DEF h0
<1>17. Exact("old", ToSet(elements))'
  <2>1. ASSUME NEW h \in Buckets
        PROVE  InRange(values', lookupTable'["old"][h])
                 = {e \in contents["old"] \ ToSet(Tail(elements)) : Hash(e.key) = h}
    <3>1. CASE h = h0
      BY <1>3, <1>5, <1>7, <1>15, <1>16, <3>1
    <3>2. CASE h # h0
      BY <1>5, <1>7, <1>14, <1>16, <3>2
    <3> QED BY <3>1, <3>2
  <2>2. ASSUME NEW h \in Buckets
        PROVE  RangeOK(values', lookupTable'["old"][h])
    BY <1>14, <1>15
  <2> QED BY <1>1, <1>4, <1>13, <2>1, <2>2 DEF Exact
<1>18. \A h \in Buckets : lookupTable'["old"][h].vec = "old" /\ Room(h)'
  <2> TAKE h \in Buckets
  <2>1. lookupTable'["old"][h].vec = "old"
    BY <1>7, <1>13
  <2>2. Remaining(h)' = Remaining(h) \ {e0}
    BY <1>1, <1>4, <1>5 DEF Remaining
  <2>3. \A g \in Buckets : lookupTable'["old"][g].end = t[g].end
    BY <1>7, <1>13
  <2>4. CASE h = h0
    <3>1. lookupTable'["old"][h].begin = b - 1
      BY <1>13, <2>4
    <3>2. Cardinality(Remaining(h)') = Cardinality(Remaining(h)) - 1
      BY <1>8, <2>2, <2>4
    <3>3. /\ Cardinality(Remaining(h)) <= b
          /\ \A g \in Buckets : g < h => t[g].end <= b - Cardinality(Remaining(h))
      BY <1>3, <2>4 DEF Room, t, b
    <3>4. /\ Cardinality(Remaining(h)') <= b - 1
          /\ \A g \in Buckets :
               g < h => t[g].end <= (b - 1) - Cardinality(Remaining(h)')
      BY <1>7, <1>9, <3>2, <3>3
    <3> QED BY <1>4, <2>1, <2>3, <3>1, <3>4 DEF Room
  <2>5. CASE h # h0
    <3>1. lookupTable'["old"][h].begin = t[h].begin
      BY <1>13, <2>5
    <3>2. Remaining(h)' = Remaining(h)
      BY <1>16, <2>2, <2>5 DEF Remaining
    <3>3. Room(h)
      BY <1>3
    <3> QED BY <1>4, <2>1, <2>3, <3>1, <3>2, <3>3 DEF Room, t
  <2> QED BY <2>4, <2>5
<1>19. MapTypes'
  BY <1>1, <1>2, <1>5, <1>10, <1>12 DEF MapTypes, DistinctKeys
<1>20. FillingInv'
  BY <1>1, <1>3, <1>4, <1>5, <1>17, <1>18 DEF FillingInv
<1>21. OldInv'
  <2>1. Tail(elements) = <<>> => ToSet(elements') = {}
    BY <1>1 DEF ToSet
  <2>2. Tail(elements) = <<>> => Exact("old", {})'
    BY <1>17, <2>1 DEF Exact
  <2> QED BY <1>1, <1>4, <1>18, <2>2 DEF OldInv
<1>22. ChoosingInv' /\ NewInv'
  BY <1>1, <1>10 DEF MapInv, ChoosingInv, NewInv
<1> QED BY <1>19, <1>20, <1>21, <1>22 DEF MapInv

(* The sizes of the old buckets, and those of the buckets that grow.          *)
LEMMA SizesOfRanges ==
  ASSUME MapInv, mapStatus \in {"built", "inserting", "extended"}
  PROVE  RangeSizes \in [Buckets -> Nat]
<1>1. \A h \in Buckets : RangeOK(values, lookupTable["old"][h])
  BY DEF MapInv, OldInv, Exact
<1>2. \A h \in Buckets :
        lookupTable["old"][h].end - lookupTable["old"][h].begin \in Nat
  BY <1>1 DEF RangeOK, CandidateValuesRange
<1> QED BY <1>2 DEF RangeSizes

LEMMA HashesAreBuckets ==
  ASSUME MapTypes, mapStatus # "none", NEW S \in SUBSET Element
  PROVE  /\ {Hash(e.key) : e \in S} \subseteq Buckets
         /\ IsFiniteSet({Hash(e.key) : e \in S})
<1>1. {Hash(e.key) : e \in S} \subseteq Buckets
  BY BucketOfKey DEF Element
<1> DEFINE H == {Hash(e.key) : e \in S}
<1>2. IsFiniteSet(Buckets)
  BY BucketsAreNat
<1> HIDE DEF H
<1>3. H \subseteq Buckets
  BY <1>1 DEF H
<1>4. IsFiniteSet(H)
  BY <1>2, <1>3, FS_Subset
<1> QED BY <1>1, <1>4 DEF H

LEMMA StartExtensionStep ==
  ASSUME MapInv, NEW elems \in SUBSET Element, IsFiniteSet(elems),
         DistinctKeys(elems),
         \A e \in elems, f \in contents["old"] : e.key # f.key,
         StartExtension(elems)
  PROVE  MapInv'
<1>1. PICK s \in SetToSeqs(elems) : SortedByHash(s) /\ elements' = s
  BY DEF StartExtension
<1>2. /\ mapStatus = "built" /\ capacity' = SpaceNeeded(elems)
      /\ lookupTable' = [lookupTable EXCEPT !["new"] = lookupTable["old"]]
      /\ contents' = [contents EXCEPT !["new"] = contents["old"] \cup elems]
      /\ mapStatus' = IF elems = {} THEN "extended" ELSE "inserting"
      /\ hashFunction' = hashFunction /\ values' = values
  BY DEF StartExtension
<1>3. /\ MapTypes /\ values \in [Map -> Seq(Element \cup {NoElement})]
      /\ lookupTable = [m \in Map |-> lookupTable[m]]
      /\ contents \in [Map -> SUBSET Element]
      /\ \A m \in Map : DistinctKeys(contents[m])
      /\ values["new"] = <<>>
  BY <1>2 DEF MapInv, MapTypes, NewInv
<1>4. /\ s \in Seq(Element) /\ ToSet(s) = elems /\ Len(s) = Cardinality(elems)
      /\ Cardinality(elems) \in Nat
  <2>1. /\ s \in Seq(elems) /\ ToSet(s) = elems
        /\ Len(s) = Cardinality(elems) /\ Cardinality(elems) \in Nat
    BY EnumerationOfSet
  <2>2. s \in Seq(Element)
    BY <2>1
  <2> QED BY <2>1, <2>2
<1>5. Buckets' = Buckets /\ \A k : Hash(k)' = Hash(k)
  BY <1>2, SameHash
<1>6. /\ contents'["old"] = contents["old"]
      /\ contents'["new"] = contents["old"] \cup elems
      /\ contents' \in [Map -> SUBSET Element]
  BY <1>2, <1>3 DEF Map
<1>7. /\ lookupTable'["old"] = lookupTable["old"]
      /\ lookupTable'["new"] = lookupTable["old"]
      /\ lookupTable' = [m \in Map |-> lookupTable'[m]]
  BY <1>2, <1>3 DEF Map
<1>8. RangeSizes \in [Buckets -> Nat]
  BY <1>2, SizesOfRanges
<1> DEFINE H == {Hash(e.key) : e \in elems}
<1>9. H \subseteq Buckets /\ IsFiniteSet(H)
  BY <1>2, <1>3, HashesAreBuckets
<1>10. /\ SumFunctionOnSet(RangeSizes, H) \in Nat
       /\ capacity' = Cardinality(elems) + SumFunctionOnSet(RangeSizes, H)
       /\ capacity' \in Nat
  <2>1. capacity' = Cardinality(elems) + SumFunctionOnSet(RangeSizes, H)
    BY <1>2 DEF SpaceNeeded
  <2> HIDE DEF H
  <2>2. SumFunctionOnSet(RangeSizes, H) \in Nat
    BY <1>8, <1>9, SumRemove
  <2> QED BY <1>4, <2>1, <2>2
<1>11. DistinctKeys(contents'["new"])
  BY <1>3, <1>6 DEF DistinctKeys, Map
<1>12. MapTypes'
  <2>1. \A m \in Map : DistinctKeys(contents'[m])
    BY <1>3, <1>6, <1>11 DEF Map
  <2> QED BY <1>1, <1>2, <1>3, <1>4, <1>6, <1>7, <1>10, <2>1
          DEF MapTypes, DistinctKeys
<1>13. OldInv'
  BY <1>2, <1>6, <1>7, OldIsKept
<1>14. Exact("new", elems)'
  <2>1. \A h \in Buckets :
          {e \in contents'["new"] \ elems : Hash(e.key) = h}
            = {e \in contents["old"] : Hash(e.key) = h}
    BY <1>6
  <2>2. Exact("old", {})
    BY <1>2 DEF MapInv, OldInv
  <2> QED BY <1>2, <1>5, <1>7, <2>1, <2>2 DEF Exact
<1>15. NewInv'
  <2>1. CASE elems = {}
    <3>1. Exact("new", {})'
      BY <1>14, <2>1
    <3>2. H = {}
      BY <2>1
    <3>3. SumFunctionOnSet(RangeSizes, {}) = 0
      BY <1>8, SumOfNone
    <3>4. Cardinality(elems) = 0
      BY <2>1, FS_EmptySet
    <3>5. capacity' = 0
      BY <1>10, <3>2, <3>3, <3>4
    <3> QED BY <1>2, <1>3, <2>1, <3>1, <3>5 DEF NewInv
  <2>2. CASE elems # {}
    <3>1. Hashes(elements)' = H
      BY <1>1, <1>4, <1>5 DEF Hashes
    <3>2. RangeSizes' = RangeSizes
      BY <1>5, <1>7 DEF RangeSizes
    <3>3. SortedByHash(elements)'
      BY <1>1, <1>5 DEF SortedByHash
    <3>4. Exact("new", ToSet(elements))'
      BY <1>1, <1>4, <1>14 DEF Exact
    <3>5. Len(values'["new"]) = 0
      BY <1>2, <1>3
    <3>6. capacity' = Len(values'["new"]) + Len(elements')
                        + SumFunctionOnSet(RangeSizes', Hashes(elements)')
      BY <1>1, <1>4, <1>10, <3>1, <3>2, <3>5
    <3> QED BY <1>1, <1>2, <1>4, <1>6, <1>7, <2>2, <3>3, <3>4, <3>6 DEF NewInv
  <2> QED BY <2>1, <2>2
<1>16. ChoosingInv' /\ FillingInv'
  BY <1>2 DEF ChoosingInv, FillingInv
<1> QED BY <1>12, <1>13, <1>15, <1>16 DEF MapInv

(* The new elements of a bucket are at the front of those that are left.      *)
LEMMA FrontOfSorted ==
  ASSUME MapTypes, mapStatus # "none", SortedByHash(elements), elements # <<>>,
         NEW h, h = Hash(Head(elements).key),
         NEW last, last = Max({i \in DOMAIN elements : Hash(elements[i].key) = h})
  PROVE  /\ last \in 1 .. Len(elements)
         /\ \A i \in DOMAIN elements : Hash(elements[i].key) = h <=> i <= last
<1> DEFINE S == {i \in DOMAIN elements : Hash(elements[i].key) = h}
<1>1. /\ DOMAIN elements = 1 .. Len(elements) /\ Len(elements) \in Nat \ {0}
      /\ \A i \in DOMAIN elements : elements[i] \in Element
  BY ElementsOfSeq, EmptySeq DEF MapTypes
<1>2. Head(elements) = elements[1] /\ 1 \in DOMAIN elements
  BY <1>1 DEF MapTypes
<1>3. last \in S /\ \A i \in S : i <= last
  <2>1. S \subseteq Int /\ 1 \in S
    BY <1>1, <1>2
  <2>2. IsFiniteSet(S)
    <3>1. IsFiniteSet(DOMAIN elements)
      BY <1>1, IntervalSize
    <3>2. S \subseteq DOMAIN elements
      OBVIOUS
    <3> HIDE DEF S
    <3> QED BY <3>1, <3>2, FS_Subset
  <2>3. last = Max(S)
    OBVIOUS
  <2> HIDE DEF S
  <2>4. last \in S /\ \A i \in S : last >= i
    BY <2>1, <2>2, <2>3, LeastAndGreatest
  <2> QED BY <2>1, <2>4
<1>4. \A i \in DOMAIN elements : Hash(elements[i].key) \in Nat
  <2>1. \A k \in Key : Hash(k) \in Nat
    BY BucketOfKey, BucketsAreNat
  <2> QED BY <1>1, <2>1 DEF Element
<1>5. ASSUME NEW i \in DOMAIN elements, i <= last
      PROVE  Hash(elements[i].key) = h
  <2>1. CASE i = 1 \/ i = last
    BY <1>2, <1>3, <2>1
  <2>2. CASE 1 < i /\ i < last
    <3>1. /\ Hash(elements[1].key) <= Hash(elements[i].key)
          /\ Hash(elements[i].key) <= Hash(elements[last].key)
      BY <1>2, <1>3, <2>2 DEF SortedByHash
    <3> QED BY <1>2, <1>3, <1>4, <3>1
  <2> QED BY <1>1, <1>3, <1>5, <2>1, <2>2
<1> QED BY <1>1, <1>3, <1>5

LEMMA RangeContentsOf ==
  ASSUME NEW r, RangeOK(values, r), NEW S, values[r.vec] \in Seq(S)
  PROVE  /\ RangeContents(r) \in Seq(S)
         /\ Len(RangeContents(r)) = r.end - r.begin
         /\ ToSet(RangeContents(r)) = InRange(values, r)
<1> DEFINE v == values[r.vec]
           b == r.begin
           n == r.end - r.begin
           c == RangeContents(r)
<1>1. b \in Nat /\ r.end \in Nat /\ b <= r.end /\ r.end <= Len(v) /\ n \in Nat
  BY DEF RangeOK, CandidateValuesRange
<1>2. v \in Seq(S) /\ c = SubSeq(v, b + 1, r.end)
  BY DEF RangeContents
<1>3. /\ c \in Seq(S) /\ Len(c) = n /\ DOMAIN c = 1 .. n
      /\ \A i \in 1 .. n : c[i] = v[i + b]
  <2> DEFINE e == r.end
  <2>1. /\ v \in Seq(S) /\ c = SubSeq(v, b + 1, e) /\ n = e - b
        /\ b \in Nat /\ e \in Nat /\ b <= e /\ e <= Len(v)
    BY <1>1, <1>2
  <2> HIDE DEF c, v, b, e, n
  <2> QED BY <2>1, PartOfSeq
<1> HIDE DEF c
<1>4. ASSUME NEW p \in b + 1 .. r.end
      PROVE  p - b \in 1 .. n /\ c[p - b] = v[p]
  BY <1>1, <1>3
<1>5. ASSUME NEW i \in 1 .. n
      PROVE  i + b \in b + 1 .. r.end /\ c[i] = v[i + b]
  BY <1>1, <1>3
<1>6. ToSet(c) = InRange(values, r)
  <2>1. ASSUME NEW x \in ToSet(c) PROVE x \in InRange(values, r)
    <3>1. PICK i \in 1 .. n : x = c[i]
      BY <1>3, <2>1 DEF ToSet
    <3> QED BY <1>5, <3>1 DEF InRange
  <2>2. ASSUME NEW x \in InRange(values, r) PROVE x \in ToSet(c)
    <3>1. PICK p \in b + 1 .. r.end : x = v[p]
      BY <2>2 DEF InRange
    <3>2. p - b \in DOMAIN c /\ c[p - b] = x
      BY <1>3, <1>4, <3>1
    <3> QED BY <3>2 DEF ToSet
  <2> QED BY <2>1, <2>2
<1> QED BY <1>3, <1>6 DEF c

LEMMA InsertStep ==
  ASSUME MapInv, Insert
  PROVE  MapInv'
<1> DEFINE t == lookupTable["new"]
           v == values["new"]
           h == Hash(Head(elements).key)
           last == Max({i \in DOMAIN elements : Hash(elements[i].key) = h})
           front == SubSeq(elements, 1, last)
           rest == SubSeq(elements, last + 1, Len(elements))
           copied == RangeContents(t[h])
           bucket == copied \o front
           r == [vec |-> "new", begin |-> Len(v), end |-> Len(v) + Len(bucket)]
<1>1. /\ mapStatus = "inserting" /\ elements # <<>>
      /\ values' = [values EXCEPT !["new"] = v \o bucket]
      /\ lookupTable' = [lookupTable EXCEPT !["new"][h] = r]
      /\ elements' = rest
      /\ mapStatus' = IF elements' = <<>> THEN "extended" ELSE "inserting"
      /\ hashFunction' = hashFunction /\ capacity' = capacity
      /\ contents' = contents
  BY DEF Insert
<1>2. /\ MapTypes /\ elements \in Seq(Element)
      /\ values \in [Map -> Seq(Element \cup {NoElement})]
      /\ v \in Seq(Element \cup {NoElement}) /\ Len(v) \in Nat
      /\ contents["new"] \subseteq Element
  BY DEF MapInv, MapTypes, Map
<1>3. /\ SortedByHash(elements) /\ ToSet(elements) \subseteq contents["new"]
      /\ Exact("new", ToSet(elements))
      /\ \A g \in Hashes(elements) : t[g] = lookupTable["old"][g]
      /\ capacity = Len(v) + Len(elements)
                      + SumFunctionOnSet(RangeSizes, Hashes(elements))
  BY <1>1 DEF MapInv, NewInv
<1>4. Buckets' = Buckets /\ \A k : Hash(k)' = Hash(k)
  BY <1>1, SameHash
<1>5. /\ DOMAIN elements = 1 .. Len(elements) /\ Len(elements) \in Nat
      /\ \A i \in DOMAIN elements : elements[i] \in Element
  BY <1>2, ElementsOfSeq
<1>6. /\ last \in 1 .. Len(elements)
      /\ \A i \in DOMAIN elements : Hash(elements[i].key) = h <=> i <= last
  BY <1>1, <1>2, <1>3, FrontOfSorted
<1> HIDE DEF last
<1>7. /\ front \in Seq(Element) /\ Len(front) = last /\ DOMAIN front = 1 .. last
      /\ \A i \in 1 .. last : front[i] = elements[i]
  <2>1. /\ 0 \in Nat /\ last \in Nat /\ 0 <= last /\ last <= Len(elements)
        /\ 0 + 1 = 1 /\ last - 0 = last
    BY <1>5, <1>6
  <2>2. \A i \in 1 .. last : i + 0 = i
    BY <2>1
  <2> QED BY <1>2, <2>1, <2>2, PartOfSeq
<1>8. /\ rest \in Seq(Element) /\ Len(rest) = Len(elements) - last
      /\ DOMAIN rest = 1 .. Len(elements) - last
      /\ \A i \in 1 .. Len(elements) - last : rest[i] = elements[i + last]
  BY <1>2, <1>6, RestOfSeq
<1> HIDE DEF front, rest
<1>9. ToSet(front) = {e \in ToSet(elements) : Hash(e.key) = h}
  BY <1>5, <1>6, <1>7 DEF ToSet
<1>10. ToSet(rest) = {e \in ToSet(elements) : Hash(e.key) # h}
  <2>1. ASSUME NEW x \in ToSet(rest)
        PROVE  x \in ToSet(elements) /\ Hash(x.key) # h
    <3>1. PICK i \in 1 .. Len(elements) - last : x = elements[i + last]
      BY <1>8, <2>1 DEF ToSet
    <3>2. i + last \in DOMAIN elements /\ ~ (i + last <= last)
      BY <1>5, <1>6
    <3> QED BY <1>6, <3>1, <3>2 DEF ToSet
  <2>2. ASSUME NEW x \in ToSet(elements), Hash(x.key) # h
        PROVE  x \in ToSet(rest)
    <3>1. PICK i \in DOMAIN elements : x = elements[i]
      BY <2>2 DEF ToSet
    <3>2. ~ (i <= last)
      BY <1>6, <2>2, <3>1
    <3>3. i - last \in DOMAIN rest /\ rest[i - last] = x
      BY <1>5, <1>6, <1>8, <3>1, <3>2
    <3> QED BY <3>3 DEF ToSet
  <2> QED BY <2>1, <2>2
<1>11. h \in Hashes(elements) /\ h \in Buckets
  <2>1. Head(elements) \in ToSet(elements) /\ Head(elements) \in Element
    <3>1. 1 \in DOMAIN elements /\ Head(elements) = elements[1]
      BY <1>5, <1>6, <1>2
    <3> QED BY <1>5, <3>1 DEF ToSet
  <2>2. h \in Hashes(elements)
    BY <2>1 DEF Hashes
  <2> QED BY <1>1, <1>2, <2>1, <2>2, BucketOfKey DEF Element
<1>12. /\ t \in [Buckets -> CandidateValuesRange]
       /\ \A g \in Buckets :
            /\ RangeOK(values, t[g])
            /\ InRange(values, t[g])
                 = {e \in contents["new"] \ ToSet(elements) : Hash(e.key) = g}
  <2> HIDE DEF h
  <2> QED BY <1>3 DEF Exact
<1> HIDE DEF h, t
<1>13. /\ copied \in Seq(Element \cup {NoElement})
       /\ Len(copied) = t[h].end - t[h].begin
       /\ ToSet(copied) = InRange(values, t[h])
  <2>1. RangeOK(values, t[h])
    BY <1>11, <1>12
  <2>2. values[t[h].vec] \in Seq(Element \cup {NoElement})
    BY <1>2, <2>1 DEF RangeOK, CandidateValuesRange
  <2> QED BY <2>1, <2>2, RangeContentsOf
<1> HIDE DEF copied
<1>14. /\ t[h].end - t[h].begin = RangeSizes[h] /\ RangeSizes[h] \in Nat
       /\ RangeSizes \in [Buckets -> Nat]
  <2>1. RangeSizes \in [Buckets -> Nat]
    BY <1>1, SizesOfRanges
  <2> QED BY <1>3, <1>11, <2>1 DEF RangeSizes
<1>15. /\ bucket \in Seq(Element \cup {NoElement})
       /\ Len(bucket) = RangeSizes[h] + last /\ Len(bucket) \in Nat
       /\ ToSet(bucket) = ToSet(copied) \cup ToSet(front)
  <2> DEFINE X == Element \cup {NoElement}
             m == Len(copied)
  <2>1. copied \in Seq(X) /\ front \in Seq(X) /\ m \in Nat /\ last \in Nat
        /\ m = RangeSizes[h]
    BY <1>6, <1>7, <1>13, <1>14
  <2>2. /\ bucket \in Seq(X) /\ Len(bucket) = m + last
        /\ DOMAIN bucket = 1 .. m + last
        /\ \A i \in 1 .. m : bucket[i] = copied[i]
        /\ \A i \in 1 .. last : bucket[i + m] = front[i]
    <3> HIDE DEF X
    <3>1. /\ bucket \in Seq(X) /\ Len(bucket) = Len(copied) + Len(front)
          /\ DOMAIN bucket = 1 .. Len(copied) + Len(front)
          /\ \A i \in 1 .. Len(copied) : bucket[i] = copied[i]
          /\ \A i \in 1 .. Len(front) : bucket[i + Len(copied)] = front[i]
      <4>1. copied \in Seq(X) /\ front \in Seq(X)
        BY <2>1
      <4> QED BY ONLY <4>1, Concatenation DEF bucket
    <3> QED BY <1>7, <3>1
  <2>3. DOMAIN copied = 1 .. m
    BY <2>1
  <2> HIDE DEF bucket, m
  <2>4. ASSUME NEW i \in 1 .. m + last
        PROVE  i \in 1 .. m \/ (i - m \in 1 .. last /\ (i - m) + m = i)
    BY <2>1
  <2>5. ASSUME NEW x \in ToSet(bucket)
        PROVE  x \in ToSet(copied) \cup ToSet(front)
    <3>1. PICK i \in 1 .. m + last : x = bucket[i]
      BY <2>2, <2>5 DEF ToSet
    <3>2. CASE i \in 1 .. m
      BY <2>2, <2>3, <3>1, <3>2 DEF ToSet
    <3>3. CASE i - m \in 1 .. last /\ (i - m) + m = i
      <4>1. bucket[i] = front[i - m]
        BY <2>2, <3>3
      <4> QED BY <1>7, <3>1, <3>3, <4>1 DEF ToSet
    <3> QED BY <2>4, <3>2, <3>3
  <2>6. ASSUME NEW x \in ToSet(copied) \cup ToSet(front)
        PROVE  x \in ToSet(bucket)
    <3>1. CASE x \in ToSet(copied)
      <4>1. PICK i \in 1 .. m : x = copied[i]
        BY <2>3, <3>1 DEF ToSet
      <4>2. i \in 1 .. m + last
        BY <2>1
      <4> QED BY <2>2, <4>1, <4>2 DEF ToSet
    <3>2. CASE x \in ToSet(front)
      <4>1. PICK i \in 1 .. last : x = front[i]
        BY <1>7, <3>2 DEF ToSet
      <4>2. i + m \in 1 .. m + last
        BY <2>1
      <4> QED BY <2>2, <4>1, <4>2 DEF ToSet
    <3> QED BY <2>6, <3>1, <3>2
  <2> QED BY <2>1, <2>2, <2>5, <2>6
<1>16. ToSet(bucket) = {e \in contents["new"] : Hash(e.key) = h}
  BY <1>3, <1>9, <1>11, <1>12, <1>13, <1>15
<1> HIDE DEF bucket
<1>17. /\ values'["old"] = values["old"] /\ values'["new"] = v \o bucket
       /\ v \o bucket \in Seq(Element \cup {NoElement})
       /\ values' \in [Map -> Seq(Element \cup {NoElement})]
       /\ Len(v \o bucket) = Len(v) + Len(bucket)
       /\ \A i \in 1 .. Len(v) : (v \o bucket)[i] = v[i]
       /\ \A i \in 1 .. Len(bucket) : (v \o bucket)[i + Len(v)] = bucket[i]
  <2> DEFINE X == Element \cup {NoElement}
  <2>1. v \in Seq(X) /\ bucket \in Seq(X)
    BY <1>2, <1>15
  <2> HIDE DEF X, v
  <2>2. /\ v \o bucket \in Seq(X) /\ Len(v \o bucket) = Len(v) + Len(bucket)
        /\ \A i \in 1 .. Len(v) : (v \o bucket)[i] = v[i]
        /\ \A i \in 1 .. Len(bucket) : (v \o bucket)[i + Len(v)] = bucket[i]
    BY <2>1, Concatenation
  <2>3. values \in [Map -> Seq(X)]
    BY <1>2 DEF X
  <2>4. /\ values'["old"] = values["old"] /\ values'["new"] = v \o bucket
        /\ values' \in [Map -> Seq(X)]
    BY <1>1, <2>2, <2>3 DEF Map
  <2> QED BY <2>2, <2>4 DEF X
<1>18. /\ lookupTable' = [m \in Map |-> lookupTable'[m]]
       /\ lookupTable'["old"] = lookupTable["old"]
       /\ lookupTable'["new"] = [t EXCEPT ![h] = r]
  BY <1>1, <1>2 DEF MapTypes, Map, t
<1>19. r \in CandidateValuesRange
  BY <1>2, <1>15 DEF CandidateValuesRange, Map
<1>20. RangeOK(values', r) /\ InRange(values', r) = ToSet(bucket)
  <2> DEFINE n == Len(v)
             m == Len(bucket)
             w == values'["new"]
  <2>1. /\ n \in Nat /\ m \in Nat /\ DOMAIN bucket = 1 .. m
        /\ Len(w) = n + m /\ \A i \in 1 .. m : w[i + n] = bucket[i]
    BY <1>2, <1>15, <1>17
  <2>2. /\ r.vec = "new" /\ r.begin = n /\ r.end = n + m
    OBVIOUS
  <2>3. RangeOK(values', r)
    BY <1>19, <2>1, <2>2 DEF RangeOK
  <2>4. InRange(values', r) = {w[p] : p \in n + 1 .. n + m}
    BY <2>2 DEF InRange
  <2> HIDE DEF n, m, w, r
  <2>5. ASSUME NEW p \in n + 1 .. n + m
        PROVE  p - n \in 1 .. m /\ w[p] = bucket[p - n]
    <3>1. p - n \in 1 .. m /\ (p - n) + n = p
      BY <2>1
    <3> QED BY <2>1, <3>1
  <2>6. ASSUME NEW i \in 1 .. m
        PROVE  i + n \in n + 1 .. n + m /\ w[i + n] = bucket[i]
    BY <2>1
  <2>7. {w[p] : p \in n + 1 .. n + m} = {bucket[i] : i \in 1 .. m}
    BY <2>5, <2>6
  <2> QED BY <2>1, <2>3, <2>4, <2>7 DEF ToSet
<1> HIDE DEF r
<1>21. /\ lookupTable'["new"] \in [Buckets -> CandidateValuesRange]
       /\ lookupTable'["new"][h] = r
       /\ \A g \in Buckets : g # h => lookupTable'["new"][g] = t[g]
  BY <1>11, <1>12, <1>18, <1>19
<1>22. \A g \in Buckets :
         /\ RangeOK(values', t[g])
         /\ InRange(values', t[g]) = InRange(values, t[g])
  <2> TAKE g \in Buckets
  <2>1. RangeOK(values, t[g]) /\ t[g].vec \in Map
    BY <1>12 DEF RangeOK, CandidateValuesRange
  <2>2. \A x \in Map : /\ Len(values[x]) \in Nat /\ Len(values'[x]) \in Nat
                       /\ Len(values[x]) <= Len(values'[x])
                       /\ \A p \in 1 .. Len(values[x]) :
                            values'[x][p] = values[x][p]
    BY <1>2, <1>15, <1>17 DEF Map
  <2> DEFINE q == t[g]
             vs == values
             ws == values'
  <2>3. /\ RangeOK(vs, q) /\ Len(vs[q.vec]) \in Nat /\ Len(ws[q.vec]) \in Nat
        /\ Len(vs[q.vec]) <= Len(ws[q.vec])
        /\ \A p \in 1 .. Len(vs[q.vec]) : ws[q.vec][p] = vs[q.vec][p]
    BY <2>1, <2>2
  <2> HIDE DEF q, vs, ws
  <2>4. RangeOK(ws, q) /\ InRange(ws, q) = InRange(vs, q)
    BY <2>3, RangeKept
  <2> QED BY <2>4 DEF q, vs, ws
<1>23. Exact("new", ToSet(elements))'
  <2>1. ASSUME NEW g \in Buckets
        PROVE  /\ RangeOK(values', lookupTable'["new"][g])
               /\ InRange(values', lookupTable'["new"][g])
                    = {e \in contents["new"] \ ToSet(rest) : Hash(e.key) = g}
    <3>1. CASE g = h
      <4>1. {e \in contents["new"] \ ToSet(rest) : Hash(e.key) = h}
              = {e \in contents["new"] : Hash(e.key) = h}
        BY <1>10
      <4> QED BY <1>16, <1>20, <1>21, <3>1, <4>1
    <3>2. CASE g # h
      <4>1. {e \in contents["new"] \ ToSet(rest) : Hash(e.key) = g}
              = {e \in contents["new"] \ ToSet(elements) : Hash(e.key) = g}
        BY <1>10, <3>2
      <4> QED BY <1>12, <1>21, <1>22, <3>2, <4>1
    <3> QED BY <3>1, <3>2
  <2> QED BY <1>1, <1>4, <1>21, <2>1 DEF Exact
<1>24. Hashes(elements)' = Hashes(elements) \ {h}
  BY <1>1, <1>4, <1>10 DEF Hashes
<1>25. RangeSizes' = RangeSizes
  BY <1>4, <1>18 DEF RangeSizes
<1>26. /\ SumFunctionOnSet(RangeSizes, Hashes(elements) \ {h}) \in Nat
       /\ capacity = Len(values'["new"]) + Len(rest)
                       + SumFunctionOnSet(RangeSizes, Hashes(elements) \ {h})
  <2> DEFINE H == Hashes(elements)
             c == RangeSizes
  <2>1. H \subseteq Buckets /\ IsFiniteSet(H)
    <3>1. ToSet(elements) \in SUBSET Element
      BY <1>2, ElementsOfSeq
    <3> QED BY <1>1, <1>2, <3>1, HashesAreBuckets DEF Hashes
  <2> HIDE DEF H
  <2>2. /\ SumFunctionOnSet(c, H \ {h}) \in Nat
        /\ SumFunctionOnSet(c, H) = c[h] + SumFunctionOnSet(c, H \ {h})
    BY <1>11, <1>14, <2>1, SumRemove DEF H
  <2>3. Len(values'["new"]) = Len(v) + (RangeSizes[h] + last)
    BY <1>15, <1>17
  <2>4. capacity = Len(v) + Len(elements) + SumFunctionOnSet(c, H)
    BY <1>3 DEF H
  <2>5. Len(v) \in Nat /\ RangeSizes[h] \in Nat /\ last \in Nat
        /\ Len(elements) \in Nat /\ Len(rest) = Len(elements) - last
    BY <1>2, <1>5, <1>6, <1>8, <1>14
  <2> HIDE DEF v
  <2>6. capacity = Len(values'["new"]) + Len(rest) + SumFunctionOnSet(c, H \ {h})
    BY <2>2, <2>3, <2>4, <2>5
  <2> QED BY <2>2, <2>6 DEF H
<1>27. SortedByHash(rest)
  <2> SUFFICES ASSUME NEW i \in DOMAIN rest, NEW j \in DOMAIN rest, i < j
               PROVE  Hash(rest[i].key) <= Hash(rest[j].key)
    BY DEF SortedByHash
  <2>1. /\ i + last \in DOMAIN elements /\ j + last \in DOMAIN elements
        /\ i + last < j + last
    BY <1>5, <1>6, <1>8
  <2>2. rest[i] = elements[i + last] /\ rest[j] = elements[j + last]
    BY <1>8
  <2> QED BY <1>3, <2>1, <2>2 DEF SortedByHash
<1>28. NewInv'
  <2>1. CASE rest = <<>>
    <3>1. ToSet(rest) = {} /\ Len(rest) = 0
      BY <2>1 DEF ToSet
    <3>2. Hashes(elements) \ {h} = {}
      BY <1>1, <1>24, <3>1 DEF Hashes
    <3>3. SumFunctionOnSet(RangeSizes, {}) = 0
      BY <1>14, SumOfNone
    <3>4. capacity' = Len(values'["new"])
      <4>1. Len(values'["new"]) \in Nat
        BY <1>17, <1>2, <1>15
      <4>2. capacity = Len(values'["new"]) + 0 + 0
        BY <1>26, <3>1, <3>2, <3>3
      <4> QED BY <1>1, <4>1, <4>2
    <3>5. Exact("new", {})'
      BY <1>1, <1>23, <3>1 DEF Exact
    <3> QED BY <1>1, <2>1, <3>4, <3>5 DEF NewInv
  <2>2. CASE rest # <<>>
    <3>1. SortedByHash(elements)'
      BY <1>1, <1>4, <1>27 DEF SortedByHash
    <3>2. ToSet(elements') \subseteq contents'["new"]
      BY <1>1, <1>3, <1>10
    <3>3. \A g \in Hashes(elements)' :
            lookupTable'["new"][g] = lookupTable'["old"][g]
      <4>1. Hashes(elements) \subseteq Buckets
        <5>1. ToSet(elements) \in SUBSET Element
          BY <1>2, ElementsOfSeq
        <5> QED BY <1>1, <1>2, <5>1, HashesAreBuckets DEF Hashes
      <4> QED BY <1>3, <1>18, <1>21, <1>24, <4>1
    <3>4. capacity' = Len(values'["new"]) + Len(elements')
                        + SumFunctionOnSet(RangeSizes', Hashes(elements)')
      BY <1>1, <1>24, <1>25, <1>26
    <3> QED BY <1>1, <1>23, <2>2, <3>1, <3>2, <3>3, <3>4 DEF NewInv
  <2> QED BY <2>1, <2>2
<1>29. OldInv'
  BY <1>1, <1>17, <1>18, OldIsKept
<1>30. MapTypes'
  BY <1>1, <1>2, <1>8, <1>17, <1>18 DEF MapTypes, DistinctKeys
<1>31. ChoosingInv' /\ FillingInv'
  BY <1>1 DEF ChoosingInv, FillingInv
<1> QED BY <1>28, <1>29, <1>30, <1>31 DEF MapInv

-----------------------------------------------------------------------------
(* The map does not change what it is made for.                               *)
LEMMA MapStepKeeps ==
  ASSUME MapInv, MapStep
  PROVE  /\ MapInv' /\ contents' = contents
         /\ mapStatus \in {"choosing", "filling"} =>
              mapStatus' \in {"choosing", "filling", "built"}
         /\ mapStatus \notin {"choosing", "filling"} =>
              mapStatus = "inserting" /\ mapStatus' \in {"inserting", "extended"}
<1>1. CASE PickAnother
  BY <1>1, PickAnotherStep DEF PickAnother
<1>2. CASE PickHashFunction
  BY <1>2, PickHashFunctionStep DEF PickHashFunction
<1>3. CASE FillNext
  BY <1>3, FillNextStep DEF FillNext
<1>4. CASE FinishEmptyMap
  BY <1>4, FinishEmptyMapStep DEF FinishEmptyMap
<1>5. CASE Insert
  BY <1>5, InsertStep DEF Insert
<1> QED BY <1>1, <1>2, <1>3, <1>4, <1>5 DEF MapStep

LEMMA MapUnchanged ==
  ASSUME MapInv, UNCHANGED mapVars
  PROVE  MapInv'
<1> USE DEF mapVars
<1>1. Buckets' = Buckets /\ \A k : Hash(k)' = Hash(k)
  BY SameHash
<1>2. MapTypes'
  BY DEF MapInv, MapTypes, DistinctKeys
<1>3. ChoosingInv'
  BY <1>1 DEF MapInv, ChoosingInv, KeysOnce
<1>4. \A m \in Map : /\ Exact(m, {}) => Exact(m, {})'
                     /\ Exact(m, ToSet(elements)) => Exact(m, ToSet(elements))'
  BY <1>1 DEF Exact
<1>5. \A h : Remaining(h)' = Remaining(h)
  BY <1>1 DEF Remaining
<1>6. \A h \in Buckets : Room(h) => Room(h)'
  BY <1>1, <1>5 DEF Room
<1>7. FillingInv' /\ OldInv'
  BY <1>1, <1>4, <1>6 DEF MapInv, FillingInv, OldInv, KeysOnce, Map
<1>8. Hashes(elements)' = Hashes(elements) /\ RangeSizes' = RangeSizes
  BY <1>1 DEF Hashes, RangeSizes
<1>9. SortedByHash(elements) => SortedByHash(elements)'
  BY <1>1 DEF SortedByHash
<1>10. NewInv'
  BY <1>4, <1>8, <1>9 DEF MapInv, NewInv, Map
<1> QED BY <1>2, <1>3, <1>7, <1>10 DEF MapInv

LEMMA ReadyIsExact ==
  ASSUME MapInv, NEW m \in Map, Ready(m)
  PROVE  Exact(m, {}) /\ MapTypes /\ mapStatus # "none"
BY DEF MapInv, Ready, OldInv, NewInv, Map

LEMMA MapInvImplies ==
  MapInv => FindIsExact /\ SpaceIsExact
<1> SUFFICES ASSUME MapInv PROVE FindIsExact /\ SpaceIsExact
  OBVIOUS
<1>1. FindIsExact
  <2> SUFFICES ASSUME NEW m \in Map, Ready(m), NEW k \in Key
               PROVE  IF \E e \in contents[m] : e.key = k
                        THEN [key |-> k, value |-> Find(m, k)] \in contents[m]
                        ELSE Find(m, k) = None
    BY DEF FindIsExact
  <2>1. /\ \A e \in contents[m] : e.key = k => Find(m, k) = e.value
        /\ (\A e \in contents[m] : e.key # k) => Find(m, k) = None
    BY ReadyIsExact, FindExactly
  <2>2. ASSUME NEW e \in contents[m], e.key = k
        PROVE  [key |-> k, value |-> e.value] = e
    <3>1. e \in Element
      BY DEF MapInv, MapTypes
    <3> QED BY <2>2, <3>1 DEF Element
  <2> QED BY <2>1, <2>2
<1>2. SpaceIsExact
  <2>1. CASE mapStatus = "inserting"
    <3>1. /\ capacity = Len(values["new"]) + Len(elements)
                          + SumFunctionOnSet(RangeSizes, Hashes(elements))
          /\ elements \in Seq(Element)
          /\ values["new"] \in Seq(Element \cup {NoElement})
      BY <2>1 DEF MapInv, NewInv, MapTypes, Map
    <3>2. SumFunctionOnSet(RangeSizes, Hashes(elements)) \in Nat
      <4>1. RangeSizes \in [Buckets -> Nat]
        BY <2>1, SizesOfRanges
      <4>2. ToSet(elements) \in SUBSET Element
        BY <3>1, ElementsOfSeq
      <4>3. Hashes(elements) \subseteq Buckets /\ IsFiniteSet(Hashes(elements))
        BY <2>1, <4>2, HashesAreBuckets DEF Hashes, MapInv
      <4> QED BY <4>1, <4>3, SumRemove
    <3>3. Len(elements) \in Nat /\ Len(values["new"]) \in Nat
      BY <3>1
    <3> QED BY <2>1, <3>1, <3>2, <3>3 DEF SpaceIsExact
  <2>2. CASE mapStatus # "inserting"
    BY <2>2 DEF MapInv, NewInv, MapTypes, SpaceIsExact
  <2> QED BY <2>1, <2>2
<1> QED BY <1>1, <1>2

-----------------------------------------------------------------------------
(* The graphs.                                                                *)
KeysOf(m) == {e.key : e \in contents[m]}
ValuesOf(m) == {e.value : e \in contents[m]}
HasNodes(m) == \/ graphStatus \in {"relinking", "ready"}
               \/ m = "old" /\ graphStatus \in {"linking", "built", "extending"}
Copying == graphStatus \in {"extending", "relinking", "ready"}

GraphTypes ==
  /\ input \in Inputs
  /\ graphStatus \in {"none", "indexing", "linking", "built", "extending",
                      "relinking", "ready"}
  /\ firstUnusedIndex \in Nat
  /\ nodes \in [Map -> Seq(NodeData)]
  /\ edgesStorage \in [Map -> Seq(Nat)]
  /\ edgesCapacity \in [Map -> Nat]
  /\ todo \in Seq(InputNode)

(* How far the map is while the graphs are built.                             *)
PhaseInv ==
  /\ graphStatus = "none" => mapStatus = "none"
  /\ graphStatus = "indexing" => mapStatus \in {"choosing", "filling", "built"}
  /\ graphStatus \in {"linking", "built"} => mapStatus = "built"
  /\ graphStatus = "extending" => mapStatus \in {"inserting", "extended"}
  /\ graphStatus \in {"relinking", "ready"} => mapStatus = "extended"

(* Every id that a node has or refers to has a number of its own, below the   *)
(* size of the vector of nodes; the new ids come after the old ones.          *)
IndexInv ==
  /\ \A m \in Map : \A e, f \in contents[m] : e.value = f.value => e = f
  /\ graphStatus # "none" => IdsIn(input.base) \subseteq KeysOf("old")
  /\ graphStatus \in {"indexing", "linking", "built"} =>
       \A e \in contents["old"] : e.value < firstUnusedIndex
  /\ graphStatus \in {"linking", "built"} =>
       Len(nodes["old"]) = firstUnusedIndex
  /\ Copying =>
       /\ contents["old"] \subseteq contents["new"]
       /\ IdsIn(input.added) \subseteq KeysOf("new")
       /\ \A e \in contents["old"] : e.value < Len(nodes["old"])
       /\ \A e \in contents["new"] : e.value < firstUnusedIndex
       /\ \A e \in contents["new"] \ contents["old"] :
            e.value >= Len(nodes["old"])
       /\ Len(nodes["old"]) <= firstUnusedIndex
  /\ HasNodes("new") => Len(nodes["new"]) = firstUnusedIndex

(* The nodes that are filled in, and how many of them are.                    *)
Given == IF graphStatus = "linking" THEN input.base ELSE input.added
Done == Len(Given) - Len(todo)

(* The edges pushed and those of the nodes that are still to be filled in are  *)
(* as many as there is space for.                                             *)
SpaceInv ==
  /\ graphStatus \in {"linking", "relinking"} =>
       /\ Len(todo) <= Len(Given)
       /\ \A i \in DOMAIN todo : todo[i] = Given[Done + i]
       /\ Len(edgesStorage[Current]) + NumEdges(todo) = edgesCapacity[Current]
  /\ graphStatus \in {"none", "indexing"} =>
       edgesStorage["old"] = <<>> /\ edgesCapacity["old"] = 0
  /\ graphStatus \in {"built", "extending", "relinking", "ready"} =>
       Len(edgesStorage["old"]) = edgesCapacity["old"]
  /\ ~ HasNodes("new") => edgesStorage["new"] = <<>> /\ edgesCapacity["new"] = 0
  /\ graphStatus = "ready" => Len(edgesStorage["new"]) = edgesCapacity["new"]

BaseInv == MapInv /\ GraphTypes /\ PhaseInv /\ IndexInv /\ SpaceInv

-----------------------------------------------------------------------------
(* The ids of nodes are finitely many types.                                  *)
LEMMA IdsOfNodes ==
  ASSUME NEW ns \in Seq(InputNode)
  PROVE  /\ IsFiniteSet(IdsIn(ns)) /\ IdsIn(ns) \subseteq Key
         /\ \A i \in DOMAIN ns :
              /\ ns[i].id \in IdsIn(ns)
              /\ \A j \in DOMAIN ns[i].node.edges :
                   ns[i].node.edges[j] \in IdsIn(ns)
<1> DEFINE ids(x) == {x.id} \cup ToSet(x.node.edges)
           f == [i \in DOMAIN ns |-> ids(ns[i])]
           D == {f[i] : i \in DOMAIN ns}
<1>1. /\ ToSet(ns) \subseteq InputNode /\ DOMAIN ns = 1 .. Len(ns)
      /\ Len(ns) \in Nat /\ \A i \in DOMAIN ns : ns[i] \in InputNode
  BY ElementsOfSeq
<1>2. ASSUME NEW x \in InputNode
      PROVE  IsFiniteSet(ids(x)) /\ ids(x) \subseteq Key
  <2>1. x.node.edges \in Seq(Key) /\ x.id \in Key
    BY DEF InputNode
  <2>2. IsFiniteSet(ToSet(x.node.edges)) /\ ToSet(x.node.edges) \subseteq Key
    BY <2>1, ElementsOfSeq
  <2>3. IsFiniteSet({x.id})
    BY FS_Singleton
  <2>4. IsFiniteSet({x.id} \cup ToSet(x.node.edges))
    BY <2>2, <2>3, FS_Union
  <2> QED BY <2>1, <2>2, <2>4
<1>3. IsFiniteSet(DOMAIN ns)
  BY <1>1, IntervalSize
<1>4. IsFiniteSet(D)
  <2>1. DOMAIN f = DOMAIN ns
    OBVIOUS
  <2> HIDE DEF f
  <2> QED BY <1>3, <2>1, ImageIsFinite
<1>5. IdsIn(ns) = UNION D
  <2>1. {ids(x) : x \in ToSet(ns)} = D
    BY DEF ToSet
  <2> QED BY <2>1 DEF IdsIn
<1>6. \A T \in D : IsFiniteSet(T) /\ T \subseteq Key
  BY <1>1, <1>2
<1>7. IsFiniteSet(UNION D)
  <2> HIDE DEF D
  <2> QED BY <1>4, <1>6, FS_UNION
<1>8. ASSUME NEW i \in DOMAIN ns
      PROVE  ids(ns[i]) \in D
  OBVIOUS
<1>9. ASSUME NEW i \in DOMAIN ns, NEW j \in DOMAIN ns[i].node.edges
      PROVE  ns[i].node.edges[j] \in ids(ns[i])
  BY DEF ToSet
<1>10. \A i \in DOMAIN ns : ns[i].id \in ids(ns[i])
  OBVIOUS
<1> HIDE DEF D, ids
<1> QED BY <1>5, <1>6, <1>7, <1>8, <1>9, <1>10

(* What the nodes are made from, and how many edges each of them has.         *)
LEMMA InputOfGraph ==
  ASSUME input \in Inputs
  PROVE  /\ input.base \in Seq(InputNode) /\ input.added \in Seq(InputNode)
         /\ Given \in Seq(InputNode)
         /\ \A i \in DOMAIN Given :
              Len(Given[i].node.edges) = IF Given[i].node.terminal THEN 0
                                         ELSE Arity[Given[i].node.value]
<1>1. input.base \in Seq(InputNode) /\ input.added \in Seq(InputNode)
  BY GraphInputAssumption
<1>2. ToSet(input.base \o input.added)
        = ToSet(input.base) \cup ToSet(input.added)
  <2> DEFINE s == input.base
             t == input.added
  <2>0. s \in Seq(InputNode) /\ t \in Seq(InputNode)
    BY <1>1
  <2> HIDE DEF s, t
  <2>1. /\ Len(s) \in Nat /\ Len(t) \in Nat
        /\ DOMAIN (s \o t) = 1 .. Len(s) + Len(t)
        /\ DOMAIN s = 1 .. Len(s) /\ DOMAIN t = 1 .. Len(t)
        /\ \A i \in 1 .. Len(s) : (s \o t)[i] = s[i]
        /\ \A i \in 1 .. Len(t) : (s \o t)[i + Len(s)] = t[i]
    <3>1. DOMAIN s = 1 .. Len(s) /\ DOMAIN t = 1 .. Len(t)
      BY ONLY <2>0, ElementsOfSeq
    <3> QED BY ONLY <2>0, <3>1, Concatenation
  <2>2. ASSUME NEW i \in DOMAIN (s \o t)
        PROVE  (s \o t)[i] \in ToSet(s) \cup ToSet(t)
    <3>1. CASE i <= Len(s)
      BY <2>1, <3>1 DEF ToSet
    <3>2. CASE i > Len(s)
      <4>1. i - Len(s) \in 1 .. Len(t) /\ (i - Len(s)) + Len(s) = i
        BY <2>1, <3>2
      <4>2. (s \o t)[i] = t[i - Len(s)]
        BY <2>1, <4>1
      <4> QED BY <2>1, <4>1, <4>2 DEF ToSet
    <3> QED BY <2>1, <3>1, <3>2
  <2>3. ASSUME NEW i \in DOMAIN s
        PROVE  s[i] \in ToSet(s \o t)
    <3>1. i \in DOMAIN (s \o t)
      BY <2>1
    <3> QED BY <2>1, <3>1 DEF ToSet
  <2>4. ASSUME NEW i \in DOMAIN t
        PROVE  t[i] \in ToSet(s \o t)
    <3>1. i + Len(s) \in DOMAIN (s \o t)
      BY <2>1
    <3> QED BY <2>1, <3>1 DEF ToSet
  <2> QED BY <2>2, <2>3, <2>4 DEF ToSet, s, t
<1>3. \A x \in ToSet(input.base) \cup ToSet(input.added) :
        Len(x.node.edges) = IF x.node.terminal THEN 0 ELSE Arity[x.node.value]
  BY <1>2, GraphInputAssumption
<1> QED BY <1>1, <1>3 DEF Given, ToSet

(* The edges of nodes are those of the first one and of the others.           *)
LEMMA EdgesOfFirst ==
  ASSUME NEW ns \in Seq(InputNode), ns # <<>>
  PROVE  /\ NumEdges(ns) \in Nat /\ NumEdges(Tail(ns)) \in Nat
         /\ NumEdges(ns) = Len(Head(ns).node.edges) + NumEdges(Tail(ns))
<1> DEFINE n == Len(ns) - 1
           f == [i \in DOMAIN ns |-> Len(ns[i].node.edges)]
           g == [i \in DOMAIN Tail(ns) |-> Len(Tail(ns)[i].node.edges)]
<1>1. /\ n \in Nat /\ DOMAIN ns = 1 .. n + 1 /\ DOMAIN Tail(ns) = 1 .. n
      /\ Head(ns) = ns[1] /\ \A i \in 1 .. n : Tail(ns)[i] = ns[i + 1]
  <2>1. Len(ns) \in Nat /\ DOMAIN ns = 1 .. Len(ns) /\ Len(ns) # 0
    BY ElementsOfSeq, EmptySeq
  <2>2. Tail(ns) \in Seq(InputNode) /\ Len(Tail(ns)) = Len(ns) - 1
    OBVIOUS
  <2>3. DOMAIN Tail(ns) = 1 .. Len(Tail(ns))
    BY <2>2, ElementsOfSeq
  <2> QED BY <2>1, <2>2, <2>3
<1>2. \A i \in DOMAIN ns : Len(ns[i].node.edges) \in Nat
  <2>1. \A i \in DOMAIN ns : ns[i].node.edges \in Seq(Key)
    <3>1. \A i \in DOMAIN ns : ns[i] \in InputNode
      BY ElementsOfSeq
    <3> QED BY <3>1 DEF InputNode
  <2> QED BY <2>1, ElementsOfSeq
<1>3. /\ f \in [1 .. n + 1 -> Nat] /\ g \in [1 .. n -> Nat]
      /\ \A i \in 1 .. n : g[i] = f[i + 1]
  BY <1>1, <1>2
<1>4. f[1] = Len(Head(ns).node.edges) /\ f[1] \in Nat
  BY <1>1, <1>2
<1>5. /\ NumEdges(ns) = SumFunctionOnSet(f, 1 .. n + 1)
      /\ NumEdges(Tail(ns)) = SumFunctionOnSet(g, 1 .. n)
  BY <1>1 DEF NumEdges
<1> HIDE DEF n, f, g
<1>6. /\ SumFunctionOnSet(g, 1 .. n) \in Nat
      /\ SumFunctionOnSet(f, 1 .. n + 1) = f[1] + SumFunctionOnSet(g, 1 .. n)
  BY <1>1, <1>3, SumOfTail
<1> QED BY <1>4, <1>5, <1>6

LEMMA NoNodesNoEdges ==
  NumEdges(<<>>) = 0
<1> DEFINE f == [i \in DOMAIN <<>> |-> Len(<<>>[i].node.edges)]
<1>1. DOMAIN <<>> = {}
  OBVIOUS
<1>2. f \in [{} -> Nat]
  BY <1>1
<1> HIDE DEF f
<1>3. SumFunctionOnSet(f, {}) = 0
  BY <1>2, SumOfNone
<1> QED BY <1>1, <1>3 DEF NumEdges, f

LEMMA EdgesOfNodes ==
  ASSUME NEW ns \in Seq(InputNode)
  PROVE  NumEdges(ns) \in Nat
BY EdgesOfFirst, NoNodesNoEdges

(* A map that is ready knows the number of each of its ids.                   *)
LEMMA NumberOfId ==
  ASSUME MapInv, NEW m \in Map, Ready(m), NEW k, k \in KeysOf(m)
  PROVE  \E e \in contents[m] :
           e \in Element /\ e.key = k /\ Find(m, k) = e.value /\ e.value \in Nat
<1>1. PICK e \in contents[m] : e.key = k
  BY DEF KeysOf
<1>2. e \in Element
  BY DEF MapInv, MapTypes
<1>3. k \in Key /\ e.value \in Nat
  BY <1>1, <1>2 DEF Element
<1>4. Find(m, k) = e.value
  BY <1>1, <1>3, ReadyIsExact, FindExactly
<1> QED BY <1>1, <1>2, <1>3, <1>4

-----------------------------------------------------------------------------
(* Each step keeps the types, the numbers of the ids and the space for edges. *)
LEMMA BaseInit ==
  Init => BaseInv
<1> SUFFICES ASSUME Init PROVE BaseInv
  OBVIOUS
<1> USE DEF Init, MapInit
<1>1. MapInv
  <2>1. 0 \in Unsigned /\ 0 \in 0 .. WordBits
    <3>1. WordBits \in Nat /\ WordBits \in 0 .. WordBits
      BY HashAssumption
    <3>2. 2 ^ WordBits \in Nat \ {0}
      BY <3>1, PowersAssumption
    <3> QED BY <3>1, <3>2 DEF Unsigned
  <2>2. MapTypes
    BY <2>1 DEF MapTypes, DistinctKeys, Map
  <2> QED BY <2>2 DEF MapInv, ChoosingInv, FillingInv, OldInv, NewInv, Map
<1>2. GraphTypes
  BY DEF GraphTypes
<1>3. PhaseInv
  BY DEF PhaseInv
<1>4. IndexInv
  BY DEF IndexInv, Copying, HasNodes, Map
<1>5. SpaceInv
  BY DEF SpaceInv, HasNodes, Map
<1> QED BY <1>1, <1>2, <1>3, <1>4, <1>5 DEF BaseInv

LEMMA BaseStartGraph ==
  ASSUME BaseInv, StartGraph
  PROVE  BaseInv'
<1> DEFINE ids == IdsIn(input.base)
           n == Cardinality(ids)
           Elems(s) == [i \in DOMAIN s |-> [key |-> s[i], value |-> i - 1]]
<1>1. PICK s \in SetToSeqs(ids) : StartMap(Elems(s))
  BY DEF StartGraph
<1>2. /\ graphStatus = "none" /\ graphStatus' = "indexing"
      /\ firstUnusedIndex' = n /\ input' = input /\ nodes' = nodes
      /\ edgesStorage' = edgesStorage /\ edgesCapacity' = edgesCapacity
      /\ todo' = todo
  BY DEF StartGraph
<1>3. /\ GraphTypes /\ SpaceInv /\ IndexInv /\ input \in Inputs /\ MapInv
      /\ contents = [m \in Map |-> contents[m]]
  BY DEF BaseInv, GraphTypes, MapInv, MapTypes
<1>4. IsFiniteSet(ids) /\ ids \subseteq Key
  BY <1>3, InputOfGraph, IdsOfNodes
<1>5. PickNumBits(n) \in 1 .. WordBits
  BY <1>3, SizeAssumption
<1> HIDE DEF ids
<1>6. /\ s \in Seq(ids) /\ ToSet(s) = ids /\ Len(s) = n /\ n \in Nat
      /\ DOMAIN s = 1 .. n /\ \A i, j \in DOMAIN s : s[i] = s[j] => i = j
  BY <1>4, EnumerationOfSet
<1> HIDE DEF n
<1> DEFINE elems == Elems(s)
<1>7. \A i \in 1 .. n : s[i] \in Key
  BY <1>4, <1>6 DEF ToSet
<1>8. /\ DOMAIN elems = 1 .. n /\ elems \in Seq(Element) /\ Len(elems) = n
      /\ KeysOnce(elems)
      /\ \A i \in 1 .. n : elems[i].key = s[i] /\ elems[i].value = i - 1
  <2>1. /\ DOMAIN elems = 1 .. n
        /\ \A i \in 1 .. n : elems[i] = [key |-> s[i], value |-> i - 1]
    BY <1>6
  <2>2. elems = [i \in 1 .. n |-> elems[i]]
    BY <1>6
  <2> HIDE DEF elems
  <2>3. \A i \in 1 .. n : elems[i] \in Element
    BY <1>6, <1>7, <2>1 DEF Element
  <2>4. elems \in [1 .. n -> Element]
    BY <2>2, <2>3
  <2>5. elems \in Seq(Element)
    BY <1>6, <2>4, SeqDef
  <2>6. Len(elems) = n
    BY <1>6, <2>1, <2>5, LenProperties
  <2>7. KeysOnce(elems)
    BY <1>6, <2>1 DEF KeysOnce
  <2> QED BY <2>1, <2>5, <2>6, <2>7
<1>9. StartMap(elems)
  BY <1>1
<1> HIDE DEF elems
<1>10. MapInv'
  BY <1>3, <1>5, <1>8, <1>9, StartMapStep
<1>11. /\ mapStatus' = "choosing"
       /\ contents' = [contents EXCEPT !["old"] = ToSet(elems)]
  BY <1>9 DEF StartMap
<1>12. contents'["old"] = ToSet(elems) /\ contents'["new"] = contents["new"]
  BY <1>3, <1>11 DEF Map
<1>13. GraphTypes'
  BY <1>2, <1>3, <1>6 DEF GraphTypes
<1>14. PhaseInv'
  BY <1>2, <1>11 DEF PhaseInv
<1>15. /\ \A e \in ToSet(elems) : e.value < n
       /\ \A e, f \in ToSet(elems) : e.value = f.value => e = f
  BY <1>6, <1>8 DEF ToSet
<1>16. ids \subseteq KeysOf("old")'
  <2> SUFFICES ASSUME NEW k \in ids PROVE \E e \in ToSet(elems) : e.key = k
    BY <1>12 DEF KeysOf
  <2>1. PICK i \in 1 .. n : s[i] = k
    BY <1>6 DEF ToSet
  <2> QED BY <1>8, <2>1 DEF ToSet
<1>17. IndexInv'
  BY <1>2, <1>3, <1>12, <1>15, <1>16 DEF IndexInv, Copying, HasNodes, Map, ids
<1>18. SpaceInv'
  BY <1>2, <1>3 DEF SpaceInv, HasNodes
<1> QED BY <1>10, <1>13, <1>14, <1>17, <1>18 DEF BaseInv

LEMMA MissingNodesOf ==
  ASSUME NEW n \in Nat
  PROVE  /\ MissingNodes(n) \in Seq(NodeData) /\ Len(MissingNodes(n)) = n
         /\ DOMAIN MissingNodes(n) = 1 .. n
         /\ \A i \in 1 .. n : MissingNodes(n)[i] = MissingNode
<1> DEFINE q == MissingNodes(n)
<1>1. MissingNode \in NodeData
  BY DEF MissingNode, NodeData, EdgesBegin
<1>2. q \in [1 .. n -> NodeData] /\ \A i \in 1 .. n : q[i] = MissingNode
  BY <1>1 DEF MissingNodes
<1> HIDE DEF q
<1>3. q \in Seq(NodeData)
  BY <1>2, SeqDef
<1>4. Len(q) = n /\ DOMAIN q = 1 .. n
  BY <1>2, <1>3, LenProperties
<1> QED BY <1>2, <1>3, <1>4 DEF q

LEMMA BaseAllocateNodes ==
  ASSUME BaseInv, AllocateNodes
  PROVE  BaseInv'
<1>1. /\ graphStatus = "indexing" /\ mapStatus = "built"
      /\ nodes' = [nodes EXCEPT !["old"] = MissingNodes(firstUnusedIndex)]
      /\ edgesStorage' = [edgesStorage EXCEPT !["old"] = <<0>>]
      /\ edgesCapacity' = [edgesCapacity EXCEPT !["old"] = NumEdges(input.base) + 1]
      /\ todo' = input.base /\ graphStatus' = "linking"
      /\ UNCHANGED mapVars /\ input' = input
      /\ firstUnusedIndex' = firstUnusedIndex
  BY DEF AllocateNodes
<1>2. /\ GraphTypes /\ SpaceInv /\ IndexInv /\ input \in Inputs /\ MapInv
      /\ firstUnusedIndex \in Nat
  BY DEF BaseInv, GraphTypes
<1>3. MapInv' /\ mapStatus' = mapStatus /\ contents' = contents
  BY <1>1, <1>2, MapUnchanged DEF mapVars
<1>4. input.base \in Seq(InputNode)
  BY <1>2, InputOfGraph
<1>5. NumEdges(input.base) \in Nat
  BY <1>4, EdgesOfNodes
<1>6. /\ MissingNodes(firstUnusedIndex) \in Seq(NodeData)
      /\ Len(MissingNodes(firstUnusedIndex)) = firstUnusedIndex
  BY <1>2, MissingNodesOf
<1>7. GraphTypes'
  BY <1>1, <1>2, <1>4, <1>5, <1>6 DEF GraphTypes, Map
<1>8. PhaseInv'
  BY <1>1, <1>3 DEF PhaseInv
<1>9. /\ nodes'["old"] = MissingNodes(firstUnusedIndex)
      /\ edgesStorage'["old"] = <<0>> /\ edgesStorage'["new"] = edgesStorage["new"]
      /\ edgesCapacity'["old"] = NumEdges(input.base) + 1
      /\ edgesCapacity'["new"] = edgesCapacity["new"]
  BY <1>1, <1>2 DEF GraphTypes, Map
<1>10. KeysOf("old")' = KeysOf("old")
  BY <1>3 DEF KeysOf
<1>11. IndexInv'
  BY <1>1, <1>2, <1>3, <1>6, <1>9, <1>10 DEF IndexInv, Copying, HasNodes
<1>12. /\ Given' = input.base /\ Current' = "old"
       /\ Done' = Len(input.base) - Len(input.base)
  BY <1>1 DEF Given, Current, Done
<1>13. Len(input.base) \in Nat /\ \A i \in DOMAIN input.base : i \in Nat
  BY <1>4, ElementsOfSeq
<1>14. \A i \in DOMAIN todo' : todo'[i] = Given'[Done' + i]
  BY <1>1, <1>12, <1>13
<1>15. Len(<<0>>) = 1
  OBVIOUS
<1>16. NumEdges(todo)' = NumEdges(input.base)
  BY <1>1 DEF NumEdges
<1>17. Len(edgesStorage'[Current']) + NumEdges(todo)' = edgesCapacity'[Current']
  <2>1. Len(edgesStorage'["old"]) = 1
    BY <1>9, <1>15
  <2>2. PICK n \in Nat : edgesCapacity'["old"] = n + 1 /\ NumEdges(todo)' = n
    BY <1>5, <1>9, <1>16
  <2>3. Current' = "old"
    BY <1>12
  <2>4. Len(edgesStorage'[Current']) = 1 /\ edgesCapacity'[Current'] = n + 1
    BY <2>1, <2>2, <2>3
  <2> QED BY <2>2, <2>4
<1>18. Len(todo') <= Len(Given')
  BY <1>1, <1>12, <1>13
<1>19. SpaceInv'
  BY <1>1, <1>2, <1>9, <1>14, <1>17, <1>18 DEF SpaceInv, HasNodes
<1> QED BY <1>3, <1>7, <1>8, <1>11, <1>19 DEF BaseInv

LEMMA BaseFinishGraph ==
  ASSUME BaseInv, FinishGraph
  PROVE  BaseInv'
<1>1. /\ graphStatus \in {"linking", "relinking"} /\ todo = <<>>
      /\ graphStatus' = IF graphStatus = "linking" THEN "built" ELSE "ready"
      /\ UNCHANGED mapVars /\ input' = input
      /\ firstUnusedIndex' = firstUnusedIndex /\ nodes' = nodes
      /\ edgesStorage' = edgesStorage /\ edgesCapacity' = edgesCapacity
      /\ todo' = todo
  BY DEF FinishGraph
<1>2. GraphTypes /\ SpaceInv /\ IndexInv /\ PhaseInv /\ MapInv
  BY DEF BaseInv
<1>3. MapInv' /\ mapStatus' = mapStatus /\ contents' = contents
  BY <1>1, <1>2, MapUnchanged DEF mapVars
<1>4. GraphTypes'
  BY <1>1, <1>2 DEF GraphTypes
<1>5. PhaseInv'
  BY <1>1, <1>2, <1>3 DEF PhaseInv
<1>6. KeysOf("old")' = KeysOf("old") /\ KeysOf("new")' = KeysOf("new")
  BY <1>3 DEF KeysOf
<1>7. IndexInv'
  BY <1>1, <1>2, <1>3, <1>6 DEF IndexInv, Copying, HasNodes
<1>8. /\ Len(edgesStorage[Current]) + NumEdges(todo) = edgesCapacity[Current]
      /\ NumEdges(todo) = 0
  BY <1>1, <1>2, NoNodesNoEdges DEF SpaceInv
<1>9. Len(edgesStorage[Current]) \in Nat
  BY <1>2 DEF GraphTypes, Current, Map
<1>10. Len(edgesStorage[Current]) = edgesCapacity[Current]
  BY <1>8, <1>9
<1>11. SpaceInv'
  BY <1>1, <1>2, <1>10 DEF SpaceInv, HasNodes, Current
<1> QED BY <1>3, <1>4, <1>5, <1>7, <1>11 DEF BaseInv

LEMMA BaseMapStep ==
  ASSUME BaseInv, MapStep \/ UNCHANGED mapVars, UNCHANGED graphVars
  PROVE  BaseInv'
<1> USE DEF graphVars
<1>1. GraphTypes /\ SpaceInv /\ IndexInv /\ PhaseInv /\ MapInv
  BY DEF BaseInv
<1>2. MapInv' /\ contents' = contents
  BY <1>1, MapStepKeeps, MapUnchanged DEF mapVars
<1>3. GraphTypes'
  BY <1>1 DEF GraphTypes
<1>4. PhaseInv'
  <2>1. CASE MapStep
    BY <1>1, <2>1, MapStepKeeps DEF PhaseInv, GraphTypes
  <2>2. CASE UNCHANGED mapVars
    BY <1>1, <2>2 DEF PhaseInv, mapVars
  <2> QED BY <2>1, <2>2
<1>5. KeysOf("old")' = KeysOf("old") /\ KeysOf("new")' = KeysOf("new")
  BY <1>2 DEF KeysOf
<1>6. IndexInv'
  BY <1>1, <1>2, <1>5 DEF IndexInv, Copying, HasNodes
<1>7. Given' = Given /\ Done' = Done /\ Current' = Current
  BY DEF Given, Done, Current
<1>8. SpaceInv'
  BY <1>1, <1>7 DEF SpaceInv, HasNodes
<1> QED BY <1>2, <1>3, <1>4, <1>6, <1>8 DEF BaseInv

(* The node that is filled in next, where it lies, and its edges.             *)
LEMMA NextNode ==
  ASSUME BaseInv, graphStatus \in {"linking", "relinking"}, todo # <<>>
  PROVE  /\ Ready(Current) /\ Current \in Map /\ Head(todo) \in InputNode
         /\ Done \in Nat /\ Done + 1 \in DOMAIN Given
         /\ Head(todo) = Given[Done + 1]
         /\ \E e \in contents[Current] :
              e.key = Head(todo).id /\ e.value = Find(Current, Head(todo).id)
         /\ Find(Current, Head(todo).id) + 1 \in DOMAIN nodes[Current]
         /\ \A j \in DOMAIN Head(todo).node.edges :
              \E e \in contents[Current] :
                /\ e.key = Head(todo).node.edges[j]
                /\ e.value = Find(Current, Head(todo).node.edges[j])
                /\ e.value \in Nat
<1> DEFINE m == Current
           x == Head(todo)
<1>1. GraphTypes /\ SpaceInv /\ IndexInv /\ PhaseInv /\ MapInv
  BY DEF BaseInv
<1>2. m \in Map /\ Ready(m) /\ HasNodes(m)
  BY <1>1 DEF PhaseInv, Ready, Map, Current, HasNodes
<1>3. Given \in Seq(InputNode) /\ todo \in Seq(InputNode)
  BY <1>1, InputOfGraph DEF GraphTypes
<1>4. /\ Len(Given) \in Nat /\ DOMAIN Given = 1 .. Len(Given)
      /\ Len(todo) \in Nat /\ DOMAIN todo = 1 .. Len(todo)
  BY <1>3, ElementsOfSeq
<1>5. Len(todo) >= 1 /\ x = todo[1]
  BY <1>3, <1>4, EmptySeq
<1>6. Len(todo) <= Len(Given) /\ \A i \in DOMAIN todo : todo[i] = Given[Done + i]
  BY <1>1 DEF SpaceInv
<1>7. Done \in Nat /\ Done + 1 \in DOMAIN Given /\ x = Given[Done + 1]
  BY <1>4, <1>5, <1>6 DEF Done
<1>8. x \in InputNode
  BY <1>3, <1>7, ElementsOfSeq
<1>9. IdsIn(Given) \subseteq KeysOf(m)
  BY <1>1 DEF IndexInv, Given, Current, Copying
<1>10. /\ x.id \in KeysOf(m)
       /\ \A j \in DOMAIN x.node.edges : x.node.edges[j] \in KeysOf(m)
  BY <1>3, <1>7, <1>9, IdsOfNodes
<1>11. Len(nodes[m]) = firstUnusedIndex /\ \A e \in contents[m] : e.value < Len(nodes[m])
  BY <1>1 DEF IndexInv, Current, Copying, HasNodes
<1>12. DOMAIN nodes[m] = 1 .. Len(nodes[m])
  <2>1. nodes[m] \in Seq(NodeData)
    BY <1>1, <1>2 DEF GraphTypes
  <2> QED BY <2>1, ElementsOfSeq
<1> HIDE DEF m, x
<1>13. PICK e \in contents[m] : /\ e.key = x.id /\ Find(m, x.id) = e.value
                                /\ e.value \in Nat
  BY <1>1, <1>2, <1>10, NumberOfId
<1>14. Find(m, x.id) + 1 \in DOMAIN nodes[m]
  <2>1. firstUnusedIndex \in Nat
    BY <1>1 DEF GraphTypes
  <2> QED BY <1>11, <1>12, <1>13, <2>1
<1>15. \A j \in DOMAIN x.node.edges :
         \E f \in contents[m] :
            /\ f.key = x.node.edges[j] /\ f.value = Find(m, x.node.edges[j])
            /\ f.value \in Nat
  BY <1>1, <1>2, <1>10, NumberOfId
<1> QED BY <1>2, <1>7, <1>8, <1>13, <1>14, <1>15 DEF m, x

(* What FillNode writes.                                                      *)
NewData(m, x) ==
  [node |-> x.node.value,
   edges_begin |-> IF x.node.terminal THEN Terminal
     ELSE [kind |-> "edges", vec |-> m, at |-> Len(edgesStorage[m])]]
NewEdges(m, x) == [i \in DOMAIN x.node.edges |-> Find(m, x.node.edges[i])]

LEMMA WrittenNode ==
  ASSUME BaseInv, FillNode
  PROVE  LET m == Current
             x == Head(todo)
             at == Find(m, x.id) + 1
         IN /\ NewData(m, x) \in NodeData /\ NewEdges(m, x) \in Seq(Nat)
            /\ Len(NewEdges(m, x)) = Len(x.node.edges)
            /\ Len(x.node.edges) \in Nat
            /\ DOMAIN NewEdges(m, x) = 1 .. Len(x.node.edges)
            /\ nodes' = [nodes EXCEPT ![m] = [@ EXCEPT ![at] = NewData(m, x)]]
            /\ edgesStorage' =
                 [edgesStorage EXCEPT ![m] = edgesStorage[m] \o NewEdges(m, x)]
<1> DEFINE m == Current
           x == Head(todo)
           at == Find(m, x.id) + 1
           q == NewEdges(m, x)
<1>1. graphStatus \in {"linking", "relinking"} /\ todo # <<>>
  BY DEF FillNode
<1>2. /\ m \in Map /\ x \in InputNode
      /\ \A j \in DOMAIN x.node.edges : Find(m, x.node.edges[j]) \in Nat
  BY <1>1, NextNode
<1>3. edgesStorage[m] \in Seq(Nat)
  BY <1>2 DEF BaseInv, GraphTypes
<1>4. Len(edgesStorage[m]) \in Nat
  BY <1>3, ElementsOfSeq
<1>5. x.node.value \in Value /\ x.node.edges \in Seq(Key)
  BY <1>2 DEF InputNode
<1>6. NewData(m, x) \in NodeData
  BY <1>2, <1>4, <1>5 DEF NewData, NodeData, EdgesBegin
<1>7. Len(x.node.edges) \in Nat /\ DOMAIN x.node.edges = 1 .. Len(x.node.edges)
  BY <1>5, ElementsOfSeq
<1>8. q \in [1 .. Len(x.node.edges) -> Nat]
  BY <1>2, <1>7 DEF NewEdges
<1>9. /\ nodes' = [nodes EXCEPT ![m] = [@ EXCEPT ![at] = NewData(m, x)]]
      /\ edgesStorage' = [edgesStorage EXCEPT ![m] = edgesStorage[m] \o q]
  BY DEF FillNode, NewData, NewEdges
<1> HIDE DEF q
<1>10. q \in Seq(Nat)
  BY <1>7, <1>8, SeqDef
<1>11. Len(q) = Len(x.node.edges) /\ DOMAIN q = 1 .. Len(x.node.edges)
  BY <1>7, <1>8, <1>10, LenProperties
<1> QED BY <1>6, <1>7, <1>9, <1>10, <1>11 DEF q

LEMMA BaseFillNode ==
  ASSUME BaseInv, FillNode
  PROVE  BaseInv'
<1> DEFINE m == Current
           x == Head(todo)
           at == Find(m, x.id) + 1
           d == NewData(m, x)
           q == NewEdges(m, x)
<1>1. /\ graphStatus \in {"linking", "relinking"} /\ todo # <<>>
      /\ todo' = Tail(todo) /\ UNCHANGED mapVars /\ input' = input
      /\ graphStatus' = graphStatus /\ firstUnusedIndex' = firstUnusedIndex
      /\ edgesCapacity' = edgesCapacity
  BY DEF FillNode
<1>2. GraphTypes /\ SpaceInv /\ IndexInv /\ PhaseInv /\ MapInv
  BY DEF BaseInv
<1>3. MapInv' /\ mapStatus' = mapStatus /\ contents' = contents
  BY <1>1, <1>2, MapUnchanged DEF mapVars
<1>4. /\ d \in NodeData /\ q \in Seq(Nat) /\ Len(q) = Len(x.node.edges)
      /\ nodes' = [nodes EXCEPT ![m] = [@ EXCEPT ![at] = d]]
      /\ edgesStorage' = [edgesStorage EXCEPT ![m] = edgesStorage[m] \o q]
      /\ Len(x.node.edges) \in Nat
  BY WrittenNode
<1>5. /\ m \in Map /\ m = IF graphStatus = "linking" THEN "old" ELSE "new"
      /\ Given' = Given /\ Current' = Current /\ at \in DOMAIN nodes[m]
  BY <1>1, NextNode DEF Current, Map, Given
<1> HIDE DEF m, x, at, d, q
<1>6. /\ nodes \in [Map -> Seq(NodeData)] /\ edgesStorage \in [Map -> Seq(Nat)]
      /\ todo \in Seq(InputNode) /\ edgesCapacity \in [Map -> Nat]
  BY <1>2 DEF GraphTypes
<1>7. /\ [nodes[m] EXCEPT ![at] = d] \in Seq(NodeData)
      /\ Len([nodes[m] EXCEPT ![at] = d]) = Len(nodes[m])
  <2>1. nodes[m] \in Seq(NodeData)
    BY <1>5, <1>6
  <2>2. at \in 1 .. Len(nodes[m])
    BY <1>5, <2>1, ElementsOfSeq
  <2> QED BY <1>4, <2>1, <2>2, ExceptSeq
<1>8. /\ nodes' \in [Map -> Seq(NodeData)]
      /\ \A k \in Map : Len(nodes'[k]) = Len(nodes[k])
  BY <1>4, <1>5, <1>6, <1>7
<1>9. /\ edgesStorage[m] \o q \in Seq(Nat)
      /\ Len(edgesStorage[m] \o q) = Len(edgesStorage[m]) + Len(q)
      /\ Len(edgesStorage[m]) \in Nat
  <2>1. edgesStorage[m] \in Seq(Nat) /\ q \in Seq(Nat)
    BY <1>4, <1>5, <1>6
  <2> QED BY ONLY <2>1, Concatenation
<1>10. /\ edgesStorage' \in [Map -> Seq(Nat)]
       /\ edgesStorage'[m] = edgesStorage[m] \o q
       /\ \A k \in Map : k # m => edgesStorage'[k] = edgesStorage[k]
  BY <1>4, <1>5, <1>6, <1>9
<1>11. /\ Tail(todo) \in Seq(InputNode) /\ Len(Tail(todo)) = Len(todo) - 1
       /\ Len(todo) \in Nat /\ Len(todo) >= 1
       /\ \A i \in 1 .. Len(todo) - 1 : Tail(todo)[i] = todo[i + 1]
       /\ DOMAIN todo = 1 .. Len(todo) /\ DOMAIN Tail(todo) = 1 .. Len(todo) - 1
  <2>1. Len(todo) \in Nat /\ Len(todo) >= 1 /\ DOMAIN todo = 1 .. Len(todo)
    BY <1>1, <1>6, EmptySeq, ElementsOfSeq
  <2>2. Tail(todo) \in Seq(InputNode) /\ Len(Tail(todo)) = Len(todo) - 1
    BY <1>1, <1>6
  <2>3. DOMAIN Tail(todo) = 1 .. Len(Tail(todo))
    BY <2>2, ElementsOfSeq
  <2> QED BY <1>1, <1>6, <2>1, <2>2, <2>3
<1>12. GraphTypes'
  BY <1>1, <1>2, <1>8, <1>10, <1>11 DEF GraphTypes
<1>13. PhaseInv'
  BY <1>1, <1>2, <1>3 DEF PhaseInv
<1>14. KeysOf("old")' = KeysOf("old") /\ KeysOf("new")' = KeysOf("new")
  BY <1>3 DEF KeysOf
<1>15. Len(nodes'["old"]) = Len(nodes["old"]) /\ Len(nodes'["new"]) = Len(nodes["new"])
  BY <1>8 DEF Map
<1>16. IndexInv'
  BY <1>1, <1>2, <1>3, <1>14, <1>15 DEF IndexInv, Copying, HasNodes
<1>17. /\ Len(todo) <= Len(Given)
       /\ \A i \in DOMAIN todo : todo[i] = Given[Done + i]
       /\ Len(edgesStorage[m]) + NumEdges(todo) = edgesCapacity[m]
  BY <1>1, <1>2 DEF SpaceInv, m
<1>18. Len(Given) \in Nat /\ Done' = Done + 1 /\ Done \in Nat
  <2>1. Len(Given) \in Nat
    BY <1>2, InputOfGraph, ElementsOfSeq DEF GraphTypes
  <2> QED BY <1>1, <1>5, <1>11, <1>17, <2>1 DEF Done
<1>19. Len(todo') <= Len(Given)
  BY <1>1, <1>11, <1>17, <1>18
<1>20. ASSUME NEW i \in DOMAIN todo' PROVE todo'[i] = Given[Done' + i]
  <2>1. i \in 1 .. Len(todo) - 1
    BY <1>1, <1>11
  <2>2. i + 1 \in DOMAIN todo /\ Done + (i + 1) = Done' + i
    BY <1>11, <1>18, <2>1
  <2> QED BY <1>1, <1>11, <1>17, <2>1, <2>2
<1>21. /\ NumEdges(todo) = Len(x.node.edges) + NumEdges(Tail(todo))
       /\ NumEdges(Tail(todo)) \in Nat
  BY <1>1, <1>6, EdgesOfFirst DEF x
<1>22. NumEdges(todo)' = NumEdges(Tail(todo))
  BY <1>1 DEF NumEdges
<1>23. Len(edgesStorage'[m]) + NumEdges(todo)' = edgesCapacity'[m]
  BY <1>1, <1>4, <1>9, <1>10, <1>17, <1>21, <1>22
<1>24. /\ Len(edgesStorage[Current])' = Len(edgesStorage'[m])
       /\ edgesCapacity[Current]' = edgesCapacity'[m]
  BY <1>5 DEF m
<1>25. SpaceInv'
  <2>1. CASE graphStatus = "linking"
    BY <1>1, <1>2, <1>5, <1>10, <1>19, <1>20, <1>23, <1>24, <2>1
       DEF SpaceInv, HasNodes, Map
  <2>2. CASE graphStatus = "relinking"
    BY <1>1, <1>2, <1>5, <1>10, <1>19, <1>20, <1>23, <1>24, <2>2
       DEF SpaceInv, HasNodes, Map
  <2> QED BY <1>1, <2>1, <2>2
<1> QED BY <1>3, <1>12, <1>13, <1>16, <1>25 DEF BaseInv

LEMMA BaseStartCopy ==
  ASSUME BaseInv, StartCopy
  PROVE  BaseInv'
<1> DEFINE ids == UnknownIds
           n == Cardinality(ids)
           first == firstUnusedIndex
<1>1. PICK s \in SetToSeqs(ids) : StartExtension(Indexed(s, first))
  BY DEF StartCopy
<1>2. /\ graphStatus = "built" /\ graphStatus' = "extending"
      /\ firstUnusedIndex' = first + n /\ input' = input /\ nodes' = nodes
      /\ edgesStorage' = edgesStorage /\ edgesCapacity' = edgesCapacity
      /\ todo' = todo
  BY DEF StartCopy
<1>3. /\ GraphTypes /\ SpaceInv /\ IndexInv /\ MapInv /\ input \in Inputs
      /\ first \in Nat /\ contents \in [Map -> SUBSET Element]
      /\ mapStatus = "built"
  BY <1>2 DEF BaseInv, GraphTypes, MapInv, MapTypes, PhaseInv
<1>4. IsFiniteSet(ids) /\ ids \subseteq Key
  <2>1. IsFiniteSet(IdsIn(input.added)) /\ IdsIn(input.added) \subseteq Key
    BY <1>3, InputOfGraph, IdsOfNodes
  <2>2. ids \subseteq IdsIn(input.added)
    BY DEF UnknownIds
  <2> QED BY <2>1, <2>2, FS_Subset
<1>5. ASSUME NEW id \in Key
      PROVE  /\ \A e \in contents["old"] : e.key = id => Find("old", id) \in Nat
             /\ Find("old", id) # None => id \in KeysOf("old")
  <2>1. /\ \A e \in contents["old"] : e.key = id => Find("old", id) = e.value
        /\ (\A e \in contents["old"] : e.key # id) => Find("old", id) = None
    <3>1. Ready("old") /\ "old" \in Map
      BY <1>3 DEF Ready, Map
    <3> QED BY <1>3, <3>1, ReadyIsExact, FindExactly
  <2>2. \A e \in contents["old"] : e.value \in Nat
    BY <1>3 DEF Map, Element
  <2> QED BY <2>1, <2>2 DEF KeysOf
<1>6. \A id \in ids : \A e \in contents["old"] : e.key # id
  BY <1>4, <1>5, HashAssumption DEF UnknownIds
<1>7. \A id \in IdsIn(input.added) : id \in ids \/ id \in KeysOf("old")
  <2>1. IdsIn(input.added) \subseteq Key
    BY <1>3, InputOfGraph, IdsOfNodes
  <2> QED BY <1>5, <2>1 DEF UnknownIds
<1> HIDE DEF ids, first
<1>9. /\ s \in Seq(ids) /\ ToSet(s) = ids /\ Len(s) = n /\ n \in Nat
      /\ DOMAIN s = 1 .. n /\ \A i, j \in DOMAIN s : s[i] = s[j] => i = j
  BY <1>4, EnumerationOfSet
<1> HIDE DEF n
<1> DEFINE elems == Indexed(s, first)
<1>10. \A i \in 1 .. n : s[i] \in ids
  BY <1>9 DEF ToSet
<1>11. \A e \in elems : \E i \in 1 .. n : e = [key |-> s[i], value |-> first + i - 1]
  BY <1>9 DEF Indexed
<1>12. ASSUME NEW i \in 1 .. n
       PROVE  [key |-> s[i], value |-> first + i - 1] \in elems
  BY <1>9 DEF Indexed
<1>13. elems \in SUBSET Element
  <2> SUFFICES ASSUME NEW e \in elems PROVE e \in Element
    OBVIOUS
  <2>1. PICK i \in 1 .. n : e = [key |-> s[i], value |-> first + i - 1]
    BY <1>11
  <2>2. first + i - 1 \in Nat
    BY <1>3, <1>9
  <2> QED BY <1>4, <1>10, <2>1, <2>2 DEF Element
<1>14. IsFiniteSet(elems)
  <2> DEFINE f == [i \in 1 .. n |-> [key |-> s[i], value |-> first + i - 1]]
  <2>1. elems = {f[i] : i \in 1 .. n}
    BY <1>9 DEF Indexed
  <2>2. DOMAIN f = 1 .. n
    OBVIOUS
  <2> HIDE DEF f, elems
  <2>3. IsFiniteSet(1 .. n)
    BY <1>9, IntervalSize
  <2> QED BY <2>1, <2>2, <2>3, ImageIsFinite
<1> HIDE DEF elems
<1>15. ASSUME NEW e \in elems
       PROVE  e.key \in ids /\ e.value \in first .. first + n - 1
  <2>1. PICK i \in 1 .. n : e = [key |-> s[i], value |-> first + i - 1]
    BY <1>11
  <2>2. e.key = s[i] /\ e.value = first + i - 1
    BY <2>1
  <2> QED BY <1>3, <1>9, <1>10, <2>2
<1>16. ASSUME NEW e \in elems, NEW f \in elems
       PROVE  /\ e.key = f.key => e = f
              /\ e.value = f.value => e = f
  <2>1. PICK i \in 1 .. n : e = [key |-> s[i], value |-> first + i - 1]
    BY <1>11
  <2>2. PICK j \in 1 .. n : f = [key |-> s[j], value |-> first + j - 1]
    BY <1>11
  <2>3. /\ e.key = s[i] /\ e.value = first + i - 1
        /\ f.key = s[j] /\ f.value = first + j - 1
    BY <2>1, <2>2
  <2>4. e.key = f.key => i = j
    BY <1>9, <2>3
  <2>5. e.value = f.value => i = j
    BY <1>3, <1>9, <2>3
  <2> QED BY <2>1, <2>2, <2>4, <2>5
<1>17. MapInv'
  <2>1. DistinctKeys(elems)
    BY <1>16 DEF DistinctKeys
  <2>2. \A e \in elems, f \in contents["old"] : e.key # f.key
    BY <1>6, <1>15
  <2>3. StartExtension(elems)
    BY <1>1 DEF elems
  <2> QED BY <1>3, <1>13, <1>14, <2>1, <2>2, <2>3, StartExtensionStep
<1>18. /\ contents' = [contents EXCEPT !["new"] = contents["old"] \cup elems]
       /\ mapStatus' \in {"inserting", "extended"}
  BY <1>1 DEF StartExtension, elems
<1>19. /\ contents'["old"] = contents["old"]
       /\ contents'["new"] = contents["old"] \cup elems
  BY <1>3, <1>18 DEF Map
<1>20. GraphTypes'
  BY <1>2, <1>3, <1>9 DEF GraphTypes
<1>21. PhaseInv'
  BY <1>2, <1>18 DEF PhaseInv
<1>22. /\ Len(nodes["old"]) = first
       /\ \A e \in contents["old"] : e.value < first /\ e.value \in Nat
  BY <1>2, <1>3 DEF IndexInv, Map, Element, first
<1>23. \A e, f \in contents'["new"] : e.value = f.value => e = f
  <2> SUFFICES ASSUME NEW e \in contents["old"] \cup elems,
                      NEW f \in contents["old"] \cup elems, e.value = f.value
               PROVE  e = f
    BY <1>19
  <2>1. CASE e \in elems /\ f \in elems
    BY <1>16, <2>1
  <2>2. CASE e \in contents["old"] /\ f \in contents["old"]
    BY <1>3, <2>2 DEF IndexInv, Map
  <2>3. CASE e \in contents["old"] /\ f \in elems
    BY <1>3, <1>15, <1>22, <2>3
  <2>4. CASE e \in elems /\ f \in contents["old"]
    BY <1>3, <1>15, <1>22, <2>4
  <2> QED BY <2>1, <2>2, <2>3, <2>4
<1>24. KeysOf("old")' = KeysOf("old")
  BY <1>19 DEF KeysOf
<1>25. IdsIn(input.added) \subseteq KeysOf("new")'
  <2> SUFFICES ASSUME NEW k \in IdsIn(input.added)
               PROVE  \E e \in contents["old"] \cup elems : e.key = k
    BY <1>19 DEF KeysOf
  <2>1. CASE k \in KeysOf("old")
    BY <2>1 DEF KeysOf
  <2>2. CASE k \in ids
    <3>1. PICK i \in 1 .. n : s[i] = k
      BY <1>9, <2>2 DEF ToSet
    <3>2. [key |-> s[i], value |-> first + i - 1] \in elems
      BY <1>12
    <3> QED BY <3>1, <3>2
  <2> QED BY <1>7, <2>1, <2>2
<1>26. \A e \in contents'["new"] : e.value < first + n
  BY <1>3, <1>9, <1>15, <1>19, <1>22
<1>27. \A e \in contents'["new"] \ contents'["old"] : e.value >= first
  BY <1>3, <1>9, <1>15, <1>19
<1>28. \A e, f \in contents'["old"] : e.value = f.value => e = f
  BY <1>3, <1>19 DEF IndexInv, Map
<1>29. first <= first + n
  BY <1>3, <1>9
<1>30. IdsIn(input.base) \subseteq KeysOf("old")
  BY <1>2, <1>3 DEF IndexInv
<1>31. IndexInv'
  BY <1>2, <1>19, <1>22, <1>23, <1>24, <1>25, <1>26, <1>27, <1>28, <1>29, <1>30
     DEF IndexInv, Copying, HasNodes, Map
<1>32. SpaceInv'
  BY <1>2, <1>3 DEF SpaceInv, HasNodes
<1> QED BY <1>17, <1>20, <1>21, <1>31, <1>32 DEF BaseInv

LEMMA BaseCopyNodes ==
  ASSUME BaseInv, CopyNodes
  PROVE  BaseInv'
<1> DEFINE more == MissingNodes(firstUnusedIndex - Len(nodes["old"]))
<1>1. /\ graphStatus = "extending" /\ mapStatus = "extended"
      /\ nodes' = [nodes EXCEPT !["new"] = nodes["old"] \o more]
      /\ edgesStorage' = [edgesStorage EXCEPT !["new"] = <<0>>]
      /\ edgesCapacity' = [edgesCapacity EXCEPT !["new"] = NumEdges(input.added) + 1]
      /\ todo' = input.added /\ graphStatus' = "relinking"
      /\ UNCHANGED mapVars /\ input' = input
      /\ firstUnusedIndex' = firstUnusedIndex
  BY DEF CopyNodes
<1>2. /\ GraphTypes /\ SpaceInv /\ IndexInv /\ input \in Inputs /\ MapInv
      /\ firstUnusedIndex \in Nat /\ nodes["old"] \in Seq(NodeData)
  BY DEF BaseInv, GraphTypes, Map
<1>3. MapInv' /\ mapStatus' = mapStatus /\ contents' = contents
  BY <1>1, <1>2, MapUnchanged DEF mapVars
<1>4. input.added \in Seq(InputNode)
  BY <1>2, InputOfGraph
<1>5. NumEdges(input.added) \in Nat
  BY <1>4, EdgesOfNodes
<1>6. Len(nodes["old"]) <= firstUnusedIndex /\ Len(nodes["old"]) \in Nat
  BY <1>1, <1>2, ElementsOfSeq DEF IndexInv, Copying
<1>7. more \in Seq(NodeData) /\ Len(more) = firstUnusedIndex - Len(nodes["old"])
  <2>1. firstUnusedIndex - Len(nodes["old"]) \in Nat
    BY <1>2, <1>6
  <2> QED BY <2>1, MissingNodesOf
<1> HIDE DEF more
<1>8. /\ nodes["old"] \o more \in Seq(NodeData)
      /\ Len(nodes["old"] \o more) = firstUnusedIndex
  <2>1. /\ nodes["old"] \o more \in Seq(NodeData)
        /\ Len(nodes["old"] \o more) = Len(nodes["old"]) + Len(more)
    BY <1>2, <1>7, Concatenation
  <2> QED BY <1>2, <1>6, <1>7, <2>1
<1>9. GraphTypes'
  BY <1>1, <1>2, <1>4, <1>5, <1>8 DEF GraphTypes, Map
<1>10. PhaseInv'
  BY <1>1, <1>3 DEF PhaseInv
<1>11. /\ nodes'["new"] = nodes["old"] \o more /\ nodes'["old"] = nodes["old"]
       /\ edgesStorage'["new"] = <<0>> /\ edgesStorage'["old"] = edgesStorage["old"]
       /\ edgesCapacity'["new"] = NumEdges(input.added) + 1
       /\ edgesCapacity'["old"] = edgesCapacity["old"]
  BY <1>1, <1>2 DEF GraphTypes, Map
<1>12. KeysOf("old")' = KeysOf("old") /\ KeysOf("new")' = KeysOf("new")
  BY <1>3 DEF KeysOf
<1>13. IndexInv'
  BY <1>1, <1>2, <1>3, <1>8, <1>11, <1>12 DEF IndexInv, Copying, HasNodes
<1>14. /\ Given' = input.added /\ Current' = "new"
       /\ Done' = Len(input.added) - Len(input.added)
  BY <1>1 DEF Given, Current, Done
<1>15. Len(input.added) \in Nat /\ \A i \in DOMAIN input.added : i \in Nat
  BY <1>4, ElementsOfSeq
<1>16. \A i \in DOMAIN todo' : todo'[i] = Given'[Done' + i]
  BY <1>1, <1>14, <1>15
<1>17. Len(<<0>>) = 1
  OBVIOUS
<1>18. NumEdges(todo)' = NumEdges(input.added)
  BY <1>1 DEF NumEdges
<1>19. Len(edgesStorage'[Current']) + NumEdges(todo)' = edgesCapacity'[Current']
  <2>1. Len(edgesStorage'["new"]) = 1
    BY <1>11, <1>17
  <2>2. PICK n \in Nat : edgesCapacity'["new"] = n + 1 /\ NumEdges(todo)' = n
    BY <1>5, <1>11, <1>18
  <2>3. Current' = "new"
    BY <1>14
  <2>4. Len(edgesStorage'[Current']) = 1 /\ edgesCapacity'[Current'] = n + 1
    BY <2>1, <2>2, <2>3
  <2> QED BY <2>2, <2>4
<1>20. Len(todo') <= Len(Given')
  BY <1>1, <1>14, <1>15
<1>21. SpaceInv'
  BY <1>1, <1>2, <1>11, <1>16, <1>19, <1>20 DEF SpaceInv, HasNodes
<1> QED BY <1>3, <1>9, <1>10, <1>13, <1>21 DEF BaseInv

(* An id that the map of the injector finds has a node in its vector.         *)
LEMMA NodeOfId ==
  ASSUME BaseInv, graphStatus = "ready", NEW id \in Key, Find("new", id) # None
  PROVE  /\ Find("new", id) + 1 \in DOMAIN nodes["new"]
         /\ \E e \in contents["new"] : e.key = id /\ e.value = Find("new", id)
         /\ Find("new", id) \in Nat
<1>1. Ready("new") /\ "new" \in Map /\ MapInv
  BY DEF BaseInv, PhaseInv, Ready, Map
<1>2. PICK e \in contents["new"] : e.key = id /\ Find("new", id) = e.value
  BY <1>1, ReadyIsExact, FindExactly
<1>3. e \in Element
  BY <1>1 DEF MapInv, MapTypes
<1>4. /\ e.value < firstUnusedIndex /\ Len(nodes["new"]) = firstUnusedIndex
      /\ e.value \in Nat /\ firstUnusedIndex \in Nat
  BY <1>3 DEF BaseInv, IndexInv, Copying, HasNodes, Element, GraphTypes
<1>5. DOMAIN nodes["new"] = 1 .. Len(nodes["new"])
  <2>1. nodes["new"] \in Seq(NodeData)
    BY <1>1 DEF BaseInv, GraphTypes
  <2> QED BY <2>1, ElementsOfSeq
<1> QED BY <1>2, <1>4, <1>5

LEMMA BaseSetTerminal ==
  ASSUME BaseInv, NEW id \in Key, SetTerminal(id)
  PROVE  BaseInv'
<1> DEFINE at == Find("new", id) + 1
           d == [edges_begin |-> Terminal, node |-> "object"]
<1>1. /\ graphStatus = "ready" /\ Find("new", id) # None
      /\ nodes' = [nodes EXCEPT !["new"] = [@ EXCEPT ![at] = d]]
      /\ UNCHANGED mapVars /\ input' = input
      /\ graphStatus' = graphStatus /\ firstUnusedIndex' = firstUnusedIndex
      /\ edgesStorage' = edgesStorage /\ edgesCapacity' = edgesCapacity
      /\ todo' = todo
  BY DEF SetTerminal, IsNode
<1>2. GraphTypes /\ SpaceInv /\ IndexInv /\ PhaseInv /\ MapInv
  BY DEF BaseInv
<1>3. MapInv' /\ mapStatus' = mapStatus /\ contents' = contents
  BY <1>1, <1>2, MapUnchanged DEF mapVars
<1>4. nodes \in [Map -> Seq(NodeData)] /\ "new" \in Map
  BY <1>2 DEF GraphTypes, Map
<1>5. at \in DOMAIN nodes["new"]
  BY <1>1, NodeOfId
<1>6. d \in NodeData
  BY DEF NodeData, EdgesBegin
<1> HIDE DEF at, d
<1>7. /\ [nodes["new"] EXCEPT ![at] = d] \in Seq(NodeData)
      /\ Len([nodes["new"] EXCEPT ![at] = d]) = Len(nodes["new"])
  <2>1. nodes["new"] \in Seq(NodeData)
    BY <1>4
  <2>2. at \in 1 .. Len(nodes["new"])
    BY <1>5, <2>1, ElementsOfSeq
  <2> QED BY <1>6, <2>1, <2>2, ExceptSeq
<1>8. /\ nodes' \in [Map -> Seq(NodeData)]
      /\ Len(nodes'["old"]) = Len(nodes["old"])
      /\ Len(nodes'["new"]) = Len(nodes["new"])
  BY <1>1, <1>4, <1>7 DEF Map
<1>9. GraphTypes'
  BY <1>1, <1>2, <1>8 DEF GraphTypes
<1>10. PhaseInv'
  BY <1>1, <1>2, <1>3 DEF PhaseInv
<1>11. KeysOf("old")' = KeysOf("old") /\ KeysOf("new")' = KeysOf("new")
  BY <1>3 DEF KeysOf
<1>12. IndexInv'
  BY <1>1, <1>2, <1>3, <1>8, <1>11 DEF IndexInv, Copying, HasNodes
<1>13. SpaceInv'
  BY <1>1, <1>2 DEF SpaceInv, HasNodes
<1> QED BY <1>3, <1>9, <1>10, <1>12, <1>13 DEF BaseInv

LEMMA BaseNext ==
  BaseInv /\ [Next]_vars => BaseInv'
<1> SUFFICES ASSUME BaseInv, [Next]_vars PROVE BaseInv'
  OBVIOUS
<1>1. CASE StartGraph
  BY <1>1, BaseStartGraph
<1>2. CASE AllocateNodes
  BY <1>2, BaseAllocateNodes
<1>3. CASE FillNode
  BY <1>3, BaseFillNode
<1>4. CASE FinishGraph
  BY <1>4, BaseFinishGraph
<1>5. CASE StartCopy
  BY <1>5, BaseStartCopy
<1>6. CASE CopyNodes
  BY <1>6, BaseCopyNodes
<1>7. ASSUME NEW id \in Key, SetTerminal(id) PROVE BaseInv'
  BY <1>7, BaseSetTerminal
<1>8. CASE MapStep /\ UNCHANGED graphVars
  BY <1>8, BaseMapStep
<1>9. CASE UNCHANGED vars
  BY <1>9, BaseMapStep DEF vars
<1> QED BY <1>1, <1>2, <1>3, <1>4, <1>5, <1>6, <1>7, <1>8, <1>9
        DEF Next, Terminated

LEMMA BaseAlways ==
  Spec => []BaseInv
<1> QED BY BaseInit, BaseNext, PTL DEF Spec

(* For every hash function and all bindings: SemistaticMap::find returns the   *)
(* value of a key that the map was given, and nullptr for any other, whatever  *)
(* multiplier was drawn, in the map of the normalized component and in the    *)
(* map of an injector that shares its buckets, also while that one is built.  *)
THEOREM FindTheorem ==
  Spec => []FindIsExact
<1>1. BaseInv => FindIsExact
  BY MapInvImplies DEF BaseInv
<1> QED BY <1>1, BaseAlways, PTL

(* The vectors without bounds checks are as large as they have to be: the      *)
(* push_backs to edges_storage by the two constructors of SemistaticGraph and  *)
(* those to values by insert() fit, and at the end no space is left.          *)
THEOREM StorageTheorem ==
  Spec => []StorageIsExact
<1>1. BaseInv => StorageIsExact
  <2> SUFFICES ASSUME BaseInv PROVE StorageIsExact
    OBVIOUS
  <2>1. GraphTypes /\ SpaceInv /\ MapInv
    BY DEF BaseInv
  <2>2. \A m \in Map : Len(edgesStorage[m]) \in Nat /\ edgesCapacity[m] \in Nat
    BY <2>1 DEF GraphTypes
  <2>3. NumEdges(todo) \in Nat
    BY <2>1, EdgesOfNodes DEF GraphTypes
  <2>4. Len(<<>>) = 0
    OBVIOUS
  <2>5. EdgesFit
    <3>1. CASE graphStatus \in {"none", "indexing"}
      BY <2>1, <2>4, <3>1 DEF SpaceInv, EdgesFit, HasNodes, Map
    <3>2. CASE graphStatus \in {"linking", "relinking"}
      <4>1. Len(edgesStorage[Current]) <= edgesCapacity[Current]
        <5>1. Current \in Map
          BY DEF Current, Map
        <5> QED BY <2>1, <2>2, <2>3, <3>2, <5>1 DEF SpaceInv
      <4> QED BY <2>1, <2>2, <2>4, <3>2, <4>1
              DEF SpaceInv, EdgesFit, HasNodes, Map, Current
    <3>3. CASE graphStatus \in {"built", "extending", "ready"}
      BY <2>1, <2>2, <2>4, <3>3 DEF SpaceInv, EdgesFit, HasNodes, Map
    <3> QED BY <2>1, <3>1, <3>2, <3>3 DEF GraphTypes
  <2>6. SpaceIsExact
    BY <2>1, MapInvImplies
  <2> QED BY <2>5, <2>6 DEF StorageIsExact
<1> QED BY <1>1, BaseAlways, PTL

-----------------------------------------------------------------------------
(* The edges of a node are in one of the vectors of edges, and are numbers of  *)
(* ids in the map that belongs to that vector.                                *)
EdgesOK(m, data) ==
  data.edges_begin.kind = "edges" =>
    /\ data.edges_begin.vec \in {"old", m} /\ data.node \in Value
    /\ data.edges_begin.at + Arity[data.node]
         <= Len(edgesStorage[data.edges_begin.vec])
    /\ \A i \in 1 .. Arity[data.node] :
         edgesStorage[data.edges_begin.vec][data.edges_begin.at + i]
           \in ValuesOf(data.edges_begin.vec)
NodesInv ==
  \A m \in Map : HasNodes(m) =>
    \A i \in DOMAIN nodes[m] : EdgesOK(m, nodes[m][i])

(* While nodes are filled in, a client of the graph would see the last node    *)
(* so far that was given for an id, and otherwise what was there before.      *)
NodesFor(id) == {i \in 1 .. Done : Given[i].id = id}
Before(e) == IF graphStatus = "linking" \/ e \notin contents["old"] THEN None
             ELSE Seen("old", e.value)
FilledInv ==
  graphStatus \in {"linking", "relinking"} =>
    \A e \in contents[Current] :
      /\ \A i \in NodesFor(e.key) :
           (\A j \in NodesFor(e.key) : j <= i) =>
             Seen(Current, e.value) = Given[i].node
      /\ NodesFor(e.key) = {} => Seen(Current, e.value) = Before(e)

(* The graph of the normalized component is what it was made from.            *)
BuiltInv ==
  graphStatus \in {"built", "extending", "relinking", "ready"} =>
    Graph("old") = Abstract!NodesOf(input.base, NoGraph)

(* The inductive invariant of the graphs.                                     *)
GraphInv == BaseInv /\ NodesInv /\ FilledInv /\ BuiltInv

-----------------------------------------------------------------------------
(* What a client sees of a node.                                              *)
LEMMA KindsOfData ==
  ASSUME NEW d \in NodeData
  PROVE  /\ d.edges_begin.kind \in {"missing", "terminal", "edges"}
         /\ d.edges_begin.kind = "missing" => d.edges_begin = Missing
         /\ d.edges_begin.kind = "terminal" => d.edges_begin = Terminal
         /\ d.edges_begin.kind = "edges" =>
              d.edges_begin.vec \in Map /\ d.edges_begin.at \in Nat
BY DEF NodeData, EdgesBegin, Missing, Terminal

LEMMA SeenNode ==
  ASSUME NEW m, NEW v, NEW d, d = nodes[m][v + 1]
  PROVE  /\ d.edges_begin.kind = "missing" => Seen(m, v) = None
         /\ d.edges_begin.kind = "terminal" =>
              Seen(m, v) = [value |-> d.node, terminal |-> TRUE, edges |-> <<>>]
         /\ d.edges_begin.kind = "edges" =>
              Seen(m, v) = [value |-> d.node, terminal |-> FALSE,
                            edges |-> Neighbors(m, d)]
BY DEF Seen

LEMMA SeenNodeNext ==
  ASSUME NEW m, NEW v, NEW d, d = nodes'[m][v + 1]
  PROVE  /\ d.edges_begin.kind = "missing" => Seen(m, v)' = None
         /\ d.edges_begin.kind = "terminal" =>
              Seen(m, v)' = [value |-> d.node, terminal |-> TRUE, edges |-> <<>>]
         /\ d.edges_begin.kind = "edges" =>
              Seen(m, v)' = [value |-> d.node, terminal |-> FALSE,
                             edges |-> Neighbors(m, d)']
BY DEF Seen

LEMMA IdOfNumber ==
  ASSUME IndexInv, NEW m \in Map, NEW e \in contents[m]
  PROVE  IdAt(m, e.value) = e.key
BY DEF IndexInv, IdAt

LEMMA IdOfNumberNext ==
  ASSUME IndexInv', NEW m \in Map, NEW e \in contents'[m]
  PROVE  IdAt(m, e.value)' = e.key
BY DEF IndexInv, IdAt

LEMMA SeenKept ==
  ASSUME NEW m, NEW v, NEW d \in NodeData, d = nodes[m][v + 1],
         nodes'[m][v + 1] = d, contents'[m] = contents[m],
         d.edges_begin.kind = "edges" =>
           \A i \in 1 .. Arity[d.node] :
             edgesStorage'[d.edges_begin.vec][d.edges_begin.at + i]
               = edgesStorage[d.edges_begin.vec][d.edges_begin.at + i]
  PROVE  Seen(m, v)' = Seen(m, v)
<1>1. d.edges_begin.kind = "edges" => Neighbors(m, d)' = Neighbors(m, d)
  <2> SUFFICES ASSUME d.edges_begin.kind = "edges"
               PROVE  Neighbors(m, d)' = Neighbors(m, d)
    OBVIOUS
  <2> DEFINE IdIn(S, u) == (CHOOSE e \in S : e.value = u).key
             w == d.edges_begin.vec
             at == d.edges_begin.at
  <2>1. Neighbors(m, d) = [i \in 1 .. Arity[d.node] |->
                             IdIn(contents[m], edgesStorage[w][at + i])]
    BY DEF Neighbors, IdAt
  <2>2. Neighbors(m, d)' = [i \in 1 .. Arity[d.node] |->
                              IdIn(contents'[m], edgesStorage'[w][at + i])]
    BY DEF Neighbors, IdAt
  <2> HIDE DEF IdIn
  <2> QED BY <2>1, <2>2
<1>2. d.edges_begin.kind \in {"missing", "terminal", "edges"}
  BY KindsOfData
<1>3. /\ d.edges_begin.kind = "missing" => Seen(m, v) = None
      /\ d.edges_begin.kind = "terminal" =>
           Seen(m, v) = [value |-> d.node, terminal |-> TRUE, edges |-> <<>>]
      /\ d.edges_begin.kind = "edges" =>
           Seen(m, v) = [value |-> d.node, terminal |-> FALSE,
                         edges |-> Neighbors(m, d)]
  BY ONLY d = nodes[m][v + 1], SeenNode
<1>4. /\ d.edges_begin.kind = "missing" => Seen(m, v)' = None
      /\ d.edges_begin.kind = "terminal" =>
           Seen(m, v)' = [value |-> d.node, terminal |-> TRUE, edges |-> <<>>]
      /\ d.edges_begin.kind = "edges" =>
           Seen(m, v)' = [value |-> d.node, terminal |-> FALSE,
                          edges |-> Neighbors(m, d)']
  BY ONLY nodes'[m][v + 1] = d, SeenNodeNext
<1> QED BY ONLY <1>1, <1>2, <1>3, <1>4

(* Edges are only added.                                                      *)
EdgesGrow ==
  \A k \in Map : /\ Len(edgesStorage[k]) <= Len(edgesStorage'[k])
                 /\ \A p \in 1 .. Len(edgesStorage[k]) :
                      edgesStorage'[k][p] = edgesStorage[k][p]

LEMMA EdgesKept ==
  ASSUME GraphTypes, GraphTypes', EdgesGrow, NEW m \in Map, NEW d \in NodeData,
         EdgesOK(m, d), contents' = contents
  PROVE  /\ EdgesOK(m, d)'
         /\ d.edges_begin.kind = "edges" =>
              \A i \in 1 .. Arity[d.node] :
                edgesStorage'[d.edges_begin.vec][d.edges_begin.at + i]
                  = edgesStorage[d.edges_begin.vec][d.edges_begin.at + i]
<1> SUFFICES ASSUME d.edges_begin.kind = "edges"
             PROVE  /\ EdgesOK(m, d)'
                    /\ \A i \in 1 .. Arity[d.node] :
                         edgesStorage'[d.edges_begin.vec][d.edges_begin.at + i]
                           = edgesStorage[d.edges_begin.vec][d.edges_begin.at + i]
  BY DEF EdgesOK
<1> DEFINE w == d.edges_begin.vec
           at == d.edges_begin.at
           n == Arity[d.node]
<1>1. /\ w \in {"old", m} /\ d.node \in Value
      /\ at + n <= Len(edgesStorage[w])
      /\ \A i \in 1 .. n : edgesStorage[w][at + i] \in ValuesOf(w)
  BY DEF EdgesOK
<1>2. w \in Map /\ at \in Nat /\ n \in Nat
  BY <1>1, KindsOfData, GraphInputAssumption
<1>3. Len(edgesStorage[w]) \in Nat /\ Len(edgesStorage'[w]) \in Nat
  <2>1. edgesStorage[w] \in Seq(Nat) /\ edgesStorage'[w] \in Seq(Nat)
    BY <1>2 DEF GraphTypes
  <2> QED BY <2>1, ElementsOfSeq
<1>4. /\ Len(edgesStorage[w]) <= Len(edgesStorage'[w])
      /\ \A p \in 1 .. Len(edgesStorage[w]) : edgesStorage'[w][p] = edgesStorage[w][p]
  BY <1>2 DEF EdgesGrow
<1> HIDE DEF w, at, n
<1>5. \A i \in 1 .. n : edgesStorage'[w][at + i] = edgesStorage[w][at + i]
  BY <1>1, <1>2, <1>3, <1>4
<1>6. at + n <= Len(edgesStorage'[w])
  BY <1>1, <1>2, <1>3, <1>4
<1>7. ValuesOf(w)' = ValuesOf(w)
  BY DEF ValuesOf
<1>8. \A i \in 1 .. n : edgesStorage'[w][at + i] \in ValuesOf(w)'
  BY <1>1, <1>5, <1>7
<1> QED BY <1>1, <1>5, <1>6, <1>8 DEF EdgesOK, w, at, n

(* A graph whose map is ready, in terms of the numbers of the ids.            *)
Shows(m) ==
  \A id \in Key :
    /\ \A e \in contents[m] : e.key = id => Graph(m)[id] = Seen(m, e.value)
    /\ (\A e \in contents[m] : e.key # id) => Graph(m)[id] = None
ReadyShows == BaseInv => \A m \in Map : Ready(m) => Shows(m)

LEMMA GraphShows ==
  ReadyShows
<1> SUFFICES ASSUME BaseInv, NEW m \in Map, Ready(m), NEW id \in Key
             PROVE  /\ \A e \in contents[m] :
                         e.key = id => Graph(m)[id] = Seen(m, e.value)
                    /\ (\A e \in contents[m] : e.key # id) => Graph(m)[id] = None
  BY DEF ReadyShows, Shows
<1>1. /\ \A e \in contents[m] : e.key = id => Find(m, id) = e.value
      /\ (\A e \in contents[m] : e.key # id) => Find(m, id) = None
  BY ReadyIsExact, FindExactly DEF BaseInv
<1>2. \A e \in contents[m] : e.value # None
  <2>1. \A e \in contents[m] : e.value \in Nat
    BY DEF BaseInv, MapInv, MapTypes, Element
  <2> QED BY <2>1, HashAssumption
<1>3. Graph(m)[id] = IF Find(m, id) = None THEN None ELSE Seen(m, Find(m, id))
  BY DEF Graph
<1> QED BY <1>1, <1>2, <1>3

LEMMA GraphShowsNext ==
  ReadyShows'
BY GraphShows, PTL

(* The last node for each id.                                                 *)
NodesWith(given, id) == {i \in 1 .. Len(given) : given[i].id = id}
HasLastNodes(g, given, otherwise) ==
  \A id \in Key :
    /\ \A i \in NodesWith(given, id) :
         (\A j \in NodesWith(given, id) : j <= i) => g[id] = given[i].node
    /\ NodesWith(given, id) = {} => g[id] = otherwise[id]

LEMMA LastNodes ==
  ASSUME NEW given, given \in Seq(InputNode), NEW otherwise, NEW g,
         HasLastNodes(g, given, otherwise)
  PROVE  \A id \in Key : g[id] = Abstract!NodesOf(given, otherwise)[id]
<1> USE DEF HasLastNodes
<1>1. DOMAIN given = 1 .. Len(given) /\ Len(given) \in Nat
  BY ElementsOfSeq
<1>2. ASSUME NEW id \in Key
      PROVE  g[id] = Abstract!NodesOf(given, otherwise)[id]
  <2> DEFINE at == {i \in DOMAIN given : given[i].id = id}
             last == CHOOSE i \in at : \A j \in at : j <= i
  <2>1. at = NodesWith(given, id)
    BY <1>1 DEF NodesWith
  <2>2. Abstract!NodesOf(given, otherwise)[id]
          = IF at = {} THEN otherwise[id] ELSE given[last].node
    BY DEF Abstract!NodesOf
  <2>3. CASE at = {}
    BY <2>1, <2>2, <2>3
  <2>4. CASE at # {}
    <3>1. at \in SUBSET Int /\ IsFiniteSet(at)
      <4>1. IsFiniteSet(1 .. Len(given)) /\ at \subseteq 1 .. Len(given)
        BY <1>1, IntervalSize
      <4> HIDE DEF at
      <4>2. IsFiniteSet(at)
        BY <4>1, FS_Subset
      <4> QED BY <4>1, <4>2
    <3> HIDE DEF at
    <3>2. Max(at) \in at /\ \A y \in at : Max(at) >= y
      BY <2>4, <3>1, LeastAndGreatest
    <3>3. \A j \in at : j <= Max(at)
      BY <3>1, <3>2
    <3>4. last \in at /\ \A j \in at : j <= last
      BY <3>2, <3>3
    <3> QED BY <2>1, <2>2, <2>4, <3>4
  <2> QED BY <2>3, <2>4
<1> QED BY <1>2

LEMMA DataOfNumber ==
  ASSUME BaseInv, NEW m \in Map, HasNodes(m), NEW e \in contents[m]
  PROVE  /\ e.value \in Nat /\ e.value + 1 \in DOMAIN nodes[m]
         /\ nodes[m][e.value + 1] \in NodeData
<1>1. e.value \in Nat /\ nodes[m] \in Seq(NodeData) /\ firstUnusedIndex \in Nat
  BY DEF BaseInv, MapInv, MapTypes, Element, GraphTypes
<1>2. e.value < Len(nodes[m])
  BY DEF BaseInv, IndexInv, HasNodes, Copying, Map
<1>3. DOMAIN nodes[m] = 1 .. Len(nodes[m]) /\ Len(nodes[m]) \in Nat
  BY <1>1, ElementsOfSeq
<1>4. e.value + 1 \in DOMAIN nodes[m]
  BY <1>1, <1>2, <1>3
<1> QED BY <1>1, <1>4, ElementsOfSeq

(* Whatever does not touch the vectors of the old graph leaves it as it is.   *)
LEMMA OldGraphKept ==
  ASSUME BaseInv, BaseInv', NodesInv,
         graphStatus \in {"built", "extending", "relinking", "ready"},
         graphStatus' \in {"built", "extending", "relinking", "ready"},
         contents'["old"] = contents["old"], nodes'["old"] = nodes["old"],
         edgesStorage'["old"] = edgesStorage["old"]
  PROVE  /\ Graph("old")' = Graph("old")
         /\ \A e \in contents["old"] :
              Seen("old", e.value)' = Seen("old", e.value)
<1>1. "old" \in Map /\ HasNodes("old")
  BY DEF Map, HasNodes
<1>2. ASSUME NEW e \in contents["old"]
      PROVE  Seen("old", e.value)' = Seen("old", e.value)
  <2> DEFINE d == nodes["old"][e.value + 1]
  <2>1. d \in NodeData /\ e.value + 1 \in DOMAIN nodes["old"]
    BY <1>1, DataOfNumber
  <2>2. EdgesOK("old", d)
    BY <1>1, <2>1 DEF NodesInv
  <2>3. d.edges_begin.kind = "edges" => d.edges_begin.vec = "old"
    BY <2>2 DEF EdgesOK
  <2>4. nodes'["old"][e.value + 1] = d /\ d = nodes["old"][e.value + 1]
    OBVIOUS
  <2> HIDE DEF d
  <2> QED BY <2>1, <2>3, <2>4, SeenKept
<1>3. Ready("old") /\ Ready("old")'
  BY DEF BaseInv, PhaseInv, Ready
<1>4. Shows("old") /\ Shows("old")'
  BY <1>1, <1>3, GraphShows, GraphShowsNext DEF ReadyShows
<1>5. ASSUME NEW id \in Key PROVE Graph("old")'[id] = Graph("old")[id]
  <2>1. CASE \E e \in contents["old"] : e.key = id
    <3>1. PICK e \in contents["old"] : e.key = id
      BY <2>1
    <3>2. Graph("old")[id] = Seen("old", e.value)
      BY <1>4, <3>1 DEF Shows
    <3>3. Graph("old")'[id] = Seen("old", e.value)'
      BY <1>4, <3>1 DEF Shows
    <3> QED BY <1>2, <3>2, <3>3
  <2>2. CASE \A e \in contents["old"] : e.key # id
    <3>1. Graph("old")[id] = None
      BY <1>4, <2>2 DEF Shows
    <3>2. Graph("old")'[id] = None
      BY <1>4, <2>2 DEF Shows
    <3> QED BY <3>1, <3>2
  <2> QED BY <2>1, <2>2
<1>6. /\ Graph("old") = [id \in Key |-> Graph("old")[id]]
      /\ Graph("old")' = [id \in Key |-> Graph("old")'[id]]
  BY DEF Graph
<1> QED BY <1>2, <1>5, <1>6

LEMMA BuiltKept ==
  ASSUME BaseInv, BaseInv', NodesInv, BuiltInv, input' = input,
         graphStatus \in {"built", "extending", "relinking", "ready"},
         graphStatus' \in {"built", "extending", "relinking", "ready"},
         contents'["old"] = contents["old"], nodes'["old"] = nodes["old"],
         edgesStorage'["old"] = edgesStorage["old"]
  PROVE  BuiltInv'
<1>1. Graph("old")' = Graph("old")
  BY OldGraphKept
<1>2. Graph("old") = Abstract!NodesOf(input.base, NoGraph)
  BY DEF BuiltInv
<1>3. Abstract!NodesOf(input.base, NoGraph)' = Abstract!NodesOf(input.base, NoGraph)
  BY DEF Abstract!NodesOf, NoGraph
<1> QED BY <1>1, <1>2, <1>3 DEF BuiltInv

LEMMA GraphInit ==
  Init => GraphInv
<1> SUFFICES ASSUME Init PROVE GraphInv
  OBVIOUS
<1>1. graphStatus = "none"
  BY DEF Init
<1> QED BY <1>1, BaseInit DEF GraphInv, NodesInv, HasNodes, FilledInv, BuiltInv

LEMMA GraphStartGraph ==
  ASSUME GraphInv, StartGraph
  PROVE  GraphInv'
<1>1. graphStatus' = "indexing"
  BY DEF StartGraph
<1>2. BaseInv'
  BY BaseStartGraph DEF GraphInv
<1> QED BY <1>1, <1>2 DEF GraphInv, NodesInv, HasNodes, FilledInv, BuiltInv

LEMMA GraphMapStep ==
  ASSUME GraphInv, MapStep \/ UNCHANGED mapVars, UNCHANGED graphVars
  PROVE  GraphInv'
<1> USE DEF graphVars
<1>1. BaseInv /\ BaseInv' /\ NodesInv /\ FilledInv /\ BuiltInv
  BY BaseMapStep DEF GraphInv
<1>2. contents' = contents
  BY <1>1, MapStepKeeps DEF mapVars, BaseInv
<1>3. \A m, v : Seen(m, v)' = Seen(m, v)
  BY <1>2 DEF Seen, Neighbors, IdAt
<1>4. NodesInv'
  <2>1. \A m, d : EdgesOK(m, d)' = EdgesOK(m, d)
    BY <1>2 DEF EdgesOK, ValuesOf
  <2>2. \A m : HasNodes(m)' = HasNodes(m)
    BY DEF HasNodes
  <2> QED BY <1>1, <1>2, <2>1, <2>2 DEF NodesInv, EdgesOK, ValuesOf
<1>5. FilledInv'
  <2>1. Given' = Given /\ Current' = Current /\ \A id : NodesFor(id)' = NodesFor(id)
    BY DEF Given, Current, Done, NodesFor
  <2>2. \A e : Before(e)' = Before(e)
    BY <1>2, <1>3 DEF Before
  <2> QED BY <1>1, <1>2, <1>3, <2>1, <2>2
          DEF FilledInv, Current, NodesFor, Given, Done
<1>6. BuiltInv'
  <2>1. CASE graphStatus \in {"built", "extending", "relinking", "ready"}
    BY <1>1, <1>2, <2>1, BuiltKept
  <2>2. CASE graphStatus \notin {"built", "extending", "relinking", "ready"}
    BY <2>2 DEF BuiltInv
  <2> QED BY <2>1, <2>2
<1> QED BY <1>1, <1>4, <1>5, <1>6 DEF GraphInv

LEMMA GraphStartCopy ==
  ASSUME GraphInv, StartCopy
  PROVE  GraphInv'
<1>1. BaseInv /\ BaseInv' /\ NodesInv /\ BuiltInv
  BY BaseStartCopy DEF GraphInv
<1>2. /\ graphStatus = "built" /\ graphStatus' = "extending" /\ input' = input
      /\ nodes' = nodes /\ edgesStorage' = edgesStorage
  BY DEF StartCopy
<1>3. contents'["old"] = contents["old"]
  BY <1>1 DEF StartCopy, StartExtension, BaseInv, MapInv, MapTypes, Map
<1>4. NodesInv'
  <2> SUFFICES ASSUME NEW i \in DOMAIN nodes["old"]
               PROVE  EdgesOK("old", nodes["old"][i])'
    BY <1>2 DEF NodesInv, HasNodes
  <2>1. EdgesOK("old", nodes["old"][i])
    BY <1>1, <1>2 DEF NodesInv, HasNodes, Map
  <2>2. ValuesOf("old")' = ValuesOf("old")
    BY <1>3 DEF ValuesOf
  <2>3. nodes["old"][i].edges_begin.kind = "edges" =>
          nodes["old"][i].edges_begin.vec = "old"
    BY <2>1 DEF EdgesOK
  <2> QED BY <1>2, <2>1, <2>2, <2>3 DEF EdgesOK
<1>5. BuiltInv'
  BY <1>1, <1>2, <1>3, BuiltKept
<1> QED BY <1>1, <1>2, <1>4, <1>5 DEF GraphInv, FilledInv

LEMMA GraphAllocateNodes ==
  ASSUME GraphInv, AllocateNodes
  PROVE  GraphInv'
<1>1. BaseInv /\ BaseInv'
  BY BaseAllocateNodes DEF GraphInv
<1>2. /\ graphStatus' = "linking" /\ todo' = input.base /\ input' = input
      /\ contents' = contents
      /\ nodes' = [nodes EXCEPT !["old"] = MissingNodes(firstUnusedIndex)]
  BY DEF AllocateNodes, mapVars
<1>3. firstUnusedIndex \in Nat /\ nodes \in [Map -> Seq(NodeData)]
  BY <1>1 DEF BaseInv, GraphTypes
<1>4. nodes'["old"] = MissingNodes(firstUnusedIndex)
  BY <1>2, <1>3 DEF Map
<1>5. \A i \in DOMAIN nodes'["old"] : nodes'["old"][i] = MissingNode
  BY <1>3, <1>4, MissingNodesOf
<1>6. MissingNode.edges_begin.kind = "missing"
  BY DEF MissingNode, Missing
<1>7. NodesInv'
  <2> SUFFICES ASSUME NEW i \in DOMAIN nodes'["old"]
               PROVE  EdgesOK("old", nodes["old"][i])'
    BY <1>2 DEF NodesInv, HasNodes
  <2> QED BY <1>5, <1>6 DEF EdgesOK
<1>8. FilledInv'
  <2>1. Current' = "old" /\ Given' = input.base /\ Done' = 0
    <3>1. Len(input.base) \in Nat
      BY <1>1, InputOfGraph, ElementsOfSeq DEF BaseInv, GraphTypes
    <3> QED BY <1>2, <3>1 DEF Current, Given, Done
  <2> SUFFICES ASSUME NEW e \in contents["old"]
               PROVE  NodesFor(e.key)' = {} /\ Seen("old", e.value)' = None
    BY <1>2, <2>1 DEF FilledInv, Before, Current
  <2>2. NodesFor(e.key)' = {}
    BY <2>1 DEF NodesFor
  <2>3. e.value + 1 \in DOMAIN nodes'["old"]
    <3>1. e.value \in Nat /\ e.value < firstUnusedIndex
      BY <1>1 DEF BaseInv, IndexInv, AllocateNodes, MapInv, MapTypes, Map, Element
    <3>2. DOMAIN nodes'["old"] = 1 .. firstUnusedIndex
      BY <1>3, <1>4, MissingNodesOf
    <3> QED BY <1>3, <3>1, <3>2
  <2>4. MissingNode = nodes'["old"][e.value + 1]
    BY <1>5, <2>3
  <2>5. Seen("old", e.value)' = None
    BY <1>6, <2>4, SeenNodeNext
  <2> QED BY <2>2, <2>5
<1> QED BY <1>1, <1>2, <1>7, <1>8 DEF GraphInv, BuiltInv

LEMMA GraphCopyNodes ==
  ASSUME GraphInv, CopyNodes
  PROVE  GraphInv'
<1> DEFINE old == nodes["old"]
           more == MissingNodes(firstUnusedIndex - Len(old))
<1>1. BaseInv /\ BaseInv' /\ NodesInv /\ BuiltInv
  BY BaseCopyNodes DEF GraphInv
<1>2. /\ graphStatus = "extending" /\ graphStatus' = "relinking"
      /\ todo' = input.added /\ input' = input /\ contents' = contents
      /\ nodes' = [nodes EXCEPT !["new"] = old \o more]
      /\ edgesStorage' = [edgesStorage EXCEPT !["new"] = <<0>>]
  BY DEF CopyNodes, mapVars
<1>3. /\ firstUnusedIndex \in Nat /\ nodes \in [Map -> Seq(NodeData)]
      /\ edgesStorage \in [Map -> Seq(Nat)] /\ old \in Seq(NodeData)
      /\ IndexInv /\ IndexInv' /\ GraphTypes /\ GraphTypes'
      /\ contents \in [Map -> SUBSET Element]
  BY <1>1 DEF BaseInv, GraphTypes, Map, MapInv, MapTypes
<1>4. /\ contents["old"] \subseteq contents["new"]
      /\ \A e \in contents["old"] : e.value < Len(old)
      /\ \A e \in contents["new"] : e.value < firstUnusedIndex
      /\ \A e \in contents["new"] \ contents["old"] : e.value >= Len(old)
      /\ Len(old) <= firstUnusedIndex
  BY <1>2, <1>3 DEF IndexInv, Copying
<1>5. Len(old) \in Nat /\ DOMAIN old = 1 .. Len(old) /\ \A i \in DOMAIN old : old[i] \in NodeData
  BY <1>3, ElementsOfSeq
<1>6. /\ more \in Seq(NodeData) /\ Len(more) = firstUnusedIndex - Len(old)
      /\ \A i \in 1 .. firstUnusedIndex - Len(old) : more[i] = MissingNode
  <2>1. firstUnusedIndex - Len(old) \in Nat
    BY <1>3, <1>4, <1>5
  <2> QED BY <2>1, MissingNodesOf
<1>7. nodes'["new"] = old \o more /\ nodes'["old"] = old
  BY <1>2, <1>3 DEF Map
<1> HIDE DEF old, more
<1>8. /\ DOMAIN nodes'["new"] = 1 .. firstUnusedIndex
      /\ \A i \in 1 .. Len(old) : nodes'["new"][i] = old[i]
      /\ \A i \in 1 .. firstUnusedIndex - Len(old) :
           nodes'["new"][i + Len(old)] = MissingNode
  <2>1. /\ DOMAIN (old \o more) = 1 .. Len(old) + Len(more)
        /\ \A i \in 1 .. Len(old) : (old \o more)[i] = old[i]
        /\ \A i \in 1 .. Len(more) : (old \o more)[i + Len(old)] = more[i]
    BY <1>3, <1>6, Concatenation
  <2>2. Len(old) + Len(more) = firstUnusedIndex
    BY <1>3, <1>5, <1>6
  <2> QED BY <1>6, <1>7, <2>1, <2>2
<1>9. \A i \in 1 .. firstUnusedIndex : i > Len(old) => nodes'["new"][i] = MissingNode
  <2> SUFFICES ASSUME NEW i \in 1 .. firstUnusedIndex, i > Len(old)
               PROVE  nodes'["new"][i] = MissingNode
    OBVIOUS
  <2>1. i - Len(old) \in 1 .. firstUnusedIndex - Len(old) /\ (i - Len(old)) + Len(old) = i
    BY <1>3, <1>5
  <2> QED BY <1>8, <2>1
<1>10. EdgesGrow
  <2>1. edgesStorage["new"] = <<>>
    BY <1>1, <1>2 DEF BaseInv, SpaceInv, HasNodes
  <2>2. edgesStorage'["old"] = edgesStorage["old"] /\ edgesStorage'["new"] = <<0>>
    BY <1>2, <1>3 DEF Map
  <2>3. Len(edgesStorage["new"]) = 0 /\ Len(edgesStorage'["new"]) = 1
    BY <2>1, <2>2
  <2>4. Len(edgesStorage["old"]) \in Nat
    BY <1>3, ElementsOfSeq DEF Map
  <2> QED BY <2>2, <2>3, <2>4 DEF EdgesGrow, Map
<1>11. ASSUME NEW i \in DOMAIN old
       PROVE  EdgesOK("old", old[i])
  BY <1>1, <1>2 DEF NodesInv, HasNodes, Map, old
<1>12. ASSUME NEW i \in DOMAIN old
       PROVE  EdgesOK("old", old[i])'
  <2>1. \A d \in NodeData : EdgesOK("old", d) => EdgesOK("old", d)'
    BY <1>2, <1>3, <1>10, EdgesKept DEF Map
  <2>2. PICK d \in NodeData : d = old[i]
    BY <1>5
  <2>3. EdgesOK("old", d)'
    BY <1>11, <2>1, <2>2
  <2>4. old' = old
    BY <1>7 DEF old
  <2> QED BY <2>2, <2>3, <2>4 DEF EdgesOK
<1>13. MissingNode.edges_begin.kind = "missing" /\ MissingNode \in NodeData
  BY DEF MissingNode, Missing, NodeData, EdgesBegin
<1>14. NodesInv'
  <2>1. \A i \in DOMAIN old : EdgesOK("old", nodes["old"][i])'
    BY <1>12, <1>7 DEF EdgesOK, old
  <2>2. ASSUME NEW i \in 1 .. firstUnusedIndex
        PROVE  EdgesOK("new", nodes["new"][i])'
    <3>1. CASE i <= Len(old)
      <4>1. i \in DOMAIN old /\ nodes'["new"][i] = nodes'["old"][i]
        BY <1>5, <1>7, <1>8, <3>1
      <4>2. EdgesOK("old", nodes["old"][i])'
        BY <2>1, <4>1
      <4> QED BY <4>1, <4>2 DEF EdgesOK
    <3>2. CASE i > Len(old)
      BY <1>9, <1>13, <3>2 DEF EdgesOK
    <3> QED BY <1>3, <1>5, <3>1, <3>2
  <2> QED BY <1>7, <1>8, <2>1, <2>2 DEF NodesInv, Map
<1>15. ASSUME NEW e \in contents["new"]
       PROVE  NodesFor(e.key)' = {} /\ Seen("new", e.value)' = Before(e)'
  <2>1. Given' = input.added /\ Done' = 0
    <3>1. Len(input.added) \in Nat
      BY <1>1, InputOfGraph, ElementsOfSeq DEF BaseInv, GraphTypes
    <3> QED BY <1>2, <3>1 DEF Given, Done
  <2>2. NodesFor(e.key)' = {}
    BY <2>1 DEF NodesFor
  <2>3. e.value \in Nat
    BY <1>3 DEF Map, Element
  <2>4. CASE e \notin contents["old"]
    <3>1. e.value + 1 \in 1 .. firstUnusedIndex /\ e.value + 1 > Len(old)
      BY <1>3, <1>4, <1>5, <2>3, <2>4
    <3>2. MissingNode = nodes'["new"][e.value + 1]
      BY <1>9, <3>1
    <3>3. Seen("new", e.value)' = None
      BY <1>13, <3>2, SeenNodeNext
    <3>4. Before(e)' = None
      BY <1>2, <2>4 DEF Before
    <3> QED BY <2>2, <3>3, <3>4
  <2>5. CASE e \in contents["old"]
    <3>1. e.value + 1 \in 1 .. Len(old)
      BY <1>4, <1>5, <2>3, <2>5
    <3>2. PICK d \in NodeData : d = nodes'["old"][e.value + 1]
      BY <1>5, <1>7, <3>1
    <3>3. d = nodes'["new"][e.value + 1]
      BY <1>7, <1>8, <3>1, <3>2
    <3>4. EdgesOK("old", d)'
      <4>1. e.value + 1 \in DOMAIN old
        BY <1>5, <3>1
      <4>2. PICK i \in DOMAIN old : i = e.value + 1
        BY <4>1
      <4>3. EdgesOK("old", nodes["old"][i])'
        BY <1>2, <1>7, <1>14 DEF NodesInv, HasNodes, Map, old
      <4> QED BY <3>2, <4>2, <4>3 DEF EdgesOK
    <3>5. d.edges_begin.kind = "edges" => Neighbors("new", d)' = Neighbors("old", d)'
      <4> SUFFICES ASSUME d.edges_begin.kind = "edges"
                   PROVE  Neighbors("new", d)' = Neighbors("old", d)'
        OBVIOUS
      <4> DEFINE w == d.edges_begin.vec
                 at == d.edges_begin.at
                 IdIn(S, u) == (CHOOSE f \in S : f.value = u).key
      <4>1. /\ w = "old"
            /\ \A i \in 1 .. Arity[d.node] :
                 edgesStorage'[w][at + i] \in ValuesOf("old")'
        BY <3>4 DEF EdgesOK
      <4>2. ASSUME NEW i \in 1 .. Arity[d.node]
            PROVE  IdIn(contents'["new"], edgesStorage'[w][at + i])
                     = IdIn(contents'["old"], edgesStorage'[w][at + i])
        <5>1. PICK f \in contents'["old"] : f.value = edgesStorage'[w][at + i]
          BY <4>1 DEF ValuesOf
        <5>2. f \in contents'["new"]
          BY <1>2, <1>4, <5>1
        <5>3. IdIn(contents'["old"], f.value) = f.key
          BY <1>3, IdOfNumberNext DEF IdAt, Map
        <5>4. IdIn(contents'["new"], f.value) = f.key
          BY <1>3, <5>2, IdOfNumberNext DEF IdAt, Map
        <5> HIDE DEF IdIn
        <5> QED BY <5>1, <5>3, <5>4
      <4>3. Neighbors("new", d)' = [i \in 1 .. Arity[d.node] |->
                                      IdIn(contents'["new"], edgesStorage'[w][at + i])]
        BY DEF Neighbors, IdAt
      <4>4. Neighbors("old", d)' = [i \in 1 .. Arity[d.node] |->
                                      IdIn(contents'["old"], edgesStorage'[w][at + i])]
        BY DEF Neighbors, IdAt
      <4> HIDE DEF IdIn
      <4> QED BY <4>2, <4>3, <4>4
    <3>6. Seen("new", e.value)' = Seen("old", e.value)'
      <4>1. d.edges_begin.kind \in {"missing", "terminal", "edges"}
        BY KindsOfData
      <4>2. /\ d.edges_begin.kind = "missing" => Seen("new", e.value)' = None
            /\ d.edges_begin.kind = "terminal" =>
                 Seen("new", e.value)'
                   = [value |-> d.node, terminal |-> TRUE, edges |-> <<>>]
            /\ d.edges_begin.kind = "edges" =>
                 Seen("new", e.value)' = [value |-> d.node, terminal |-> FALSE,
                                          edges |-> Neighbors("new", d)']
        BY ONLY <3>3, SeenNodeNext
      <4>3. /\ d.edges_begin.kind = "missing" => Seen("old", e.value)' = None
            /\ d.edges_begin.kind = "terminal" =>
                 Seen("old", e.value)'
                   = [value |-> d.node, terminal |-> TRUE, edges |-> <<>>]
            /\ d.edges_begin.kind = "edges" =>
                 Seen("old", e.value)' = [value |-> d.node, terminal |-> FALSE,
                                          edges |-> Neighbors("old", d)']
        BY ONLY <3>2, SeenNodeNext
      <4> QED BY ONLY <3>5, <4>1, <4>2, <4>3
    <3>7. Before(e)' = Seen("old", e.value)'
      BY <1>2, <2>5 DEF Before
    <3> QED BY <2>2, <3>6, <3>7
  <2> QED BY <2>4, <2>5
<1>16. FilledInv'
  <2>1. Current' = "new"
    BY <1>2 DEF Current
  <2> QED BY <1>2, <1>15, <2>1 DEF FilledInv, Current
<1>17. BuiltInv'
  <2>1. edgesStorage'["old"] = edgesStorage["old"]
    BY <1>2, <1>3 DEF Map
  <2>2. nodes'["old"] = nodes["old"]
    BY <1>7 DEF old
  <2> QED BY <1>1, <1>2, <2>1, <2>2, BuiltKept
<1> QED BY <1>1, <1>14, <1>16, <1>17 DEF GraphInv

LEMMA GraphFillNode ==
  ASSUME GraphInv, FillNode
  PROVE  GraphInv'
<1>1. /\ BaseInv /\ BaseInv' /\ NodesInv /\ FilledInv /\ BuiltInv
      /\ GraphTypes /\ GraphTypes' /\ IndexInv /\ IndexInv'
      /\ contents \in [Map -> SUBSET Element]
  BY BaseFillNode DEF GraphInv, BaseInv, MapInv, MapTypes
<1>2. /\ graphStatus \in {"linking", "relinking"} /\ todo # <<>>
      /\ todo' = Tail(todo) /\ contents' = contents /\ input' = input
      /\ graphStatus' = graphStatus
  BY DEF FillNode, mapVars
<1>3. PICK m \in Map : m = Current
  BY DEF Current, Map
<1>4. PICK x \in InputNode : x = Head(todo)
  BY <1>1, <1>2, NextNode
<1>5. PICK at : at = Find(m, x.id) + 1
  OBVIOUS
<1>6. PICK d \in NodeData : d = NewData(m, x)
  BY <1>1, <1>3, <1>4, WrittenNode
<1>7. PICK q \in Seq(Nat) : q = NewEdges(m, x)
  BY <1>1, <1>3, <1>4, WrittenNode
<1>8. /\ nodes' = [nodes EXCEPT ![m] = [@ EXCEPT ![at] = d]]
      /\ edgesStorage' = [edgesStorage EXCEPT ![m] = edgesStorage[m] \o q]
      /\ Len(q) = Len(x.node.edges) /\ Len(x.node.edges) \in Nat
      /\ DOMAIN q = 1 .. Len(x.node.edges)
  BY <1>1, <1>3, <1>4, <1>5, <1>6, <1>7, WrittenNode
<1>9. /\ Done \in Nat /\ Done + 1 \in DOMAIN Given /\ x = Given[Done + 1]
      /\ at \in DOMAIN nodes[m]
      /\ \E e \in contents[m] : e.key = x.id /\ e.value = Find(m, x.id)
      /\ \A j \in DOMAIN x.node.edges :
           \E e \in contents[m] : e.key = x.node.edges[j] /\ e.value = q[j]
  <2>1. \A j \in DOMAIN x.node.edges : q[j] = Find(m, x.node.edges[j])
    BY <1>7 DEF NewEdges
  <2> QED BY <1>1, <1>2, <1>3, <1>4, <1>5, <2>1, NextNode
<1>10. /\ Given' = Given /\ Current' = Current /\ Done' = Done + 1
       /\ HasNodes(m) /\ \A k : HasNodes(k)' = HasNodes(k)
  <2>1. Given' = Given /\ Current' = Current
    BY <1>2 DEF Given, Current
  <2>2. Len(Tail(todo)) = Len(todo) - 1 /\ Len(todo) \in Nat
    BY <1>1, <1>2 DEF GraphTypes
  <2>3. Len(Given) \in Nat
    BY <1>1, InputOfGraph, ElementsOfSeq DEF GraphTypes
  <2> QED BY <1>2, <1>3, <2>1, <2>2, <2>3 DEF Done, HasNodes, Current
<1>11. /\ nodes \in [Map -> Seq(NodeData)] /\ edgesStorage \in [Map -> Seq(Nat)]
       /\ nodes[m] \in Seq(NodeData) /\ edgesStorage[m] \in Seq(Nat)
       /\ DOMAIN nodes[m] = 1 .. Len(nodes[m])
  <2>1. /\ nodes \in [Map -> Seq(NodeData)] /\ edgesStorage \in [Map -> Seq(Nat)]
        /\ nodes[m] \in Seq(NodeData) /\ edgesStorage[m] \in Seq(Nat)
    BY <1>1 DEF GraphTypes
  <2> QED BY <2>1, ElementsOfSeq
<1>12. /\ DOMAIN nodes'[m] = DOMAIN nodes[m] /\ nodes'[m][at] = d
       /\ \A i \in DOMAIN nodes[m] : i # at => nodes'[m][i] = nodes[m][i]
       /\ \A k \in Map : k # m => nodes'[k] = nodes[k]
  <2>1. nodes'[m] = [nodes[m] EXCEPT ![at] = d]
    BY <1>8, <1>11
  <2>2. \A k \in Map : k # m => nodes'[k] = nodes[k]
    BY <1>8, <1>11
  <2>3. DOMAIN nodes'[m] = DOMAIN nodes[m]
    BY <2>1
  <2>4. nodes'[m][at] = d
    BY <1>9, <2>1
  <2> QED BY <2>1, <2>2, <2>3, <2>4
<1>13. /\ edgesStorage'[m] = edgesStorage[m] \o q
       /\ Len(edgesStorage[m]) \in Nat
       /\ Len(edgesStorage'[m]) = Len(edgesStorage[m]) + Len(q)
       /\ \A p \in 1 .. Len(edgesStorage[m]) : edgesStorage'[m][p] = edgesStorage[m][p]
       /\ \A p \in 1 .. Len(q) : edgesStorage'[m][p + Len(edgesStorage[m])] = q[p]
       /\ \A k \in Map : k # m => edgesStorage'[k] = edgesStorage[k]
  <2>1. /\ edgesStorage'[m] = edgesStorage[m] \o q
        /\ \A k \in Map : k # m => edgesStorage'[k] = edgesStorage[k]
    BY <1>8, <1>11
  <2>2. PICK s \in Seq(Nat) : s = edgesStorage[m]
    BY <1>11
  <2>3. /\ Len(s) \in Nat /\ Len(s \o q) = Len(s) + Len(q)
        /\ \A p \in 1 .. Len(s) : (s \o q)[p] = s[p]
        /\ \A p \in 1 .. Len(q) : (s \o q)[p + Len(s)] = q[p]
    BY ONLY s \in Seq(Nat), q \in Seq(Nat), Concatenation
  <2> QED BY <2>1, <2>2, <2>3
<1>14. EdgesGrow
  <2>1. \A k \in Map : Len(edgesStorage[k]) \in Nat
    BY <1>11
  <2>2. Len(q) \in Nat
    BY <1>8
  <2> QED BY <1>13, <2>1, <2>2 DEF EdgesGrow
<1>15. ASSUME NEW k \in Map, NEW i \in DOMAIN nodes[k], HasNodes(k)
       PROVE  /\ nodes[k][i] \in NodeData /\ EdgesOK(k, nodes[k][i])
  <2>1. nodes[k] \in Seq(NodeData)
    BY <1>11
  <2> QED BY <1>1, <1>15, <2>1, ElementsOfSeq DEF NodesInv
(* The new node.                                                              *)
<1>16. /\ d.node = x.node.value /\ x.node.value \in Value
       /\ x.node.terminal \in BOOLEAN /\ x.node.edges \in Seq(Key)
       /\ x.node = [value |-> x.node.value, terminal |-> x.node.terminal,
                    edges |-> x.node.edges]
       /\ x.node.terminal => d.edges_begin.kind = "terminal"
       /\ ~x.node.terminal => /\ d.edges_begin.kind = "edges"
                              /\ d.edges_begin.vec = m
                              /\ d.edges_begin.at = Len(edgesStorage[m])
  BY <1>6 DEF NewData, InputNode, Terminal
<1>17. /\ x.node.terminal => Len(x.node.edges) = 0
       /\ ~x.node.terminal => Len(x.node.edges) = Arity[d.node]
  <2>1. Len(x.node.edges) = IF x.node.terminal THEN 0 ELSE Arity[x.node.value]
    BY <1>1, <1>9, InputOfGraph DEF GraphTypes
  <2> QED BY <1>16, <2>1
<1>18. ASSUME ~x.node.terminal, NEW i \in 1 .. Arity[d.node]
       PROVE  /\ edgesStorage'[m][d.edges_begin.at + i] = q[i]
              /\ i \in DOMAIN x.node.edges
              /\ \E e \in contents'[m] : e.key = x.node.edges[i] /\ e.value = q[i]
  <2>1. i \in 1 .. Len(q) /\ i \in DOMAIN x.node.edges
    <3>1. DOMAIN x.node.edges = 1 .. Len(x.node.edges)
      BY <1>16, ElementsOfSeq
    <3> QED BY <1>8, <1>17, <1>18, <3>1
  <2>2. d.edges_begin.at + i = i + Len(edgesStorage[m])
    BY <1>8, <1>13, <1>16, <1>18, <2>1
  <2> QED BY <1>2, <1>9, <1>13, <2>1, <2>2
<1>19. EdgesOK(m, d)'
  <2> SUFFICES ASSUME ~x.node.terminal PROVE EdgesOK(m, d)'
    BY <1>16 DEF EdgesOK
  <2>1. \A i \in 1 .. Arity[d.node] :
          edgesStorage'[m][d.edges_begin.at + i] \in ValuesOf(m)'
    BY <1>18 DEF ValuesOf
  <2>2. d.edges_begin.at + Arity[d.node] <= Len(edgesStorage'[m])
    BY <1>8, <1>13, <1>16, <1>17
  <2> QED BY <1>16, <2>1, <2>2 DEF EdgesOK
<1>20. NodesInv'
  <2> SUFFICES ASSUME NEW k \in Map, HasNodes(k), NEW i \in DOMAIN nodes'[k]
               PROVE  EdgesOK(k, nodes[k][i])'
    BY <1>10 DEF NodesInv
  <2>1. PICK c : c = nodes'[k][i]
    OBVIOUS
  <2>2. CASE k = m /\ i = at
    BY <1>12, <1>19, <2>1, <2>2 DEF EdgesOK
  <2>3. CASE ~(k = m /\ i = at)
    <3>1. i \in DOMAIN nodes[k] /\ c = nodes[k][i]
      BY <1>12, <2>1, <2>3
    <3>2. c \in NodeData /\ EdgesOK(k, c)
      BY <1>15, <3>1
    <3>3. EdgesOK(k, c)'
      BY <1>1, <1>2, <1>14, <3>2, EdgesKept
    <3> QED BY <2>1, <3>3 DEF EdgesOK
  <2> QED BY <2>2, <2>3
(* What a client sees now.                                                    *)
<1>21. PICK e0 \in contents[m] : e0.key = x.id /\ e0.value + 1 = at
  BY <1>5, <1>9
<1>22. Seen(m, e0.value)' = x.node
  <2>1. d = nodes'[m][e0.value + 1]
    BY <1>12, <1>21
  <2>2. CASE x.node.terminal
    <3>1. Seen(m, e0.value)' = [value |-> d.node, terminal |-> TRUE, edges |-> <<>>]
      <4>1. d.edges_begin.kind = "terminal"
        BY <1>16, <2>2
      <4> QED BY ONLY <2>1, <4>1, SeenNodeNext
    <3>2. x.node.edges = <<>>
      BY <1>16, <1>17, <2>2, EmptySeq
    <3> QED BY <1>16, <2>2, <3>1, <3>2
  <2>3. CASE ~x.node.terminal
    <3>1. Seen(m, e0.value)' = [value |-> d.node, terminal |-> FALSE,
                                edges |-> Neighbors(m, d)']
      <4>1. d.edges_begin.kind = "edges"
        BY <1>16, <2>3
      <4> QED BY ONLY <2>1, <4>1, SeenNodeNext
    <3>2. Neighbors(m, d)' = x.node.edges
      <4> DEFINE IdIn(S, u) == (CHOOSE f \in S : f.value = u).key
                 p == d.edges_begin.at
      <4>1. Neighbors(m, d)' = [i \in 1 .. Arity[d.node] |->
                                  IdIn(contents'[m], edgesStorage'[m][p + i])]
        <5>1. Neighbors(m, d)' =
                [i \in 1 .. Arity[d.node] |->
                   IdIn(contents'[m], edgesStorage'[d.edges_begin.vec][p + i])]
          BY DEF Neighbors, IdAt
        <5>2. d.edges_begin.vec = m
          BY <1>16, <2>3
        <5> HIDE DEF IdIn, p
        <5> QED BY <5>1, <5>2
      <4>2. ASSUME NEW i \in 1 .. Arity[d.node]
            PROVE  IdIn(contents'[m], edgesStorage'[m][p + i]) = x.node.edges[i]
        <5>1. PICK f \in contents'[m] : f.key = x.node.edges[i] /\ f.value = q[i]
          BY <1>18, <2>3
        <5>2. IdIn(contents'[m], f.value) = f.key
          BY <1>1, IdOfNumberNext DEF IdAt
        <5>3. edgesStorage'[m][p + i] = f.value
          BY <1>18, <2>3, <5>1
        <5> HIDE DEF IdIn
        <5> QED BY <5>1, <5>2, <5>3
      <4>3. x.node.edges = [i \in 1 .. Arity[d.node] |-> x.node.edges[i]]
        BY <1>16, <1>17, <2>3
      <4> HIDE DEF IdIn, p
      <4> QED BY <4>1, <4>2, <4>3
    <3> QED BY <1>16, <2>3, <3>1, <3>2
  <2> QED BY <2>2, <2>3
<1>23. ASSUME NEW k \in Map, HasNodes(k), NEW e \in contents[k], k # m \/ e # e0
       PROVE  Seen(k, e.value)' = Seen(k, e.value)
  <2>1. e.value \in Nat /\ e.value + 1 \in DOMAIN nodes[k]
    BY <1>1, <1>23, DataOfNumber
  <2>2. k = m => e.value # e0.value
    BY <1>1, <1>23 DEF IndexInv
  <2>3. e0.value \in Nat
    BY <1>1, <1>10, DataOfNumber
  <2>4. k # m \/ e.value + 1 # at
    BY <1>21, <2>1, <2>2, <2>3
  <2>5. PICK c \in NodeData : c = nodes[k][e.value + 1]
    BY <1>15, <1>23, <2>1
  <2>6. nodes'[k][e.value + 1] = c
    BY <1>12, <2>1, <2>4, <2>5
  <2>7. EdgesOK(k, c)
    BY <1>15, <1>23, <2>1, <2>5
  <2>8. c.edges_begin.kind = "edges" =>
          \A i \in 1 .. Arity[c.node] :
            edgesStorage'[c.edges_begin.vec][c.edges_begin.at + i]
              = edgesStorage[c.edges_begin.vec][c.edges_begin.at + i]
    BY <1>1, <1>2, <1>14, <2>7, EdgesKept
  <2>9. contents'[k] = contents[k]
    BY <1>2
  <2> QED BY ONLY c \in NodeData, <2>5, <2>6, <2>8, <2>9, SeenKept
<1>24. ASSUME NEW e \in contents[m]
       PROVE  Before(e)' = Before(e)
  <2>1. CASE graphStatus = "linking" \/ e \notin contents["old"]
    BY <1>2, <2>1 DEF Before
  <2>2. CASE graphStatus = "relinking" /\ e \in contents["old"]
    <3>1. "old" # m /\ "old" \in Map /\ HasNodes("old")
      BY <1>3, <2>2 DEF Current, Map, HasNodes
    <3>2. Seen("old", e.value)' = Seen("old", e.value)
      BY <1>23, <2>2, <3>1
    <3> QED BY <1>2, <2>2, <3>2 DEF Before
  <2> QED BY <1>2, <2>1, <2>2
<1>25. ASSUME NEW id
       PROVE  NodesFor(id)' = NodesFor(id) \cup (IF id = x.id THEN {Done + 1} ELSE {})
  <2>1. 1 .. Done + 1 = 1 .. Done \cup {Done + 1}
    BY <1>9
  <2>2. NodesFor(id)' = {i \in 1 .. Done + 1 : Given[i].id = id}
    BY <1>10 DEF NodesFor
  <2> QED BY <1>9, <2>1, <2>2 DEF NodesFor
<1>26. ASSUME NEW e \in contents[m]
       PROVE  /\ \A i \in NodesFor(e.key)' :
                   (\A j \in NodesFor(e.key)' : j <= i) =>
                     Seen(m, e.value)' = Given[i].node
              /\ NodesFor(e.key)' = {} => Seen(m, e.value)' = Before(e)'
  <2>1. CASE e = e0
    <3>1. NodesFor(e.key)' = NodesFor(e.key) \cup {Done + 1}
      BY <1>21, <1>25, <2>1
    <3>2. \A i \in NodesFor(e.key) : i \in Nat /\ i <= Done
      BY <1>9 DEF NodesFor
    <3>3. ASSUME NEW i \in NodesFor(e.key)', \A j \in NodesFor(e.key)' : j <= i
          PROVE  i = Done + 1
      <4>1. (i \in NodesFor(e.key) \/ i = Done + 1) /\ Done + 1 <= i
        BY <3>1, <3>3
      <4>2. i \notin NodesFor(e.key)
        BY <1>9, <3>2, <4>1
      <4> QED BY <4>1, <4>2
    <3> QED BY <1>9, <1>22, <2>1, <3>1, <3>3
  <2>2. CASE e # e0
    <3>1. e.key # x.id
      BY <1>1, <1>21, <2>2 DEF BaseInv, MapInv, MapTypes, DistinctKeys
    <3>2. NodesFor(e.key)' = NodesFor(e.key)
      BY <1>25, <3>1
    <3>3. Seen(m, e.value)' = Seen(m, e.value)
      BY <1>10, <1>23, <2>2
    <3>4. /\ \A i \in NodesFor(e.key) :
               (\A j \in NodesFor(e.key) : j <= i) =>
                 Seen(m, e.value) = Given[i].node
          /\ NodesFor(e.key) = {} => Seen(m, e.value) = Before(e)
      BY <1>1, <1>2, <1>3 DEF FilledInv
    <3> QED BY <1>24, <3>2, <3>3, <3>4
  <2> QED BY <2>1, <2>2
<1>27. FilledInv'
  <2>1. ASSUME NEW e \in contents[m]
        PROVE  Seen(Current, e.value)' = Seen(m, e.value)'
    BY <1>3, <1>10
  <2>2. contents'[Current'] = contents[m]
    BY <1>2, <1>3, <1>10
  <2> QED BY <1>10, <1>26, <2>1, <2>2 DEF FilledInv
<1>28. BuiltInv'
  <2>1. CASE graphStatus = "linking"
    BY <1>2, <2>1 DEF BuiltInv
  <2>2. CASE graphStatus = "relinking"
    <3>1. m # "old" /\ "old" \in Map
      BY <1>3, <2>2 DEF Current, Map
    <3>2. nodes'["old"] = nodes["old"] /\ edgesStorage'["old"] = edgesStorage["old"]
      BY <1>12, <1>13, <3>1
    <3> QED BY <1>1, <1>2, <2>2, <3>2, BuiltKept
  <2> QED BY <1>2, <2>1, <2>2
<1> QED BY <1>1, <1>20, <1>27, <1>28 DEF GraphInv

LEMMA GraphFinishGraph ==
  ASSUME GraphInv, FinishGraph
  PROVE  /\ GraphInv'
         /\ graphStatus = "linking" =>
              Graph("old")' = Abstract!NodesOf(input.base, NoGraph)
         /\ graphStatus = "relinking" =>
              Graph("new")' = Abstract!NodesOf(input.added, Graph("old"))
<1>1. /\ BaseInv /\ BaseInv' /\ NodesInv /\ FilledInv /\ BuiltInv
      /\ GraphTypes /\ IndexInv /\ MapInv
  BY BaseFinishGraph DEF GraphInv, BaseInv
<1>2. /\ graphStatus \in {"linking", "relinking"} /\ todo = <<>>
      /\ graphStatus' = IF graphStatus = "linking" THEN "built" ELSE "ready"
      /\ contents' = contents /\ input' = input /\ nodes' = nodes
      /\ edgesStorage' = edgesStorage
  BY DEF FinishGraph, mapVars
<1>3. PICK m \in Map : m = Current
  BY DEF Current, Map
<1>4. NodesInv'
  <2>1. \A k \in Map : HasNodes(k)' => HasNodes(k)
    BY <1>2 DEF HasNodes
  <2>2. ASSUME NEW k \in Map, HasNodes(k), NEW i \in DOMAIN nodes[k]
        PROVE  EdgesOK(k, nodes[k][i])'
    <3>1. EdgesOK(k, nodes[k][i])
      BY <1>1, <2>2 DEF NodesInv
    <3> QED BY <1>2, <3>1 DEF EdgesOK, ValuesOf
  <2> QED BY <1>2, <2>1, <2>2 DEF NodesInv
<1>5. \A k, v : Seen(k, v)' = Seen(k, v)
  BY <1>2 DEF Seen, Neighbors, IdAt
<1>6. PICK given \in Seq(InputNode) : given = Given
  BY <1>1, InputOfGraph DEF GraphTypes
<1>7. Done = Len(given)
  <2>1. Len(given) \in Nat /\ Len(<<>>) = 0
    OBVIOUS
  <2> QED BY <1>2, <1>6, <2>1 DEF Done
<1>8. ASSUME NEW id PROVE NodesFor(id) = NodesWith(given, id)
  BY <1>6, <1>7 DEF NodesFor, NodesWith
<1>9. Ready(m) /\ Ready(m)' /\ Shows(m)'
  <2>1. Ready(m) /\ Ready(m)'
    BY <1>1, <1>2, <1>3 DEF BaseInv, PhaseInv, Ready, Current
  <2> QED BY <1>1, <2>1, GraphShowsNext DEF ReadyShows
<1>10. PICK g : g = Graph(m)'
  OBVIOUS
<1>11. /\ g = [id \in Key |-> g[id]]
       /\ \A e \in contents[m] : g[e.key] = Seen(m, e.value)
       /\ \A id \in Key : (\A e \in contents[m] : e.key # id) => g[id] = None
  <2>1. g = [id \in Key |-> g[id]]
    BY <1>10 DEF Graph
  <2>2. ASSUME NEW e \in contents[m] PROVE g[e.key] = Seen(m, e.value)
    <3>1. e.key \in Key
      BY <1>1 DEF MapInv, MapTypes, Element
    <3>2. Graph(m)'[e.key] = Seen(m, e.value)'
      BY <1>2, <1>9, <3>1 DEF Shows
    <3> QED BY <1>5, <1>10, <3>2
  <2>3. \A id \in Key : (\A e \in contents[m] : e.key # id) => Graph(m)'[id] = None
    BY <1>2, <1>9 DEF Shows
  <2> QED BY <1>10, <2>1, <2>2, <2>3
<1>12. \A e \in contents[m] :
         /\ \A i \in NodesFor(e.key) :
              (\A j \in NodesFor(e.key) : j <= i) => g[e.key] = given[i].node
         /\ NodesFor(e.key) = {} => g[e.key] = Before(e)
  BY <1>1, <1>2, <1>3, <1>6, <1>11 DEF FilledInv
<1>13. ASSUME NEW id \in Key, \A e \in contents[m] : e.key # id
       PROVE  NodesFor(id) = {} /\ g[id] = None
  <2>1. IdsIn(Given) \subseteq KeysOf(m)
    BY <1>1, <1>2, <1>3 DEF IndexInv, Given, Current, Copying
  <2>2. \A i \in DOMAIN given : given[i].id \in KeysOf(m)
    BY <1>6, <2>1, IdsOfNodes
  <2>3. DOMAIN given = 1 .. Len(given)
    BY ElementsOfSeq
  <2>4. id \notin KeysOf(m)
    BY <1>13 DEF KeysOf
  <2> QED BY <1>8, <1>11, <1>13, <2>2, <2>3, <2>4 DEF NodesWith
<1>14. ASSUME NEW otherwise,
              \A e \in contents[m] : Before(e) = otherwise[e.key],
              \A id \in Key :
                (\A e \in contents[m] : e.key # id) => otherwise[id] = None
       PROVE  g = Abstract!NodesOf(given, otherwise)
  <2>1. ASSUME NEW id \in Key
        PROVE  /\ \A i \in NodesFor(id) :
                    (\A j \in NodesFor(id) : j <= i) => g[id] = given[i].node
               /\ NodesFor(id) = {} => g[id] = otherwise[id]
    <3>1. CASE \E e \in contents[m] : e.key = id
      BY <1>12, <1>14, <3>1
    <3>2. CASE \A e \in contents[m] : e.key # id
      BY <1>13, <1>14, <3>2
    <3> QED BY <3>1, <3>2
  <2>2. HasLastNodes(g, given, otherwise)
    BY <1>8, <2>1 DEF HasLastNodes
  <2>3. \A id \in Key : g[id] = Abstract!NodesOf(given, otherwise)[id]
    BY ONLY given \in Seq(InputNode), <2>2, LastNodes
  <2>4. Abstract!NodesOf(given, otherwise)
          = [id \in Key |-> Abstract!NodesOf(given, otherwise)[id]]
    BY DEF Abstract!NodesOf
  <2> QED BY <1>11, <2>3, <2>4
<1>15. ASSUME graphStatus = "linking"
       PROVE  Graph("old")' = Abstract!NodesOf(input.base, NoGraph)
  <2>1. m = "old" /\ given = input.base
    BY <1>3, <1>6, <1>15 DEF Current, Given
  <2>2. \A e \in contents[m] : Before(e) = NoGraph[e.key]
    <3>1. \A e \in contents[m] : e.key \in Key
      BY <1>1 DEF MapInv, MapTypes, Element
    <3> QED BY <1>15, <3>1 DEF Before, NoGraph
  <2>3. \A id \in Key : NoGraph[id] = None
    BY DEF NoGraph
  <2>4. g = Abstract!NodesOf(given, NoGraph)
    BY <1>14, <2>2, <2>3
  <2> QED BY <1>10, <2>1, <2>4
<1>16. ASSUME graphStatus = "relinking"
       PROVE  Graph("new")' = Abstract!NodesOf(input.added, Graph("old"))
  <2>1. m = "new" /\ given = input.added
    BY <1>3, <1>6, <1>16 DEF Current, Given
  <2>2. Ready("old") /\ Shows("old")
    <3>1. Ready("old") /\ "old" \in Map
      BY <1>1, <1>16 DEF BaseInv, PhaseInv, Ready, Map
    <3> QED BY <1>1, <3>1, GraphShows DEF ReadyShows
  <2>3. contents["old"] \subseteq contents["new"]
    BY <1>1, <1>16 DEF IndexInv, Copying
  <2>4. ASSUME NEW e \in contents["new"] PROVE Before(e) = Graph("old")[e.key]
    <3>1. e.key \in Key
      BY <1>1 DEF MapInv, MapTypes, Map, Element
    <3>2. CASE e \in contents["old"]
      BY <1>16, <2>2, <3>1, <3>2 DEF Before, Shows
    <3>3. CASE e \notin contents["old"]
      <4>1. \A f \in contents["old"] : f.key # e.key
        BY <1>1, <2>3, <3>3 DEF MapInv, MapTypes, DistinctKeys, Map
      <4> QED BY <1>16, <2>2, <3>1, <3>3, <4>1 DEF Before, Shows
    <3> QED BY <3>2, <3>3
  <2>5. \A id \in Key :
          (\A e \in contents["new"] : e.key # id) => Graph("old")[id] = None
    BY <2>2, <2>3 DEF Shows
  <2>6. g = Abstract!NodesOf(given, Graph("old"))
    BY <1>14, <2>1, <2>4, <2>5
  <2> QED BY <1>10, <2>1, <2>6
<1>17. BuiltInv'
  <2>1. CASE graphStatus = "linking"
    <3>1. Abstract!NodesOf(input.base, NoGraph)' = Abstract!NodesOf(input.base, NoGraph)
      BY <1>2 DEF Abstract!NodesOf, NoGraph
    <3> QED BY <1>15, <2>1, <3>1 DEF BuiltInv
  <2>2. CASE graphStatus = "relinking"
    BY <1>1, <1>2, <2>2, BuiltKept
  <2> QED BY <1>2, <2>1, <2>2
<1>18. GraphInv'
  BY <1>1, <1>2, <1>4, <1>17 DEF GraphInv, FilledInv
<1> QED BY <1>15, <1>16, <1>18

LEMMA GraphSetTerminal ==
  ASSUME GraphInv, NEW id \in Key, SetTerminal(id)
  PROVE  /\ GraphInv'
         /\ Graph("new")[id] # None
         /\ Graph("new")' = [Graph("new") EXCEPT ![id] = Abstract!Constructed]
<1>1. /\ BaseInv /\ BaseInv' /\ NodesInv /\ BuiltInv
      /\ GraphTypes /\ IndexInv /\ MapInv
  BY BaseSetTerminal DEF GraphInv, BaseInv
<1>2. /\ graphStatus = "ready" /\ graphStatus' = "ready" /\ contents' = contents
      /\ input' = input /\ edgesStorage' = edgesStorage
      /\ Find("new", id) # None
      /\ NodeAt("new", id).edges_begin # Missing
      /\ NodeAt("new", id).edges_begin # Terminal
  BY DEF SetTerminal, mapVars, IsNode
<1>3. PICK e0 \in contents["new"] : e0.key = id /\ e0.value = Find("new", id)
  BY <1>1, <1>2, NodeOfId
<1>4. PICK d : d = [edges_begin |-> Terminal, node |-> "object"]
  OBVIOUS
<1>5. d.edges_begin.kind = "terminal" /\ d.node = "object"
  BY <1>4 DEF Terminal
<1>6. nodes' = [nodes EXCEPT !["new"] = [@ EXCEPT ![e0.value + 1] = d]]
  BY <1>3, <1>4 DEF SetTerminal
<1>7. HasNodes("new") /\ HasNodes("old") /\ "new" \in Map /\ "old" \in Map
  BY <1>2 DEF HasNodes, Map
<1>8. /\ e0.value \in Nat /\ e0.value + 1 \in DOMAIN nodes["new"]
      /\ nodes["new"][e0.value + 1] \in NodeData
  BY <1>1, <1>7, DataOfNumber
<1>9. /\ DOMAIN nodes'["new"] = DOMAIN nodes["new"] /\ nodes'["new"][e0.value + 1] = d
      /\ \A i \in DOMAIN nodes["new"] :
           i # e0.value + 1 => nodes'["new"][i] = nodes["new"][i]
      /\ nodes'["old"] = nodes["old"]
  <2>1. nodes \in [Map -> Seq(NodeData)]
    BY <1>1 DEF GraphTypes
  <2>2. /\ nodes'["new"] = [nodes["new"] EXCEPT ![e0.value + 1] = d]
        /\ nodes'["old"] = nodes["old"]
    BY <1>6, <2>1 DEF Map
  <2>3. DOMAIN nodes'["new"] = DOMAIN nodes["new"]
    BY <2>2
  <2>4. nodes'["new"][e0.value + 1] = d
    BY <1>8, <2>2
  <2> QED BY <2>2, <2>3, <2>4
<1>10. \A k \in Map : \A i \in DOMAIN nodes[k] : EdgesOK(k, nodes[k][i])
  BY <1>1, <1>7 DEF NodesInv, Map
<1>11. NodesInv'
  <2> SUFFICES ASSUME NEW k \in Map, NEW i \in DOMAIN nodes'[k]
               PROVE  EdgesOK(k, nodes[k][i])'
    BY DEF NodesInv
  <2>1. CASE k = "new" /\ i = e0.value + 1
    BY <1>5, <1>9, <2>1 DEF EdgesOK
  <2>2. CASE ~(k = "new" /\ i = e0.value + 1)
    <3>1. i \in DOMAIN nodes[k] /\ nodes'[k][i] = nodes[k][i]
      BY <1>9, <2>2 DEF Map
    <3>2. EdgesOK(k, nodes[k][i])
      BY <1>10, <3>1
    <3> QED BY <1>2, <3>1, <3>2 DEF EdgesOK, ValuesOf
  <2> QED BY <2>1, <2>2
<1>12. BuiltInv'
  <2>1. edgesStorage'["old"] = edgesStorage["old"]
    BY <1>2
  <2> QED BY <1>1, <1>2, <1>9, <2>1, BuiltKept
<1>13. GraphInv'
  BY <1>1, <1>2, <1>11, <1>12 DEF GraphInv, FilledInv
<1>14. Shows("new") /\ Shows("new")'
  <2>1. Ready("new") /\ Ready("new")'
    BY <1>1, <1>2 DEF BaseInv, PhaseInv, Ready
  <2> QED BY <1>1, <1>7, <2>1, GraphShows, GraphShowsNext DEF ReadyShows
<1>15. Seen("new", e0.value)' = Abstract!Constructed
  <2>1. d = nodes'["new"][e0.value + 1]
    BY <1>9
  <2>2. Seen("new", e0.value)' = [value |-> d.node, terminal |-> TRUE, edges |-> <<>>]
    BY ONLY <1>5, <2>1, SeenNodeNext
  <2> QED BY <1>5, <2>2 DEF Abstract!Constructed
<1>16. ASSUME NEW e \in contents["new"], e # e0
       PROVE  Seen("new", e.value)' = Seen("new", e.value)
  <2>1. e.value \in Nat /\ e.value + 1 \in DOMAIN nodes["new"]
    BY <1>1, <1>7, DataOfNumber
  <2>2. e.value # e0.value
    BY <1>1, <1>7, <1>16 DEF IndexInv
  <2>3. PICK c \in NodeData : c = nodes["new"][e.value + 1]
    BY <1>1, <1>7, DataOfNumber
  <2>4. nodes'["new"][e.value + 1] = c
    BY <1>8, <1>9, <2>1, <2>2, <2>3
  <2>5. contents'["new"] = contents["new"]
    BY <1>2
  <2> QED BY <1>2, <2>3, <2>4, <2>5, SeenKept
<1>17. \A e \in contents["new"] : e.key = id => e = e0
  BY <1>1, <1>3, <1>7 DEF MapInv, MapTypes, DistinctKeys
<1>18. ASSUME NEW k \in Key
       PROVE  Graph("new")'[k] = IF k = id THEN Abstract!Constructed
                                 ELSE Graph("new")[k]
  <2>1. CASE k = id
    <3>1. Graph("new")'[k] = Seen("new", e0.value)'
      BY <1>2, <1>3, <1>14, <2>1 DEF Shows
    <3> QED BY <1>15, <2>1, <3>1
  <2>2. CASE k # id /\ \E e \in contents["new"] : e.key = k
    <3>1. PICK e \in contents["new"] : e.key = k
      BY <2>2
    <3>2. Graph("new")'[k] = Seen("new", e.value)'
      BY <1>2, <1>14, <3>1 DEF Shows
    <3>3. Graph("new")[k] = Seen("new", e.value)
      BY <1>14, <3>1 DEF Shows
    <3>4. e # e0
      BY <1>3, <2>2, <3>1
    <3> QED BY <1>16, <2>2, <3>2, <3>3, <3>4
  <2>3. CASE k # id /\ \A e \in contents["new"] : e.key # k
    <3>1. Graph("new")'[k] = None
      BY <1>2, <1>14, <2>3 DEF Shows
    <3>2. Graph("new")[k] = None
      BY <1>14, <2>3 DEF Shows
    <3> QED BY <2>3, <3>1, <3>2
  <2> QED BY <2>1, <2>2, <2>3
<1>19. /\ Graph("new") = [k \in Key |-> Graph("new")[k]]
       /\ Graph("new")' = [k \in Key |-> Graph("new")'[k]]
  BY DEF Graph
<1>20. Graph("new")' = [Graph("new") EXCEPT ![id] = Abstract!Constructed]
  BY <1>18, <1>19
<1>21. Graph("new")[id] # None
  <2>1. Graph("new")[id] = Seen("new", e0.value)
    BY <1>3, <1>14 DEF Shows
  <2>2. PICK c \in NodeData : c = nodes["new"][e0.value + 1]
    BY <1>8
  <2>3. c.edges_begin.kind = "edges"
    <3>1. c = NodeAt("new", id)
      BY <1>3, <2>2 DEF NodeAt
    <3> QED BY <1>2, <3>1, KindsOfData
  <2>4. Seen("new", e0.value) = [value |-> c.node, terminal |-> FALSE,
                                 edges |-> Neighbors("new", c)]
    BY ONLY <2>2, <2>3, SeenNode
  <2>5. /\ EdgesOK("new", c) /\ c.node \in Value /\ Arity[c.node] \in Nat
    BY <1>7, <1>8, <1>10, <2>2, <2>3, GraphInputAssumption DEF EdgesOK
  <2>6. ASSUME NEW i \in 1 .. Arity[c.node]
        PROVE  IdAt("new", edgesStorage[c.edges_begin.vec][c.edges_begin.at + i]) \in Key
    <3>1. PICK u : u = edgesStorage[c.edges_begin.vec][c.edges_begin.at + i]
      OBVIOUS
    <3>2. PICK e \in contents[c.edges_begin.vec] : e.value = u
      BY <2>3, <2>5, <3>1 DEF EdgesOK, ValuesOf
    <3>3. e \in contents["new"]
      BY <1>1, <1>2, <2>3, <2>5, <3>2 DEF EdgesOK, IndexInv, Copying
    <3>4. IdAt("new", e.value) = e.key /\ e.key \in Key
      BY <1>1, <1>7, <3>3, IdOfNumber DEF MapInv, MapTypes, Element
    <3> QED BY <3>1, <3>2, <3>4
  <2>7. Neighbors("new", c) \in Seq(Key)
    <3>1. Neighbors("new", c) \in [1 .. Arity[c.node] -> Key]
      BY <2>6 DEF Neighbors
    <3> QED BY <2>5, <3>1, SeqDef
  <2>8. PICK s \in Seq(Key) : s = Neighbors("new", c)
    BY <2>7
  <2>9. [value |-> c.node, terminal |-> FALSE, edges |-> s]
          \in [value : Value \cup {"object"}, terminal : BOOLEAN, edges : Seq(Key)]
    BY <2>5
  <2>10. Graph("new")[id] = [value |-> c.node, terminal |-> FALSE, edges |-> s]
    BY <2>1, <2>4, <2>8
  <2> QED BY <2>9, <2>10, GraphInputAssumption
<1> QED BY <1>13, <1>20, <1>21

LEMMA GraphNext ==
  GraphInv /\ [Next]_vars => GraphInv'
<1> SUFFICES ASSUME GraphInv, [Next]_vars PROVE GraphInv'
  OBVIOUS
<1>1. CASE StartGraph
  BY <1>1, GraphStartGraph
<1>2. CASE AllocateNodes
  BY <1>2, GraphAllocateNodes
<1>3. CASE FillNode
  BY <1>3, GraphFillNode
<1>4. CASE FinishGraph
  BY <1>4, GraphFinishGraph
<1>5. CASE StartCopy
  BY <1>5, GraphStartCopy
<1>6. CASE CopyNodes
  BY <1>6, GraphCopyNodes
<1>7. ASSUME NEW id \in Key, SetTerminal(id) PROVE GraphInv'
  BY <1>7, GraphSetTerminal
<1>8. CASE MapStep /\ UNCHANGED graphVars
  BY <1>8, GraphMapStep
<1>9. CASE UNCHANGED vars
  BY <1>9, GraphMapStep DEF vars
<1> QED BY <1>1, <1>2, <1>3, <1>4, <1>5, <1>6, <1>7, <1>8, <1>9
        DEF Next, Terminated

LEMMA GraphAlways ==
  Spec => []GraphInv
<1> QED BY GraphInit, GraphNext, PTL DEF Spec

(* A step that changes neither graph as a client sees them.                   *)
LEMMA Hidden ==
  ASSUME GraphInv, GraphInv', input' = input, graphStatus # "ready",
         graphStatus' # "ready",
         \/ /\ graphStatus \in {"none", "indexing", "linking"}
            /\ graphStatus' \in {"none", "indexing", "linking"}
         \/ /\ graphStatus \in {"built", "extending", "relinking"}
            /\ graphStatus' \in {"built", "extending", "relinking"}
            /\ contents'["old"] = contents["old"] /\ nodes'["old"] = nodes["old"]
            /\ edgesStorage'["old"] = edgesStorage["old"]
  PROVE  UNCHANGED <<input, BaseGraph, InjectorGraph>>
<1>1. InjectorGraph' = InjectorGraph
  BY DEF InjectorGraph, NoGraph
<1>2. BaseGraph' = BaseGraph
  <2>1. CASE graphStatus \in {"none", "indexing", "linking"}
    BY <2>1 DEF BaseGraph, NoGraph
  <2>2. CASE graphStatus \in {"built", "extending", "relinking"}
    <3>1. Graph("old")' = Graph("old")
      BY <2>2, OldGraphKept DEF GraphInv
    <3>2. BaseGraph = Graph("old")
      BY <2>2 DEF BaseGraph
    <3>3. BaseGraph' = Graph("old")'
      BY <2>2 DEF BaseGraph
    <3> QED BY <3>1, <3>2, <3>3
  <2> QED BY <2>1, <2>2
<1> QED BY <1>1, <1>2

(* Every step is one of DependencyGraph, or changes neither graph.            *)
LEMMA GraphStepRefines ==
  GraphInv /\ [Next]_vars => [Abstract!Next]_<<input, BaseGraph, InjectorGraph>>
<1> SUFFICES ASSUME GraphInv, [Next]_vars
             PROVE  \/ Abstract!Next
                    \/ UNCHANGED <<input, BaseGraph, InjectorGraph>>
  OBVIOUS
<1>1. GraphInv'
  BY GraphNext
<1>2. /\ GraphTypes /\ PhaseInv /\ contents \in [Map -> SUBSET Element]
      /\ nodes \in [Map -> Seq(NodeData)] /\ edgesStorage \in [Map -> Seq(Nat)]
  BY DEF GraphInv, BaseInv, GraphTypes, MapInv, MapTypes
<1>3. CASE StartGraph
  <2>1. graphStatus = "none" /\ graphStatus' = "indexing" /\ input' = input
    BY <1>3 DEF StartGraph
  <2> QED BY <1>1, <2>1, Hidden
<1>4. CASE AllocateNodes
  <2>1. graphStatus = "indexing" /\ graphStatus' = "linking" /\ input' = input
    BY <1>4 DEF AllocateNodes
  <2> QED BY <1>1, <2>1, Hidden
<1>5. CASE FillNode
  <2>1. /\ graphStatus' = graphStatus /\ graphStatus \in {"linking", "relinking"}
        /\ input' = input /\ contents' = contents
    BY <1>5 DEF FillNode, mapVars
  <2>2. CASE graphStatus = "linking"
    BY <1>1, <2>1, <2>2, Hidden
  <2>3. CASE graphStatus = "relinking"
    <3>1. nodes'["old"] = nodes["old"] /\ edgesStorage'["old"] = edgesStorage["old"]
      BY <1>2, <1>5, <2>3 DEF FillNode, Current, Map
    <3> QED BY <1>1, <2>1, <2>3, <3>1, Hidden
  <2> QED BY <2>1, <2>2, <2>3
<1>6. CASE StartCopy
  <2>1. /\ graphStatus = "built" /\ graphStatus' = "extending" /\ input' = input
        /\ nodes' = nodes /\ edgesStorage' = edgesStorage
    BY <1>6 DEF StartCopy
  <2>2. contents'["old"] = contents["old"]
    BY <1>2, <1>6 DEF StartCopy, StartExtension, Map
  <2> QED BY <1>1, <2>1, <2>2, Hidden
<1>7. CASE CopyNodes
  <2>1. /\ graphStatus = "extending" /\ graphStatus' = "relinking" /\ input' = input
        /\ contents' = contents
    BY <1>7 DEF CopyNodes, mapVars
  <2>2. nodes'["old"] = nodes["old"] /\ edgesStorage'["old"] = edgesStorage["old"]
    BY <1>2, <1>7 DEF CopyNodes, Map
  <2> QED BY <1>1, <2>1, <2>2, Hidden
<1>8. CASE MapStep /\ UNCHANGED graphVars
  <2>1. contents' = contents
    BY <1>8, MapStepKeeps DEF GraphInv, BaseInv
  <2>2. graphStatus # "ready"
    BY <1>2, <1>8, MapStepKeeps DEF GraphInv, BaseInv, PhaseInv
  <2>3. graphStatus \in {"none", "indexing", "linking", "built", "extending", "relinking"}
    BY <1>2, <2>2 DEF GraphTypes
  <2> QED BY <1>1, <1>8, <2>1, <2>2, <2>3, Hidden DEF graphVars
<1>9. CASE UNCHANGED vars
  <2>1. /\ Graph("old")' = Graph("old") /\ Graph("new")' = Graph("new")
        /\ graphStatus' = graphStatus /\ input' = input
    BY <1>9 DEF vars, graphVars, mapVars, Graph, Find, RangeContents, Hash,
                Seen, Neighbors, IdAt
  <2> QED BY <2>1 DEF BaseGraph, InjectorGraph, NoGraph
<1>10. CASE FinishGraph
  <2>1. /\ graphStatus = "linking" =>
             Graph("old")' = Abstract!NodesOf(input.base, NoGraph)
        /\ graphStatus = "relinking" =>
             Graph("new")' = Abstract!NodesOf(input.added, Graph("old"))
    BY <1>10, GraphFinishGraph
  <2>2. /\ graphStatus' = IF graphStatus = "linking" THEN "built" ELSE "ready"
        /\ graphStatus \in {"linking", "relinking"}
        /\ contents' = contents /\ input' = input /\ nodes' = nodes
        /\ edgesStorage' = edgesStorage
    BY <1>10 DEF FinishGraph, mapVars
  <2>3. Abstract!Nothing = NoGraph
    BY DEF Abstract!Nothing, NoGraph
  <2>4. CASE graphStatus = "linking"
    <3>1. BaseGraph = NoGraph /\ InjectorGraph = NoGraph
      BY <2>4 DEF BaseGraph, InjectorGraph
    <3>2. BaseGraph' = Graph("old")' /\ InjectorGraph' = NoGraph
      BY <2>2, <2>4 DEF BaseGraph, InjectorGraph, NoGraph
    <3>3. Abstract!Build
      BY <2>1, <2>2, <2>3, <2>4, <3>1, <3>2 DEF Abstract!Build
    <3> QED BY <3>3 DEF Abstract!Next
  <2>5. CASE graphStatus = "relinking"
    <3>1. BaseGraph = Graph("old") /\ InjectorGraph = NoGraph
      BY <2>5 DEF BaseGraph, InjectorGraph
    <3>2. BaseGraph' = Graph("old")' /\ InjectorGraph' = Graph("new")'
      BY <2>2, <2>5 DEF BaseGraph, InjectorGraph
    <3>3. Graph("old")' = Graph("old")
      BY <1>1, <2>2, <2>5, OldGraphKept DEF GraphInv
    <3>4. Graph("old") = Abstract!NodesOf(input.base, NoGraph)
      BY <2>5 DEF GraphInv, BuiltInv
    <3>5. Abstract!Extend
      BY <2>1, <2>2, <2>3, <2>5, <3>1, <3>2, <3>3, <3>4 DEF Abstract!Extend
    <3> QED BY <3>5 DEF Abstract!Next
  <2> QED BY <2>2, <2>4, <2>5
<1>11. ASSUME NEW id \in Key, SetTerminal(id) PROVE Abstract!Next
  <2>1. /\ Graph("new")[id] # None
        /\ Graph("new")' = [Graph("new") EXCEPT ![id] = Abstract!Constructed]
    BY <1>11, GraphSetTerminal
  <2>2. /\ graphStatus = "ready" /\ graphStatus' = "ready" /\ input' = input
        /\ contents' = contents /\ edgesStorage' = edgesStorage
        /\ nodes'["old"] = nodes["old"]
    BY <1>2, <1>11 DEF SetTerminal, mapVars, Map
  <2>3. Graph("old")' = Graph("old")
    BY <1>1, <2>2, OldGraphKept DEF GraphInv
  <2>4. /\ BaseGraph = Graph("old") /\ InjectorGraph = Graph("new")
        /\ BaseGraph' = Graph("old")' /\ InjectorGraph' = Graph("new")'
    BY <2>2 DEF BaseGraph, InjectorGraph
  <2>5. Abstract!SetTerminal(id)
    BY <2>1, <2>2, <2>3, <2>4 DEF Abstract!SetTerminal
  <2> QED BY <2>5 DEF Abstract!Next
<1> QED BY <1>3, <1>4, <1>5, <1>6, <1>7, <1>8, <1>9, <1>10, <1>11
        DEF Next, Terminated

(* SemistaticGraph implements DependencyGraph: the graph that a client sees    *)
(* through find() and the edge iterators has the nodes that it was made from,  *)
(* of two for an id the last, with their edges in order; the copy of an        *)
(* injector overrides nodes without a change to the graph whose edges it       *)
(* shares; setTerminal changes one node of it.                                *)
THEOREM GraphRefinement ==
  Spec => ImplementsDependencyGraph
<1>1. Init => Abstract!Init
  <2> SUFFICES ASSUME Init PROVE Abstract!Init
    OBVIOUS
  <2>1. input \in Inputs /\ graphStatus = "none"
    BY DEF Init
  <2>2. BaseGraph = NoGraph /\ InjectorGraph = NoGraph
    BY <2>1 DEF BaseGraph, InjectorGraph
  <2> QED BY <2>1, <2>2 DEF Abstract!Init, Abstract!Nothing, NoGraph
<1> QED BY <1>1, GraphAlways, GraphStepRefines, PTL
        DEF Spec, ImplementsDependencyGraph, Abstract!Spec
=============================================================================
