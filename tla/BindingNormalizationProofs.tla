---------------------- MODULE BindingNormalizationProofs ----------------------
(***************************************************************************)
(* Proofs about BindingNormalization, for every set of types, components    *)
(* and programs: the type invariant, the invariants of the expansion of the *)
(* installed components, and the ownership of what they have on the heap.   *)
(***************************************************************************)
EXTENDS BindingNormalization, SequenceTheorems, FiniteSetTheorems, TLAPS

(* The kind of an entry tells which of the five record types it belongs to:   *)
(* it is the tag of the union in ComponentStorageEntry.                       *)
LEMMA EntryOfKind ==
  ASSUME NEW e \in Entry
  PROVE  /\ e.kind \in BindingKind => e \in Binding
         /\ e.kind = "compressed" => e \in CompressedBinding
         /\ e.kind \in MultibindingKind => e \in Multibinding
         /\ e.kind \in ComponentKind => e \in ComponentEntry
<1>1. CASE e \in Binding
  BY <1>1 DEF Binding, BindingKind, MultibindingKind, ComponentKind
<1>2. CASE e \in CompressedBinding
  BY <1>2 DEF CompressedBinding, BindingKind, MultibindingKind, ComponentKind
<1>3. CASE e \in Multibinding
  BY <1>3 DEF Multibinding, BindingKind, MultibindingKind, ComponentKind
<1>4. CASE e \in VectorCreator
  BY <1>4 DEF VectorCreator, BindingKind, MultibindingKind, ComponentKind
<1>5. CASE e \in ComponentEntry
  BY <1>5 DEF ComponentEntry, BindingKind, MultibindingKind, ComponentKind
<1> QED BY <1>1, <1>2, <1>3, <1>4, <1>5 DEF Entry

(* Removing the n entries at the back keeps the others where they are.        *)
LEMMA PopProperties ==
  ASSUME stack \in Seq(Entry), NEW n \in Nat, n <= Len(stack)
  PROVE  /\ Pop(n) \in Seq(Entry)
         /\ Len(Pop(n)) = Len(stack) - n
         /\ DOMAIN Pop(n) = 1 .. Len(stack) - n
         /\ \A i \in 1 .. Len(stack) - n : Pop(n)[i] = stack[i]
<1> DEFINE m == Len(stack) - n
<1>1. Len(stack) \in Nat /\ m \in Nat
  BY LenProperties
<1>2. \A i \in 1 .. m : stack[i] \in Entry
  BY <1>1, ElementOfSeq
<1>3. /\ SubSeq(stack, 1, m) \in Seq(Entry)
      /\ Len(SubSeq(stack, 1, m)) = IF 1 <= m THEN m - 1 + 1 ELSE 0
      /\ \A i \in 1 .. m - 1 + 1 : SubSeq(stack, 1, m)[i] = stack[1 + i - 1]
  BY <1>1, <1>2, SubSeqProperties
<1>4. Len(Pop(n)) = m
  BY <1>1, <1>3 DEF Pop
<1>5. \A i \in 1 .. m : i \in 1 .. m - 1 + 1 /\ 1 + i - 1 = i
  BY <1>1
<1> QED BY <1>3, <1>4, <1>5, LenProperties DEF Pop

(* The entry at the back, and the one under it.                               *)
LEMMA TopProperties ==
  ASSUME stack \in Seq(Entry), stack # <<>>
  PROVE  /\ Len(stack) \in Nat \ {0}
         /\ Len(stack) \in DOMAIN stack
         /\ DOMAIN stack = 1 .. Len(stack)
         /\ Top \in Entry
         /\ Len(stack) > 1 => Under \in Entry
<1>1. Len(stack) \in Nat \ {0}
  BY EmptySeq
<1>2. DOMAIN stack = 1 .. Len(stack)
  BY LenProperties
<1> QED BY <1>1, <1>2, ElementOfSeq DEF Top, Under

(* Replacing the entry at the back.                                           *)
LEMMA ReplaceTopProperties ==
  ASSUME stack \in Seq(Entry), stack # <<>>, NEW e \in Entry
  PROVE  /\ ReplaceTop(e) \in Seq(Entry)
         /\ Len(ReplaceTop(e)) = Len(stack)
         /\ DOMAIN ReplaceTop(e) = DOMAIN stack
         /\ ReplaceTop(e)[Len(stack)] = e
         /\ \A i \in 1 .. Len(stack) - 1 : ReplaceTop(e)[i] = stack[i]
<1>1. /\ Len(stack) \in Nat /\ DOMAIN stack = 1 .. Len(stack)
      /\ 1 \in Nat /\ 1 <= Len(stack)
  BY TopProperties
<1> DEFINE p == Pop(1)
<1>2. /\ p \in Seq(Entry)
      /\ Len(p) = Len(stack) - 1
      /\ \A i \in 1 .. Len(stack) - 1 : p[i] = stack[i]
  BY <1>1, PopProperties
<1> HIDE DEF p
<1>3. Len(p) + 1 = Len(stack)
  BY <1>1, <1>2
<1>4. /\ Append(p, e) \in Seq(Entry)
      /\ Len(Append(p, e)) = Len(p) + 1
      /\ \A i \in 1 .. Len(p) : Append(p, e)[i] = p[i]
      /\ Append(p, e)[Len(p) + 1] = e
  BY <1>2, AppendProperties
<1>5. DOMAIN Append(p, e) = 1 .. Len(stack)
  BY <1>3, <1>4, LenProperties
<1>6. ReplaceTop(e) = Append(p, e)
  BY DEF ReplaceTop, p
<1> QED BY <1>1, <1>2, <1>3, <1>4, <1>5, <1>6

-----------------------------------------------------------------------------
(* The entries that were pushed together stay together.  The handler of a     *)
(* component that is replaced finds its replacement under it, and the handler *)
(* of a vector creator its multibinding.                                      *)
LEMMA UnderProperties ==
  ASSUME stack \in Seq(Entry), stack # <<>>, WellPaired(stack)
  PROVE  /\ Top.kind = "replaced" =>
              /\ Len(stack) > 1
              /\ Under.kind = "replacement"
         /\ Top.kind = "multibinding_vector_creator" =>
              /\ Len(stack) > 1
              /\ Under.kind \in MultibindingKind
BY TopProperties DEF WellPaired, Paired, Top, Under

(* An entry that stays, over the same entry, is still paired.                 *)
LEMMA StaysPaired ==
  ASSUME NEW s, NEW t, NEW i \in Nat, NEW j \in Nat, Paired(s, j),
         t[i] = s[j], i > 1 <=> j > 1, j > 1 => t[i - 1] = s[j - 1],
         s[j].kind \in {"replacement"} \cup MultibindingKind => i < Len(t)
  PROVE  Paired(t, i)
BY DEF Paired

(* What opens a pair is not at the back of a sequence that is well paired,    *)
(* nor under an entry that does not close one.                                *)
LEMMA NotOpen ==
  ASSUME NEW s, WellPaired(s), NEW i \in Nat \ {0},
         i + 1 \in DOMAIN s,
         s[i + 1].kind \notin {"replaced", "multibinding_vector_creator"}
  PROVE  s[i].kind \notin {"replacement"} \cup MultibindingKind
<1>1. i + 1 > 1 /\ i + 1 - 1 = i
  OBVIOUS
<1> QED BY <1>1 DEF WellPaired, Paired

(* Popping an entry that has no second half leaves the others paired.         *)
LEMMA PopOnePaired ==
  ASSUME stack \in Seq(Entry), stack # <<>>, WellPaired(stack),
         Top.kind \notin {"replaced", "multibinding_vector_creator"}
  PROVE  WellPaired(Pop(1))
<1> DEFINE p == Pop(1)
<1>1. /\ Len(stack) \in Nat \ {0} /\ DOMAIN stack = 1 .. Len(stack)
      /\ 1 \in Nat /\ 1 <= Len(stack)
  BY TopProperties
<1>2. /\ Len(p) = Len(stack) - 1
      /\ DOMAIN p = 1 .. Len(stack) - 1
      /\ \A i \in 1 .. Len(stack) - 1 : p[i] = stack[i]
  BY <1>1, PopProperties
<1> HIDE DEF p
<1>3. ASSUME NEW i \in DOMAIN p PROVE Paired(p, i)
  <2>1. /\ i \in Nat \ {0} /\ i \in DOMAIN stack /\ i <= Len(p)
        /\ p[i] = stack[i] /\ (i > 1 => p[i - 1] = stack[i - 1])
    BY <1>1, <1>2
  <2>2. i = Len(p) => stack[i].kind \notin {"replacement"} \cup MultibindingKind
    <3>1. i = Len(p) => i + 1 = Len(stack) /\ i + 1 \in DOMAIN stack
      BY <1>1, <1>2
    <3> QED BY <2>1, <3>1, NotOpen DEF Top
  <2>3. stack[i].kind \in {"replacement"} \cup MultibindingKind => i < Len(p)
    BY <1>1, <1>2, <2>1, <2>2
  <2>4. Paired(stack, i)
    BY <2>1 DEF WellPaired
  <2> QED BY <2>1, <2>3, <2>4, StaysPaired
<1> QED BY <1>3 DEF WellPaired, p

(* Popping an entry with its second half leaves the others paired.            *)
LEMMA PopTwoPaired ==
  ASSUME stack \in Seq(Entry), stack # <<>>, WellPaired(stack),
         Top.kind \in {"replaced", "multibinding_vector_creator"}
  PROVE  WellPaired(Pop(2))
<1> DEFINE p == Pop(2)
<1>1. /\ Len(stack) \in Nat \ {0} /\ DOMAIN stack = 1 .. Len(stack)
      /\ 2 \in Nat /\ 2 <= Len(stack)
      /\ Under.kind \in {"replacement"} \cup MultibindingKind
  BY TopProperties, UnderProperties
<1>2. /\ Len(p) = Len(stack) - 2
      /\ DOMAIN p = 1 .. Len(stack) - 2
      /\ \A i \in 1 .. Len(stack) - 2 : p[i] = stack[i]
  BY <1>1, PopProperties
<1> HIDE DEF p
<1>3. stack[Len(stack) - 1].kind
        \notin {"replaced", "multibinding_vector_creator"}
  BY <1>1 DEF Under, MultibindingKind
<1>4. ASSUME NEW i \in DOMAIN p PROVE Paired(p, i)
  <2>1. /\ i \in Nat \ {0} /\ i \in DOMAIN stack /\ i <= Len(p)
        /\ p[i] = stack[i] /\ (i > 1 => p[i - 1] = stack[i - 1])
    BY <1>1, <1>2
  <2>2. i = Len(p) => stack[i].kind \notin {"replacement"} \cup MultibindingKind
    <3>1. i = Len(p) => i + 1 = Len(stack) - 1 /\ i + 1 \in DOMAIN stack
      BY <1>1, <1>2
    <3> QED BY <1>3, <2>1, <3>1, NotOpen
  <2>3. stack[i].kind \in {"replacement"} \cup MultibindingKind => i < Len(p)
    BY <1>1, <1>2, <2>1, <2>2
  <2>4. Paired(stack, i)
    BY <2>1 DEF WellPaired
  <2> QED BY <2>1, <2>3, <2>4, StaysPaired
<1> QED BY <1>4 DEF WellPaired, p

(* A lazy entry may turn into its replacement or its end marker.              *)
LEMMA ReplaceTopPaired ==
  ASSUME stack \in Seq(Entry), stack # <<>>, WellPaired(stack),
         Top.kind = "lazy",
         NEW e \in Entry, e.kind \in {"lazy", "end_marker"}
  PROVE  WellPaired(ReplaceTop(e))
<1> DEFINE s == ReplaceTop(e)
           n == Len(stack)
<1>1. n \in Nat \ {0} /\ DOMAIN stack = 1 .. n
  BY TopProperties
<1>2. /\ Len(s) = n /\ DOMAIN s = 1 .. n /\ s[n] = e
      /\ \A i \in 1 .. n - 1 : s[i] = stack[i]
  BY <1>1, ReplaceTopProperties
<1>3. stack[n].kind = "lazy" /\ \A i \in DOMAIN stack : Paired(stack, i)
  BY DEF Top, WellPaired
<1> HIDE DEF s, n
<1>4. ASSUME NEW i \in DOMAIN s PROVE Paired(s, i)
  <2>1. CASE i = n
    <3>1. n > 1 => s[n - 1] = stack[n - 1]
      BY <1>1, <1>2
    <3>2. Paired(stack, n)
      BY <1>1, <1>3
    <3> QED BY <1>2, <1>3, <2>1, <3>1, <3>2 DEF Paired, MultibindingKind
  <2>2. CASE i # n
    <3>1. /\ i \in Nat /\ i < Len(s) /\ i \in DOMAIN stack /\ s[i] = stack[i]
          /\ i > 1 => s[i - 1] = stack[i - 1]
      BY <1>1, <1>2, <2>2
    <3> QED BY <1>3, <3>1, StaysPaired
  <2> QED BY <2>1, <2>2
<1> QED BY <1>4 DEF WellPaired, s

(* The entries of a component may be pushed on top of the stack.              *)
LEMMA ConcatPaired ==
  ASSUME NEW s \in Seq(Entry), NEW t \in Seq(Entry),
         WellPaired(s), WellPaired(t)
  PROVE  WellPaired(s \o t)
<1> DEFINE u == s \o t
           m == Len(s)
           n == Len(t)
<1>1. /\ m \in Nat /\ n \in Nat
      /\ DOMAIN s = 1 .. m /\ DOMAIN t = 1 .. n
  BY LenProperties
<1>2. /\ u \in Seq(Entry)
      /\ Len(u) = m + n
      /\ \A i \in 1 .. m + n : u[i] = IF i <= m THEN s[i] ELSE t[i - m]
  BY ConcatProperties
<1>3. DOMAIN u = 1 .. m + n
  BY <1>2, LenProperties
<1>4. /\ \A i \in 1 .. m : Paired(s, i)
      /\ \A i \in 1 .. n : Paired(t, i)
  BY <1>1 DEF WellPaired
<1>5. m = Len(s) /\ n = Len(t)
  OBVIOUS
<1> HIDE DEF u, m, n
<1>6. ASSUME NEW i \in DOMAIN u PROVE Paired(u, i)
  <2>1. CASE i <= m
    <3>1. /\ i \in Nat /\ i \in 1 .. m /\ u[i] = s[i]
          /\ i > 1 => u[i - 1] = s[i - 1]
      BY <1>1, <1>2, <1>3, <2>1
    <3>2. Paired(s, i)
      BY <1>4, <3>1
    <3>3. s[i].kind \in {"replacement"} \cup MultibindingKind => i < Len(u)
      BY <1>1, <1>2, <1>5, <3>1, <3>2 DEF Paired
    <3> QED BY <3>1, <3>2, <3>3, StaysPaired
  <2>2. CASE i = m + 1
    <3>1. 1 \in 1 .. n /\ u[i] = t[1] /\ i - 1 = m
      BY <1>1, <1>2, <1>3, <2>2
    <3>2. i > 1 => m \in 1 .. m /\ u[i - 1] = s[m]
      BY <1>1, <1>2, <1>3, <2>2
    <3>3. Paired(t, 1) /\ (i > 1 => Paired(s, m))
      BY <1>4, <3>1, <3>2
    <3>4. /\ t[1].kind \notin {"replaced", "multibinding_vector_creator"}
          /\ t[1].kind \in {"replacement"} \cup MultibindingKind => 1 < n
      BY <1>5, <3>3 DEF Paired
    <3>5. i > 1 => s[m].kind \notin {"replacement"} \cup MultibindingKind
      BY <1>1, <1>5, <3>3 DEF Paired
    <3>6. 1 < n => i < Len(u)
      BY <1>1, <1>2, <2>2
    <3> QED BY <3>1, <3>2, <3>4, <3>5, <3>6 DEF Paired
  <2>3. CASE i > m + 1
    <3>1. /\ i \in Nat /\ i - m \in Nat /\ i - m \in 1 .. n /\ i - m > 1
          /\ i > 1 /\ u[i] = t[i - m] /\ u[i - 1] = t[i - m - 1]
      BY <1>1, <1>2, <1>3, <2>3
    <3>2. Paired(t, i - m)
      BY <1>4, <3>1
    <3>3. t[i - m].kind \in {"replacement"} \cup MultibindingKind => i - m < n
      BY <1>5, <3>2 DEF Paired
    <3>4. i - m < n => i < Len(u)
      BY <1>1, <1>2, <3>1
    <3> QED BY <3>1, <3>2, <3>3, <3>4, StaysPaired
  <2> QED BY <1>1, <1>3, <2>1, <2>2, <2>3
<1> QED BY <1>6 DEF WellPaired, u

-----------------------------------------------------------------------------
(* What the operators on the heap and on the allocator data return.           *)
LEMMA IndicesAreCounted ==
  ASSUME NEW S, NEW s \in Seq(S), NEW T \in SUBSET DOMAIN s
  PROVE  Cardinality(T) \in Nat
<1>1. Len(s) \in Nat /\ DOMAIN s = 1 .. Len(s)
  BY LenProperties
<1>2. IsFiniteSet(DOMAIN s)
  BY <1>1, FS_Interval
<1> QED BY <1>2, FS_Subset, FS_CardinalityType

(* The places of the elements of A in a sequence.                             *)
Places(s, A) == {i \in DOMAIN s : s[i] \in A}

(* In a concatenation there are as many as in its two parts.                  *)
LEMMA PlacesConcatenated ==
  ASSUME NEW R, NEW s \in Seq(R), NEW t \in Seq(R), NEW A
  PROVE  /\ Cardinality(Places(s, A)) \in Nat /\ Cardinality(Places(t, A)) \in Nat
         /\ Cardinality(Places(s \o t, A))
              = Cardinality(Places(s, A)) + Cardinality(Places(t, A))
<1> DEFINE m == Len(s)
           n == Len(t)
           u == s \o t
           S == Places(s, A)
           T == Places(t, A)
           V == {i \in (m + 1) .. (m + n) : t[i - m] \in A}
           U == Places(u, A)
<1>1. m \in Nat /\ n \in Nat /\ DOMAIN s = 1 .. m /\ DOMAIN t = 1 .. n
  BY LenProperties
<1>2. /\ u \in Seq(R) /\ Len(u) = m + n
      /\ \A i \in 1 .. m + n : u[i] = IF i <= m THEN s[i] ELSE t[i - m]
  BY ConcatProperties
<1>3. DOMAIN u = 1 .. m + n
  BY <1>2, LenProperties
<1>4. /\ S = {i \in 1 .. m : s[i] \in A} /\ T = {i \in 1 .. n : t[i] \in A}
      /\ U = {i \in 1 .. m + n : u[i] \in A}
  BY <1>1, <1>3 DEF Places
<1> HIDE DEF m, n, u, S, T, U
<1>5. IsFiniteSet(S) /\ IsFiniteSet(T) /\ IsFiniteSet(V)
  <2>1. IsFiniteSet(1 .. m) /\ IsFiniteSet(1 .. n) /\ IsFiniteSet((m + 1) .. (m + n))
    BY <1>1, FS_Interval
  <2>2. /\ S \in SUBSET (1 .. m) /\ T \in SUBSET (1 .. n)
        /\ V \in SUBSET ((m + 1) .. (m + n))
    BY <1>4
  <2> HIDE DEF V
  <2> QED BY <2>1, <2>2, FS_Subset
<1>6. U = S \cup V /\ S \cap V = {}
  <2>1. ASSUME NEW i
        PROVE  i \in U <=> i \in S \/ i \in V
    <3>1. CASE i \in 1 .. m
      <4>1. i \in 1 .. m + n /\ u[i] = s[i] /\ i \notin (m + 1) .. (m + n)
        BY <1>1, <1>2, <3>1
      <4> QED BY <1>4, <3>1, <4>1
    <3>2. CASE i \in (m + 1) .. (m + n)
      <4>1. i \in 1 .. m + n /\ u[i] = t[i - m] /\ i \notin 1 .. m
        BY <1>1, <1>2, <3>2
      <4> QED BY <1>4, <3>2, <4>1
    <3>3. CASE i \notin 1 .. m /\ i \notin (m + 1) .. (m + n)
      <4>1. i \notin 1 .. m + n
        BY <1>1, <3>3
      <4> QED BY <1>4, <3>3, <4>1
    <3> QED BY <3>1, <3>2, <3>3
  <2>2. ASSUME NEW i \in S, i \in V
        PROVE  FALSE
    BY <1>1, <1>4, <2>2
  <2> HIDE DEF V
  <2> QED BY <2>1, <2>2
<1>7. Cardinality(V) = Cardinality(T)
  <2> DEFINE f == [i \in T |-> i + m]
  <2>1. \A i \in T : i \in Nat /\ i + m \in V
    BY <1>1, <1>4
  <2>2. \A i \in V : i - m \in T /\ (i - m) + m = i
    BY <1>1, <1>4
  <2>3. \A i, j \in T : i + m = j + m => i = j
    BY <1>1, <2>1
  <2> HIDE DEF V
  <2>4. f \in Bijection(T, V)
    <3>1. f \in [T -> V]
      BY <2>1
    <3>2. \A i, j \in T : f[i] = f[j] => i = j
      BY <2>3
    <3>3. \A v \in V : \E i \in T : f[i] = v
      BY <2>2
    <3> QED BY <3>1, <3>2, <3>3 DEF Bijection, Injection, Surjection, IsInjective
  <2>5. ExistsBijection(T, V)
    BY <2>4 DEF ExistsBijection
  <2> QED BY <1>5, <2>5, FS_Bijection
<1> HIDE DEF V
<1>8. /\ Cardinality(S) \in Nat /\ Cardinality(T) \in Nat
      /\ Cardinality(U) = Cardinality(S) + Cardinality(V) - Cardinality(S \cap V)
      /\ Cardinality(S \cap V) = 0
  BY <1>5, <1>6, FS_CardinalityType, FS_Union, FS_EmptySet
<1>9. Cardinality(U) = Cardinality(S) + Cardinality(T)
  BY <1>7, <1>8
<1> QED BY <1>8, <1>9 DEF S, T, U, u

(* Creating the entries of a component counts owners in integers.             *)
LEMMA CreateType ==
  ASSUME NEW l \in [Component -> Int], NEW s \in Seq(Entry)
  PROVE  Create(l, s) \in [Component -> Int]
<1>1. \A c : Owners(s, c) \in Nat
  <2>1. SUFFICES ASSUME NEW c PROVE Owners(s, c) \in Nat
    OBVIOUS
  <2>2. {i \in DOMAIN s : s[i].kind \in ComponentKind /\ s[i].comp = c}
          \in SUBSET DOMAIN s
    OBVIOUS
  <2> QED BY <2>2, IndicesAreCounted DEF Owners
<1> QED BY <1>1 DEF Create

(* Copying or destroying one ComponentInterface keeps the counts.             *)
LEMMA CopyDestroyType ==
  ASSUME NEW l \in [Component -> Int], NEW c \in Component
  PROVE  /\ Copy(l, c) \in [Component -> Int]
         /\ Destroy(l, c) \in [Component -> Int]
BY DEF Copy, Destroy

(* The destructor of the context keeps the counts integers.                   *)
LEMMA DestroyAllType ==
  ASSUME NEW l \in [Component -> Int], NEW expanded, NEW repl
  PROVE  DestroyAll(l, expanded, repl) \in [Component -> Int]
<1>1. \A c : OwnedBy(expanded, repl, c) \in Int
  <2>1. SUFFICES ASSUME NEW c PROVE OwnedBy(expanded, repl, c) \in Int
    OBVIOUS
  <2>2. {d \in Component : repl[d] = c} \in SUBSET Component
    OBVIOUS
  <2>3. Cardinality({d \in Component : repl[d] = c}) \in Nat
    BY <2>2, ComponentAssumption, FS_Subset, FS_CardinalityType
  <2> QED BY <2>3 DEF OwnedBy
<1> QED BY <1>1 DEF DestroyAll

(* addType and addExternallyAllocatedType keep the allocator data.            *)
LEMMA ReserveType ==
  ASSUME allocatorData \in AllocatorData, NEW e, e.type \in Type
  PROVE  Reserve(e) \in AllocatorData
<1>1. AddType(allocatorData, e.type) \in AllocatorData
  BY DEF AddType, AllocatorData
<1>2. AddExternallyAllocatedType(allocatorData) \in AllocatorData
  BY DEF AddExternallyAllocatedType, AllocatorData
<1> QED BY <1>1, <1>2 DEF Reserve

(* addMultibindings only adds to what the allocator reserves.                 *)
LEMMA AddMultibindingsType ==
  ASSUME allocatorData \in AllocatorData,
         multibindingsVector \in Seq(Multibinding), AddMultibindings
  PROVE  allocatorData' \in AllocatorData
<1> DEFINE external == {i \in DOMAIN multibindingsVector :
                          multibindingsVector[i].kind =
                            "multibinding_needs_no_allocation"}
           counted(t) == CountMultibindings("multibinding_needs_allocation", t)
<1>1. Cardinality(external) \in Nat
  BY IndicesAreCounted
<1>2. ASSUME NEW t PROVE counted(t) \in Nat
  <2>1. {i \in DOMAIN multibindingsVector :
           /\ multibindingsVector[i].kind = "multibinding_needs_allocation"
           /\ multibindingsVector[i].type = t}
        \in SUBSET DOMAIN multibindingsVector
    OBVIOUS
  <2> QED BY <2>1, IndicesAreCounted DEF CountMultibindings
<1>3. allocatorData' =
        [types |-> [t \in Type |-> allocatorData.types[t] + counted(t)],
         external |-> allocatorData.external + Cardinality(external)]
  BY DEF AddMultibindings
<1> HIDE DEF external, counted
<1> QED BY <1>1, <1>2, <1>3 DEF AllocatorData

(* The maps that nothing has been put into are of every map type.             *)
LEMMA EmptyTypes ==
  /\ NothingBound \in BindingMap
  /\ NothingBound \in CompressionMap
  /\ NothingBound \in UndoMap
  /\ NothingReplaced \in ReplacementMap
  /\ NothingAllocated \in AllocatorData
  /\ EmptyStorage \in NormalizedComponentStorage
<1>1. /\ NothingBound \in BindingMap
      /\ NothingBound \in CompressionMap
      /\ NothingBound \in UndoMap
  BY DEF NothingBound, BindingMap, CompressionMap, UndoMap
<1>2. NothingReplaced \in ReplacementMap
  BY DEF NothingReplaced, ReplacementMap
<1>3. NothingAllocated \in AllocatorData
  BY DEF NothingAllocated, AllocatorData
<1>4. <<>> \in Seq(Multibinding)
  BY EmptySeq
<1> QED BY <1>1, <1>2, <1>3, <1>4 DEF EmptyStorage, NormalizedComponentStorage

(* install() makes one lazy entry, which is paired on its own.                *)
LEMMA InstallType ==
  ASSUME NEW c \in Component
  PROVE  /\ Install(c) \in Seq(Entry)
         /\ Len(Install(c)) = 1
         /\ Install(c)[1].kind = "lazy"
         /\ WellPaired(Install(c))
<1>1. [kind |-> "lazy", comp |-> c] \in Entry
  BY DEF Entry, ComponentEntry, ComponentKind
<1>2. /\ Install(c) \in Seq(Entry)
      /\ Len(Install(c)) = 1
      /\ DOMAIN Install(c) = 1 .. 1
      /\ Install(c)[1] = [kind |-> "lazy", comp |-> c]
  BY <1>1 DEF Install
<1> QED BY <1>2 DEF WellPaired, Paired, MultibindingKind

(* What undoing a merge brings back for a type: a remembered binding of the   *)
(* pair visited last, of which only the kind has changed.                     *)
LEMMA BroughtBack ==
  ASSUME base \in NormalizedComponentStorage, NEW w \in LastUndone, NEW t \in Undone
  PROVE  /\ w[t] \in CompressionsToUndo /\ w[t] \in Type /\ base.undo[w[t]] # Unbound
         /\ MergedBinding(t, w) \in Binding
         /\ \/ /\ base.undo[w[t]].i_type = t
               /\ MergedBinding(t, w).create = base.undo[w[t]].i_binding.create
               /\ MergedBinding(t, w).deps = base.undo[w[t]].i_binding.deps
            \/ /\ w[t] = t
               /\ MergedBinding(t, w).create = base.undo[w[t]].c_binding.create
               /\ MergedBinding(t, w).deps = base.undo[w[t]].c_binding.deps
<1>1. PICK c \in CompressionsToUndo : c = w[t] /\ t \in Pair(c)
  BY DEF LastUndone
<1>2. c \in Type /\ base.undo[c] # Unbound /\ base.undo[c] \in UndoInfo
  BY <1>1 DEF CompressionsToUndo, NormalizedComponentStorage, UndoMap
<1>3. PICK i \in Binding, d \in Binding :
        i = base.undo[c].i_binding /\ d = base.undo[c].c_binding
  BY <1>2 DEF UndoInfo
<1>4. /\ [i EXCEPT !.kind = "needs_no_allocation"] \in Binding
      /\ [i EXCEPT !.kind = "needs_no_allocation"].create = i.create
      /\ [i EXCEPT !.kind = "needs_no_allocation"].deps = i.deps
      /\ [d EXCEPT !.kind = "unknown_allocation"] \in Binding
      /\ [d EXCEPT !.kind = "unknown_allocation"].create = d.create
      /\ [d EXCEPT !.kind = "unknown_allocation"].deps = d.deps
  BY DEF Binding, BindingKind
<1>5. CASE t = base.undo[c].i_type
  <2>1. MergedBinding(t, w) = [i EXCEPT !.kind = "needs_no_allocation"]
    BY <1>1, <1>3, <1>5 DEF MergedBinding, RestoredBinding
  <2> QED BY <1>1, <1>2, <1>3, <1>4, <1>5, <2>1
<1>6. CASE t # base.undo[c].i_type
  <2>1. t = c /\ MergedBinding(t, w) = [d EXCEPT !.kind = "unknown_allocation"]
    BY <1>1, <1>3, <1>6 DEF MergedBinding, RestoredBinding, Pair
  <2> QED BY <1>1, <1>2, <1>3, <1>4, <2>1
<1> QED BY <1>5, <1>6

(* The binding of a type in the merged graph is a binding, or there is none.  *)
LEMMA MergedBindingType ==
  ASSUME base \in NormalizedComponentStorage, bindingDataMap \in BindingMap,
         NEW t \in Type, NEW w \in LastUndone
  PROVE  MergedBinding(t, w) \in Binding \cup {Unbound}
<1>1. CASE t \in Undone
  BY <1>1, BroughtBack
<1>2. CASE t \notin Undone
  BY <1>2 DEF MergedBinding, NormalizedComponentStorage, BindingMap
<1> QED BY <1>1, <1>2

-----------------------------------------------------------------------------
(* The inductive invariant of the types: TypeOK needs the pairing, because a  *)
(* handler reads the entry under the one that it handles.                     *)
TypeInv == prog \in Program /\ TypeOK /\ WellPaired(stack)

(* A program, as ProgramAssumption describes it.                              *)
LEMMA ProgramType ==
  ASSUME prog \in Program
  PROVE  /\ prog.root \in Component
         /\ prog.base \in Component \cup {NoComponent}
         /\ \A c \in Component : /\ prog.body[c] \in Seq(Entry)
                                 /\ NoMarkers(prog.body[c])
                                 /\ WellPaired(prog.body[c])
BY ProgramAssumption

(* The replacement of a component is a component, or there is none.           *)
LEMMA ReplacementType ==
  ASSUME TypeOK, NEW c \in Component
  PROVE  Replacement(c) \in Component \cup {NoComponent}
BY DEF TypeOK, Replacement, ReplacementMap, NormalizedComponentStorage

(* What a handler knows of the entry that it handles.                         *)
LEMMA HandledEntry ==
  ASSUME TypeInv, NEW kinds, Handling(kinds)
  PROVE  /\ stack # <<>> /\ Top \in Entry /\ Top.kind \in kinds
         /\ Top.kind \in BindingKind => Top \in Binding
         /\ Top.kind = "compressed" => Top \in CompressedBinding
         /\ Top.kind \in ComponentKind => Top.comp \in Component
         /\ Top.kind = "replaced" => Under \in Entry /\ Under.comp \in Component
         /\ Top.kind = "multibinding_vector_creator" => Under \in Multibinding
<1>1. stack \in Seq(Entry) /\ stack # <<>> /\ WellPaired(stack)
  BY DEF TypeInv, TypeOK, Handling
<1>2. Top \in Entry /\ (Len(stack) > 1 => Under \in Entry)
  BY <1>1, TopProperties
<1>3. Top.kind \in ComponentKind => Top.comp \in Component
  BY <1>2, EntryOfKind DEF ComponentEntry
<1>4. Top.kind = "replaced" => Under \in Entry /\ Under.comp \in Component
  <2>1. Top.kind = "replaced" => Under \in Entry /\ Under.kind = "replacement"
    BY <1>1, <1>2, UnderProperties
  <2>2. Top.kind = "replaced" => Under \in ComponentEntry
    BY <2>1, EntryOfKind DEF ComponentKind
  <2> QED BY <2>1, <2>2 DEF ComponentEntry
<1>5. Top.kind = "multibinding_vector_creator" => Under \in Multibinding
  BY <1>1, <1>2, UnderProperties, EntryOfKind
<1> QED BY <1>1, <1>2, <1>3, <1>4, <1>5, EntryOfKind DEF Handling

(* Popping the entry handled, or the pair that it closes.                     *)
LEMMA PopType ==
  ASSUME TypeInv, NEW kinds, Handling(kinds)
  PROVE  /\ Top.kind \notin {"replaced", "multibinding_vector_creator"} =>
              Pop(1) \in Seq(Entry) /\ WellPaired(Pop(1))
         /\ Top.kind \in {"replaced", "multibinding_vector_creator"} =>
              /\ Len(stack) >= 2
              /\ Pop(2) \in Seq(Entry) /\ WellPaired(Pop(2))
<1>1. stack \in Seq(Entry) /\ stack # <<>> /\ WellPaired(stack)
  BY DEF TypeInv, TypeOK, Handling
<1>2. Len(stack) \in Nat \ {0}
  BY <1>1, TopProperties
<1>3. 1 \in Nat /\ 1 <= Len(stack) /\ Pop(1) \in Seq(Entry)
  BY <1>1, <1>2, PopProperties
<1>4. Top.kind \in {"replaced", "multibinding_vector_creator"} =>
        2 \in Nat /\ 2 <= Len(stack) /\ Pop(2) \in Seq(Entry)
  BY <1>1, <1>2, UnderProperties, PopProperties
<1> QED BY <1>1, <1>2, <1>3, <1>4, PopOnePaired, PopTwoPaired

(* The constructor of the context establishes the types.                      *)
LEMMA TypeInvInit == Init => TypeInv
<1> SUFFICES ASSUME Init PROVE TypeInv
  OBVIOUS
<1>1. prog \in Program /\ prog.root \in Component
        /\ prog.base \in Component \cup {NoComponent}
  BY ProgramType DEF Init
<1>2. PICK c \in Component : stack = Install(c)
  BY <1>1 DEF Init
<1>3. stack \in Seq(Entry) /\ WellPaired(stack)
  BY <1>2, InstallType
<1>4. live \in [Component -> Int] /\ installs \in [Component -> Nat]
  <2>1. [c0 \in Component |-> 0] \in [Component -> Int]
    OBVIOUS
  <2> QED BY <1>3, <2>1, CreateType DEF Init
<1>5. <<>> \in Seq(Multibinding)
  BY EmptySeq
<1> QED BY <1>1, <1>3, <1>4, <1>5, EmptyTypes DEF Init, TypeInv, TypeOK

(* Every handler keeps the types and the pairing of the entries.              *)
LEMMA TypeInvNext == TypeInv /\ [Next]_vars => TypeInv'
<1> SUFFICES ASSUME TypeInv, [Next]_vars PROVE TypeInv'
  OBVIOUS
<1> USE DEF expansionVars, bindingVars, storageVars
<1>1. CASE HandleBinding
  <2>1. /\ Handling({"constructed_object", "needs_allocation",
                     "needs_no_allocation"})
        /\ Top \in Binding /\ Top.type \in Type
        /\ Top.kind \notin {"replaced", "multibinding_vector_creator"}
    BY <1>1, HandledEntry DEF HandleBinding, BindingKind, Binding
  <2>2. stack' \in Seq(Entry) /\ WellPaired(stack)'
    BY <1>1, <2>1, PopType DEF HandleBinding
  <2>3. allocatorData' \in AllocatorData
    BY <1>1, <2>1, ReserveType DEF HandleBinding, TypeInv, TypeOK
  <2>4. bindingDataMap' \in BindingMap
    BY <1>1, <2>1 DEF HandleBinding, TypeInv, TypeOK, BindingMap
  <2> QED BY <1>1, <2>2, <2>3, <2>4 DEF HandleBinding, TypeInv, TypeOK
<1>2. CASE HandleInconsistentBinding
  BY <1>2 DEF HandleInconsistentBinding, Fail, TypeInv, TypeOK, Errors
<1>3. CASE HandleCompressedBinding
  <2>1. Handling({"compressed"}) /\ Top \in CompressedBinding
          /\ Top.kind \notin {"replaced", "multibinding_vector_creator"}
    BY <1>3, HandledEntry DEF HandleCompressedBinding
  <2>2. stack' \in Seq(Entry) /\ WellPaired(stack)'
    BY <1>3, <2>1, PopType DEF HandleCompressedBinding
  <2>3. compressedBindings' \in CompressionMap
    BY <1>3, <2>1 DEF HandleCompressedBinding, TypeInv, TypeOK, CompressionMap
  <2> QED BY <1>3, <2>2, <2>3 DEF HandleCompressedBinding, TypeInv, TypeOK
<1>4. CASE HandleMultibinding
  <2>1. Handling({"multibinding_vector_creator"}) /\ Under \in Multibinding
          /\ Top.kind = "multibinding_vector_creator"
    BY <1>4, HandledEntry DEF HandleMultibinding
  <2>2. stack' \in Seq(Entry) /\ WellPaired(stack)'
    BY <1>4, <2>1, PopType DEF HandleMultibinding
  <2>3. multibindingsVector' \in Seq(Multibinding)
    BY <1>4, <2>1, AppendProperties DEF HandleMultibinding, TypeInv, TypeOK
  <2> QED BY <1>4, <2>2, <2>3 DEF HandleMultibinding, TypeInv, TypeOK
<1>5. CASE HandleReplacedTooLate
  BY <1>5 DEF HandleReplacedTooLate, Fail, TypeInv, TypeOK, Errors
<1>6. CASE HandleReplaced
  <2>1. Handling({"replaced"}) /\ Top.kind = "replaced"
          /\ Top.comp \in Component /\ Under.comp \in Component
    BY <1>6, HandledEntry DEF HandleReplaced, ComponentKind
  <2>2. stack' \in Seq(Entry) /\ WellPaired(stack)'
    BY <1>6, <2>1, PopType DEF HandleReplaced
  <2>3. replacements' \in ReplacementMap
    BY <1>6, <2>1 DEF HandleReplaced, TypeInv, TypeOK, ReplacementMap
  <2> QED BY <1>6, <2>2, <2>3 DEF HandleReplaced, TypeInv, TypeOK
<1>7. CASE HandleReplacedAgain
  <2>1. Handling({"replaced"}) /\ Top.kind = "replaced"
          /\ Top.comp \in Component /\ Under.comp \in Component
    BY <1>7, HandledEntry DEF HandleReplacedAgain, ComponentKind
  <2>2. stack' \in Seq(Entry) /\ WellPaired(stack)'
    BY <1>7, <2>1, PopType DEF HandleReplacedAgain
  <2>3. live' \in [Component -> Int]
    BY <1>7, <2>1, CopyDestroyType DEF HandleReplacedAgain, TypeInv, TypeOK
  <2> QED BY <1>7, <2>2, <2>3 DEF HandleReplacedAgain, TypeInv, TypeOK
<1>8. CASE HandleReplacedDifferently
  BY <1>8 DEF HandleReplacedDifferently, Fail, TypeInv, TypeOK, Errors
<1>9. CASE SkipLazyComponent
  <2>1. Handling({"lazy"}) /\ Top.kind = "lazy" /\ Top.comp \in Component
    BY <1>9, HandledEntry DEF SkipLazyComponent, ComponentKind
  <2>2. stack' \in Seq(Entry) /\ WellPaired(stack)'
    BY <1>9, <2>1, PopType DEF SkipLazyComponent
  <2>3. live' \in [Component -> Int]
    BY <1>9, <2>1, CopyDestroyType DEF SkipLazyComponent, TypeInv, TypeOK
  <2> QED BY <1>9, <2>2, <2>3 DEF SkipLazyComponent, TypeInv, TypeOK
<1>10. CASE PerformComponentReplacement
  <2> DEFINE r == Replacement(Top.comp)
             e == [kind |-> "lazy", comp |-> r]
  <2>1. /\ Handling({"lazy"}) /\ Top.kind = "lazy" /\ Top.comp \in Component
        /\ stack \in Seq(Entry) /\ stack # <<>> /\ WellPaired(stack)
    BY <1>10, HandledEntry
       DEF PerformComponentReplacement, ComponentKind, TypeInv, TypeOK
  <2>2. r \in Component
    BY <1>10, <2>1, ReplacementType DEF PerformComponentReplacement, TypeInv
  <2>3. e \in Entry /\ e.kind \in {"lazy", "end_marker"}
    BY <2>2 DEF Entry, ComponentEntry, ComponentKind
  <2>4. stack' \in Seq(Entry) /\ WellPaired(stack)'
    BY <1>10, <2>1, <2>3, ReplaceTopProperties, ReplaceTopPaired
       DEF PerformComponentReplacement
  <2>5. live' \in [Component -> Int]
    BY <1>10, <2>1, <2>2, CopyDestroyType
       DEF PerformComponentReplacement, TypeInv, TypeOK
  <2> QED BY <1>10, <2>4, <2>5 DEF PerformComponentReplacement, TypeInv, TypeOK
<1>11. CASE DetectInstallationLoop
  BY <1>11 DEF DetectInstallationLoop, Fail, TypeInv, TypeOK, Errors
<1>12. CASE ExpandLazyComponent
  <2> DEFINE c == Top.comp
             e == [kind |-> "end_marker", comp |-> c]
             s == ReplaceTop(e)
  <2>1. /\ Handling({"lazy"}) /\ Top.kind = "lazy" /\ c \in Component
        /\ stack \in Seq(Entry) /\ stack # <<>> /\ WellPaired(stack)
    BY <1>12, HandledEntry
       DEF ExpandLazyComponent, ComponentKind, TypeInv, TypeOK
  <2>2. e \in Entry /\ e.kind \in {"lazy", "end_marker"}
    BY <2>1 DEF Entry, ComponentEntry, ComponentKind
  <2>3. s \in Seq(Entry) /\ WellPaired(s)
    BY <2>1, <2>2, ReplaceTopProperties, ReplaceTopPaired
  <2>4. prog.body[c] \in Seq(Entry) /\ WellPaired(prog.body[c])
    BY <2>1, ProgramType DEF TypeInv
  <2>5. stack' = s \o prog.body[c] /\ live' = Create(live, prog.body[c])
    BY <1>12 DEF ExpandLazyComponent
  <2> HIDE DEF s
  <2>6. stack' \in Seq(Entry) /\ WellPaired(stack)'
    BY <2>3, <2>4, <2>5, ConcatProperties, ConcatPaired
  <2>7. live' \in [Component -> Int]
    BY <2>4, <2>5, CreateType DEF TypeInv, TypeOK
  <2> QED BY <1>12, <2>1, <2>6, <2>7 DEF ExpandLazyComponent, TypeInv, TypeOK
<1>13. CASE HandleEndMarker
  <2>1. Handling({"end_marker"}) /\ Top.kind = "end_marker"
          /\ Top.comp \in Component
    BY <1>13, HandledEntry DEF HandleEndMarker, ComponentKind
  <2>2. stack' \in Seq(Entry) /\ WellPaired(stack)'
    BY <1>13, <2>1, PopType DEF HandleEndMarker
  <2> QED BY <1>13, <2>1, <2>2 DEF HandleEndMarker, TypeInv, TypeOK
<1>14. CASE StartCompression
  <2>1. compressedBindings' \in CompressionMap
    BY <1>14 DEF StartCompression, TypeInv, TypeOK, CompressionMap
  <2> QED BY <1>14, <2>1 DEF StartCompression, TypeInv, TypeOK
<1>15. CASE CompressBinding
  <2>1. PICK c \in Type :
          /\ compressedBindings[c] # Unbound
          /\ bindingDataMap[compressedBindings[c].type] # Unbound
          /\ bindingDataMap[c] # Unbound
          /\ undoInfo' = [undoInfo EXCEPT ![c] =
               IF phase = "undoable"
                 THEN [i_type |-> compressedBindings[c].type,
                       i_binding |-> bindingDataMap[compressedBindings[c].type],
                       c_binding |-> bindingDataMap[c]]
                 ELSE @]
          /\ bindingDataMap' = [bindingDataMap EXCEPT
               ![compressedBindings[c].type] =
                  [kind |-> bindingDataMap[c].kind,
                   type |-> compressedBindings[c].type,
                   create |-> compressedBindings[c].create,
                   deps |-> bindingDataMap[c].deps],
               ![c] = Unbound]
          /\ compressedBindings' = [compressedBindings EXCEPT ![c] = Unbound]
    BY <1>15 DEF CompressBinding, IsBound
  <2>2. compressedBindings[c] \in CompressedBinding
    BY <2>1 DEF TypeInv, TypeOK, CompressionMap
  <2>3. /\ compressedBindings[c].type \in Type
        /\ compressedBindings[c].create \in CreateFunction
    BY <2>2 DEF CompressedBinding
  <2>4. /\ bindingDataMap[c] \in Binding
        /\ bindingDataMap[compressedBindings[c].type] \in Binding
    BY <2>1, <2>3 DEF TypeInv, TypeOK, BindingMap
  <2>5. compressedBindings' \in CompressionMap
    BY <2>1 DEF TypeInv, TypeOK, CompressionMap
  <2>6. undoInfo' \in UndoMap
    BY <2>1, <2>3, <2>4 DEF TypeInv, TypeOK, UndoMap, UndoInfo
  <2>7. bindingDataMap' \in BindingMap
    <3>1. [kind |-> bindingDataMap[c].kind,
           type |-> compressedBindings[c].type,
           create |-> compressedBindings[c].create,
           deps |-> bindingDataMap[c].deps] \in Binding
      BY <2>3, <2>4 DEF Binding
    <3> QED BY <2>1, <2>3, <3>1 DEF TypeInv, TypeOK, BindingMap
  <2> QED BY <1>15, <2>5, <2>6, <2>7 DEF CompressBinding, TypeInv, TypeOK
<1>16. CASE CompressMissingBinding
  BY <1>16 DEF CompressMissingBinding, Fail, TypeInv, TypeOK, Errors
<1>17. CASE FinishPermanent
  <2>1. allocatorData' \in AllocatorData
    BY <1>17, AddMultibindingsType DEF FinishPermanent, TypeInv, TypeOK
  <2>2. live' \in [Component -> Int]
    BY <1>17, DestroyAllType DEF FinishPermanent, TypeInv, TypeOK
  <2> QED BY <1>17, <2>1, <2>2 DEF FinishPermanent, TypeInv, TypeOK
<1>18. CASE FinishUndoable
  <2>1. allocatorData' \in AllocatorData
    BY <1>18, AddMultibindingsType DEF FinishUndoable, TypeInv, TypeOK
  <2>2. base' \in NormalizedComponentStorage
    BY <1>18, <2>1
       DEF FinishUndoable, TypeInv, TypeOK, NormalizedComponentStorage
  <2> QED BY <1>18, <2>1, <2>2, EmptyTypes DEF FinishUndoable, TypeInv, TypeOK
<1>19. CASE StartAddTo
  <2>1. stack' \in Seq(Entry) /\ WellPaired(stack)'
    BY <1>19, ProgramType, InstallType DEF StartAddTo, TypeInv
  <2>2. live' \in [Component -> Int]
    BY <1>19, <2>1, CreateType DEF StartAddTo, TypeInv, TypeOK
  <2>3. allocatorData' \in AllocatorData
    BY <1>19 DEF StartAddTo, TypeInv, TypeOK, NormalizedComponentStorage
  <2>4. <<>> \in Seq(Multibinding)
    BY EmptySeq
  <2> QED BY <1>19, <2>1, <2>2, <2>3, <2>4, EmptyTypes
          DEF StartAddTo, TypeInv, TypeOK
<1>20. CASE FinishAddTo
  <2>1. allocatorData' \in AllocatorData
    BY <1>20, AddMultibindingsType DEF FinishAddTo, TypeInv, TypeOK
  <2>2. live' \in [Component -> Int]
    BY <1>20, DestroyAllType DEF FinishAddTo, TypeInv, TypeOK
  <2>3. graph' \in BindingMap
    <3>1. PICK w \in LastUndone : graph' = [t \in Type |-> MergedBinding(t, w)]
      BY <1>20 DEF FinishAddTo
    <3>2. \A t \in Type : MergedBinding(t, w) \in Binding \cup {Unbound}
      BY MergedBindingType DEF TypeInv, TypeOK
    <3> QED BY <3>1, <3>2 DEF BindingMap
  <2> QED BY <1>20, <2>1, <2>2, <2>3 DEF FinishAddTo, TypeInv, TypeOK
<1>21. CASE DestroyNormalizedComponent
  <2>1. live' \in [Component -> Int]
    BY <1>21, DestroyAllType DEF DestroyNormalizedComponent, TypeInv, TypeOK
  <2> QED BY <1>21, <2>1, EmptyTypes
          DEF DestroyNormalizedComponent, TypeInv, TypeOK
<1>22. CASE Terminated \/ UNCHANGED vars
  BY <1>22 DEF Terminated, vars, TypeInv, TypeOK
<1> QED BY <1>1, <1>2, <1>3, <1>4, <1>5, <1>6, <1>7, <1>8, <1>9, <1>10, <1>11,
           <1>12, <1>13, <1>14, <1>15, <1>16, <1>17, <1>18, <1>19, <1>20,
           <1>21, <1>22 DEF Next

(* In every reachable state the maps and the stack hold what their types say. *)
(* The entry that a handler takes from under the one at the back is of the    *)
(* kind that it asserts.                                                      *)
THEOREM TypeCorrectness == Spec => [](TypeOK /\ WellPaired(stack))
<1>1. TypeInv => TypeOK /\ WellPaired(stack)
  BY DEF TypeInv
<1> QED BY TypeInvInit, TypeInvNext, <1>1, PTL DEF Spec

-----------------------------------------------------------------------------
(* The inductive invariant of the expansion.  While components are expanded   *)
(* the function of a component that has not started has not been called; the  *)
(* stack is empty afterwards, and there is nothing in the normalized          *)
(* component before it has been built.                                        *)
ExpandedOnce ==
  /\ inProgress \cap (fullyExpanded \cup base.fullyExpanded) = {}
  /\ \A c \in Component :
       /\ installs[c] <= 1
       /\ status # "destroyed" /\ c \notin Started => installs[c] = 0

EmptyWhenNotRunning ==
  /\ status \in {"compressing", "ready", "destroyed"} => stack = <<>>
  /\ phase = "permanent" \/ (phase = "undoable" /\ status # "ready") =>
       base = EmptyStorage

ExpansionInv ==
  /\ MarkersMatchInProgress
  /\ ReplacedNeverInstalled
  /\ ExpandedOnce
  /\ EmptyWhenNotRunning

(* Two stacks with their end markers at the same places match the same set.   *)
LEMMA SameMarkers ==
  ASSUME NEW s, NEW t, NEW S, MarkersMatch(s, S),
         \A i, c : (i \in DOMAIN t /\ Marks(t, i, c))
                     <=> (i \in DOMAIN s /\ Marks(s, i, c))
  PROVE  MarkersMatch(t, S)
<1>1. ASSUME NEW i \in DOMAIN t, t[i].kind = "end_marker"
      PROVE  t[i].comp \in S
  <2>1. i \in DOMAIN s /\ Marks(s, i, t[i].comp)
    BY <1>1 DEF Marks
  <2> QED BY <2>1 DEF MarkersMatch, Marks
<1>2. ASSUME NEW c \in S
      PROVE  \E i \in DOMAIN t : \A j \in DOMAIN t : Marks(t, j, c) <=> j = i
  <2>1. PICK i \in DOMAIN s : \A j \in DOMAIN s : Marks(s, j, c) <=> j = i
    BY DEF MarkersMatch
  <2>2. i \in DOMAIN t /\ \A j \in DOMAIN t : Marks(t, j, c) <=> j = i
    BY <2>1
  <2> QED BY <2>2
<1> QED BY <1>1, <1>2 DEF MarkersMatch

(* Popping entries that are not end markers.                                  *)
LEMMA PopKeepsMarkers ==
  ASSUME stack \in Seq(Entry), NEW n \in Nat, n <= Len(stack), NEW S,
         MarkersMatch(stack, S),
         \A i \in DOMAIN stack : i > Len(stack) - n =>
           stack[i].kind # "end_marker"
  PROVE  MarkersMatch(Pop(n), S)
<1>1. /\ Len(stack) \in Nat /\ DOMAIN stack = 1 .. Len(stack)
      /\ DOMAIN Pop(n) = 1 .. Len(stack) - n
      /\ \A i \in 1 .. Len(stack) - n : Pop(n)[i] = stack[i]
  BY LenProperties, PopProperties
<1>2. \A i : i \in DOMAIN Pop(n) <=>
               i \in DOMAIN stack /\ ~(i > Len(stack) - n)
  BY <1>1
<1>3. \A i \in DOMAIN Pop(n) : Pop(n)[i] = stack[i]
  BY <1>1
<1>4. \A i, c : (i \in DOMAIN Pop(n) /\ Marks(Pop(n), i, c))
                  <=> (i \in DOMAIN stack /\ Marks(stack, i, c))
  BY <1>2, <1>3 DEF Marks
<1> QED BY <1>4, SameMarkers

(* The end marker at the back is the only one of its component.               *)
LEMMA PopMarker ==
  ASSUME stack \in Seq(Entry), stack # <<>>, Top.kind = "end_marker", NEW S,
         MarkersMatch(stack, S)
  PROVE  Top.comp \in S /\ MarkersMatch(Pop(1), S \ {Top.comp})
<1> DEFINE n == Len(stack)
           p == Pop(1)
           c == stack[n].comp
<1>1. n \in Nat \ {0} /\ DOMAIN stack = 1 .. n /\ n \in DOMAIN stack
  BY TopProperties
<1>2. 1 \in Nat /\ 1 <= n
  BY <1>1
<1>3. DOMAIN p = 1 .. n - 1 /\ \A i \in 1 .. n - 1 : p[i] = stack[i]
  BY <1>2, PopProperties
<1>4. stack[n].kind = "end_marker" /\ Top = stack[n]
  BY DEF Top
<1> HIDE DEF n, p
<1>5. /\ \A i \in DOMAIN p : i \in DOMAIN stack /\ i # n /\ p[i] = stack[i]
      /\ \A i \in DOMAIN stack : i # n => i \in DOMAIN p
  BY <1>1, <1>3
<1>6. c \in S /\ \A i \in DOMAIN stack : Marks(stack, i, c) => i = n
  <2>1. c \in S
    BY <1>1, <1>4 DEF MarkersMatch
  <2>2. PICK i \in DOMAIN stack : \A j \in DOMAIN stack :
          Marks(stack, j, c) <=> j = i
    BY <2>1 DEF MarkersMatch
  <2>3. Marks(stack, n, c)
    BY <1>4 DEF Marks
  <2> QED BY <1>1, <2>1, <2>2, <2>3
<1>7. ASSUME NEW i \in DOMAIN p, p[i].kind = "end_marker"
      PROVE  p[i].comp \in S \ {c}
  <2>1. stack[i].comp \in S
    BY <1>5, <1>7 DEF MarkersMatch
  <2>2. stack[i].comp # c
    BY <1>5, <1>6, <1>7 DEF Marks
  <2> QED BY <1>5, <2>1, <2>2
<1>8. ASSUME NEW d \in S \ {c}
      PROVE  \E i \in DOMAIN p : \A j \in DOMAIN p : Marks(p, j, d) <=> j = i
  <2>1. PICK i \in DOMAIN stack : \A j \in DOMAIN stack :
          Marks(stack, j, d) <=> j = i
    BY DEF MarkersMatch
  <2>2. i # n
    BY <2>1 DEF Marks
  <2>3. i \in DOMAIN p /\ \A j \in DOMAIN p : Marks(p, j, d) <=> j = i
    BY <1>5, <2>1, <2>2 DEF Marks
  <2> QED BY <2>3
<1>9. MarkersMatch(p, S \ {c})
  BY <1>7, <1>8 DEF MarkersMatch
<1> QED BY <1>4, <1>6, <1>9 DEF p

(* Turning the entry at the back into another one that is not a marker.       *)
LEMMA ReplaceTopKeepsMarkers ==
  ASSUME stack \in Seq(Entry), stack # <<>>, Top.kind # "end_marker", NEW S,
         MarkersMatch(stack, S), NEW e \in Entry, e.kind # "end_marker"
  PROVE  MarkersMatch(ReplaceTop(e), S)
<1> DEFINE n == Len(stack)
           s == ReplaceTop(e)
<1>1. n \in Nat \ {0} /\ DOMAIN stack = 1 .. n /\ stack[n].kind # "end_marker"
  BY TopProperties DEF Top
<1>2. /\ DOMAIN s = DOMAIN stack /\ s[n] = e
      /\ \A i \in 1 .. n - 1 : s[i] = stack[i]
  BY ReplaceTopProperties
<1> HIDE DEF n, s
<1>3. \A i \in DOMAIN stack : i # n => s[i] = stack[i]
  BY <1>1, <1>2
<1>4. \A i, c : (i \in DOMAIN s /\ Marks(s, i, c))
                  <=> (i \in DOMAIN stack /\ Marks(stack, i, c))
  BY <1>1, <1>2, <1>3 DEF Marks
<1>5. MarkersMatch(s, S)
  BY <1>4, SameMarkers
<1> QED BY <1>5 DEF s

(* Expanding a component that is not in progress: its end marker is new, and  *)
(* the entries of the component have none.                                    *)
LEMMA ExpandAddsMarker ==
  ASSUME stack \in Seq(Entry), stack # <<>>, Top.kind # "end_marker", NEW S,
         MarkersMatch(stack, S), NEW c \in Component, c \notin S,
         NEW body \in Seq(Entry), NoMarkers(body)
  PROVE  MarkersMatch(ReplaceTop([kind |-> "end_marker", comp |-> c]) \o body,
                      S \cup {c})
<1> DEFINE e == [kind |-> "end_marker", comp |-> c]
           n == Len(stack)
           s == ReplaceTop(e)
           u == s \o body
<1>1. e \in Entry
  BY DEF Entry, ComponentEntry, ComponentKind
<1>2. n \in Nat \ {0} /\ DOMAIN stack = 1 .. n /\ stack[n].kind # "end_marker"
  BY TopProperties DEF Top
<1>3. /\ s \in Seq(Entry) /\ Len(s) = n /\ s[n] = e
      /\ \A i \in 1 .. n - 1 : s[i] = stack[i]
  BY <1>1, ReplaceTopProperties
<1> HIDE DEF n, s
<1>4. /\ u \in Seq(Entry) /\ Len(u) = n + Len(body)
      /\ \A i \in 1 .. n + Len(body) :
           u[i] = IF i <= n THEN s[i] ELSE body[i - n]
  BY <1>3, ConcatProperties
<1>5. DOMAIN u = 1 .. n + Len(body)
  BY <1>4, LenProperties
<1>6. Len(body) \in Nat /\ DOMAIN body = 1 .. Len(body)
  BY LenProperties
<1> HIDE DEF u
<1>7. /\ n \in DOMAIN u /\ u[n] = e
      /\ \A i \in DOMAIN stack : i \in DOMAIN u /\ (i # n => u[i] = stack[i])
      /\ \A i \in DOMAIN u \ DOMAIN stack : u[i].kind # "end_marker"
  <2>1. n \in DOMAIN u /\ u[n] = e
    BY <1>2, <1>3, <1>4, <1>5, <1>6
  <2>2. ASSUME NEW i \in DOMAIN stack
        PROVE  i \in DOMAIN u /\ (i # n => u[i] = stack[i])
    BY <1>2, <1>3, <1>4, <1>5, <1>6
  <2>3. ASSUME NEW i \in DOMAIN u \ DOMAIN stack
        PROVE  u[i].kind # "end_marker"
    <3>1. i - n \in DOMAIN body /\ u[i] = body[i - n]
      BY <1>2, <1>4, <1>5, <1>6
    <3> QED BY <3>1 DEF NoMarkers
  <2> QED BY <2>1, <2>2, <2>3
<1>8. ASSUME NEW i \in DOMAIN u, u[i].kind = "end_marker"
      PROVE  u[i].comp \in S \cup {c}
  BY <1>7, <1>8 DEF MarkersMatch
<1>9. ASSUME NEW d \in S \cup {c}
      PROVE  \E i \in DOMAIN u : \A j \in DOMAIN u : Marks(u, j, d) <=> j = i
  <2>1. CASE d = c
    <3>1. \A j \in DOMAIN stack : ~Marks(stack, j, c)
      BY DEF MarkersMatch, Marks
    <3>2. \A j \in DOMAIN u : Marks(u, j, c) <=> j = n
      BY <1>7, <3>1 DEF Marks
    <3> QED BY <1>7, <2>1, <3>2
  <2>2. CASE d # c
    <3>1. PICK i \in DOMAIN stack : \A j \in DOMAIN stack :
            Marks(stack, j, d) <=> j = i
      BY <2>2 DEF MarkersMatch
    <3>2. i # n
      BY <1>2, <3>1 DEF Marks
    <3>3. i \in DOMAIN u /\ \A j \in DOMAIN u : Marks(u, j, d) <=> j = i
      BY <1>7, <2>2, <3>1, <3>2 DEF Marks
    <3> QED BY <3>3
  <2> QED BY <2>1, <2>2
<1>10. MarkersMatch(u, S \cup {c})
  BY <1>8, <1>9 DEF MarkersMatch
<1> QED BY <1>10 DEF u, s

-----------------------------------------------------------------------------
(* The markers after popping one entry, or two.                               *)
LEMMA PopOneMarkers ==
  ASSUME TypeInv, NEW kinds, Handling(kinds), Top.kind # "end_marker",
         MarkersMatchInProgress
  PROVE  MarkersMatch(Pop(1), inProgress)
<1>1. stack \in Seq(Entry) /\ stack # <<>>
  BY DEF TypeInv, TypeOK, Handling
<1>2. Len(stack) \in Nat \ {0} /\ DOMAIN stack = 1 .. Len(stack)
  BY <1>1, TopProperties
<1>3. \A i \in DOMAIN stack : i > Len(stack) - 1 => i = Len(stack)
  BY <1>2
<1>4. 1 \in Nat /\ 1 <= Len(stack)
  BY <1>2
<1> QED BY <1>1, <1>3, <1>4, PopKeepsMarkers DEF MarkersMatchInProgress, Top

(* Popping an entry and its second half pops no end marker.                   *)
LEMMA PopTwoMarkers ==
  ASSUME TypeInv, NEW kinds, Handling(kinds),
         Top.kind \in {"replaced", "multibinding_vector_creator"},
         MarkersMatchInProgress
  PROVE  MarkersMatch(Pop(2), inProgress)
<1>1. stack \in Seq(Entry) /\ stack # <<>> /\ WellPaired(stack)
  BY DEF TypeInv, TypeOK, Handling
<1>2. Len(stack) \in Nat /\ DOMAIN stack = 1 .. Len(stack) /\ Len(stack) > 1
  BY <1>1, TopProperties, UnderProperties
<1>3. Under.kind # "end_marker"
  BY <1>1, UnderProperties DEF MultibindingKind
<1>4. \A i \in DOMAIN stack : i > Len(stack) - 2 =>
        i = Len(stack) \/ i = Len(stack) - 1
  BY <1>2
<1>5. 2 \in Nat /\ 2 <= Len(stack)
  BY <1>2
<1> QED BY <1>1, <1>3, <1>4, <1>5, PopKeepsMarkers
        DEF MarkersMatchInProgress, Top, Under

(* A step that changes neither the sets and maps of the expansion nor the     *)
(* normalized component leaves only the stack and the status to look at.      *)
LEMMA OnlyStackChanges ==
  ASSUME ExpansionInv, status # "destroyed",
         UNCHANGED <<inProgress, fullyExpanded, replacements, installs, base>>,
         MarkersMatchInProgress', EmptyWhenNotRunning'
  PROVE  ExpansionInv'
<1>1. Started' = Started /\ \A c : Replacement(c)' = Replacement(c)
  BY DEF Started, Replacement
<1>2. ReplacedNeverInstalled'
  BY <1>1 DEF ExpansionInv, ReplacedNeverInstalled
<1>3. ExpandedOnce'
  BY <1>1 DEF ExpansionInv, ExpandedOnce
<1> QED BY <1>2, <1>3 DEF ExpansionInv

(* An error leaves everything as it is.                                       *)
LEMMA FailKeepsExpansionInv ==
  ASSUME ExpansionInv, status \in {"running", "compressing"},
         NEW error \in Errors, Fail(error)
  PROVE  ExpansionInv'
<1>1. MarkersMatchInProgress'
  BY DEF ExpansionInv, MarkersMatchInProgress, Fail, expansionVars
<1>2. EmptyWhenNotRunning'
  BY DEF ExpansionInv, EmptyWhenNotRunning, Fail, Errors, storageVars
<1> QED BY <1>1, <1>2, OnlyStackChanges
        DEF Fail, expansionVars, storageVars

(* At first the stack holds the root component and nothing is open.           *)
LEMMA ExpansionInvInit == Init => ExpansionInv
<1> SUFFICES ASSUME Init PROVE ExpansionInv
  OBVIOUS
<1>1. PICK c \in Component : stack = Install(c)
  BY ProgramType DEF Init
<1>2. stack \in Seq(Entry) /\ Len(stack) = 1 /\ stack[1].kind = "lazy"
  BY <1>1, InstallType
<1>3. DOMAIN stack = 1 .. 1
  BY <1>2, LenProperties
<1>4. MarkersMatchInProgress
  BY <1>2, <1>3 DEF Init, MarkersMatchInProgress, MarkersMatch
<1>5. Started = {}
  BY DEF Init, Started, EmptyStorage
<1>6. ReplacedNeverInstalled
  BY <1>5 DEF ReplacedNeverInstalled
<1>7. ExpandedOnce
  BY DEF Init, ExpandedOnce
<1>8. EmptyWhenNotRunning
  BY DEF Init, EmptyWhenNotRunning
<1> QED BY <1>4, <1>6, <1>7, <1>8 DEF ExpansionInv

(* Every handler keeps the invariant of the expansion.                        *)
LEMMA ExpansionInvNext == TypeInv /\ ExpansionInv /\ [Next]_vars => ExpansionInv'
<1> SUFFICES ASSUME TypeInv, ExpansionInv, [Next]_vars PROVE ExpansionInv'
  OBVIOUS
<1> USE DEF expansionVars, bindingVars, storageVars
<1>1. CASE HandleBinding
  <2>1. Handling({"constructed_object", "needs_allocation",
                  "needs_no_allocation"}) /\ Top.kind # "end_marker"
    BY <1>1, HandledEntry DEF HandleBinding
  <2>2. MarkersMatchInProgress'
    BY <1>1, <2>1, PopOneMarkers
       DEF HandleBinding, ExpansionInv, MarkersMatchInProgress
  <2> QED BY <1>1, <2>1, <2>2, OnlyStackChanges
          DEF HandleBinding, Handling, ExpansionInv, EmptyWhenNotRunning
<1>2. CASE HandleInconsistentBinding
  BY <1>2, FailKeepsExpansionInv
     DEF HandleInconsistentBinding, Handling, Errors
<1>3. CASE HandleCompressedBinding
  <2>1. Handling({"compressed"}) /\ Top.kind # "end_marker"
    BY <1>3, HandledEntry DEF HandleCompressedBinding
  <2>2. MarkersMatchInProgress'
    BY <1>3, <2>1, PopOneMarkers
       DEF HandleCompressedBinding, ExpansionInv, MarkersMatchInProgress
  <2> QED BY <1>3, <2>1, <2>2, OnlyStackChanges
          DEF HandleCompressedBinding, Handling, ExpansionInv,
              EmptyWhenNotRunning
<1>4. CASE HandleMultibinding
  <2>1. /\ Handling({"multibinding_vector_creator"})
        /\ Top.kind = "multibinding_vector_creator"
    BY <1>4, HandledEntry DEF HandleMultibinding
  <2>2. MarkersMatchInProgress'
    BY <1>4, <2>1, PopTwoMarkers
       DEF HandleMultibinding, ExpansionInv, MarkersMatchInProgress
  <2> QED BY <1>4, <2>1, <2>2, OnlyStackChanges
          DEF HandleMultibinding, Handling, ExpansionInv, EmptyWhenNotRunning
<1>5. CASE HandleReplacedTooLate
  BY <1>5, FailKeepsExpansionInv DEF HandleReplacedTooLate, Handling, Errors
<1>6. CASE HandleReplaced
  <2>1. /\ Handling({"replaced"}) /\ Top.kind = "replaced"
        /\ Top.comp \in Component
    BY <1>6, HandledEntry DEF HandleReplaced, ComponentKind
  <2>2. MarkersMatchInProgress'
    BY <1>6, <2>1, PopTwoMarkers
       DEF HandleReplaced, ExpansionInv, MarkersMatchInProgress
  <2>3. ReplacedNeverInstalled'
    <3>1. Started' = Started /\ Top.comp \notin Started
      BY <1>6 DEF HandleReplaced, Started, HasStarted
    <3>2. \A c \in Component : c # Top.comp => Replacement(c)' = Replacement(c)
      BY <1>6 DEF HandleReplaced, Replacement, TypeInv, TypeOK, ReplacementMap
    <3> QED BY <3>1, <3>2 DEF ExpansionInv, ReplacedNeverInstalled
  <2>4. ExpandedOnce'
    BY <1>6 DEF HandleReplaced, ExpansionInv, ExpandedOnce, Started
  <2>5. EmptyWhenNotRunning'
    BY <1>6, <2>1
       DEF HandleReplaced, Handling, ExpansionInv, EmptyWhenNotRunning
  <2> QED BY <2>2, <2>3, <2>4, <2>5 DEF ExpansionInv
<1>7. CASE HandleReplacedAgain
  <2>1. Handling({"replaced"}) /\ Top.kind = "replaced"
    BY <1>7, HandledEntry DEF HandleReplacedAgain
  <2>2. MarkersMatchInProgress'
    BY <1>7, <2>1, PopTwoMarkers
       DEF HandleReplacedAgain, ExpansionInv, MarkersMatchInProgress
  <2> QED BY <1>7, <2>1, <2>2, OnlyStackChanges
          DEF HandleReplacedAgain, Handling, ExpansionInv, EmptyWhenNotRunning
<1>8. CASE HandleReplacedDifferently
  BY <1>8, FailKeepsExpansionInv DEF HandleReplacedDifferently, Handling, Errors
<1>9. CASE SkipLazyComponent
  <2>1. Handling({"lazy"}) /\ Top.kind # "end_marker"
    BY <1>9, HandledEntry DEF SkipLazyComponent
  <2>2. MarkersMatchInProgress'
    BY <1>9, <2>1, PopOneMarkers
       DEF SkipLazyComponent, ExpansionInv, MarkersMatchInProgress
  <2> QED BY <1>9, <2>1, <2>2, OnlyStackChanges
          DEF SkipLazyComponent, Handling, ExpansionInv, EmptyWhenNotRunning
<1>10. CASE PerformComponentReplacement
  <2> DEFINE e == [kind |-> "lazy", comp |-> Replacement(Top.comp)]
  <2>1. /\ Handling({"lazy"}) /\ Top.kind = "lazy" /\ Top.comp \in Component
        /\ stack \in Seq(Entry) /\ stack # <<>>
    BY <1>10, HandledEntry
       DEF PerformComponentReplacement, ComponentKind, TypeInv, TypeOK
  <2>2. Replacement(Top.comp) \in Component
    BY <1>10, <2>1, ReplacementType DEF PerformComponentReplacement, TypeInv
  <2>3. e \in Entry /\ e.kind # "end_marker"
    BY <2>2 DEF Entry, ComponentEntry, ComponentKind
  <2>4. MarkersMatch(ReplaceTop(e), inProgress)
    BY <2>1, <2>3, ReplaceTopKeepsMarkers
       DEF ExpansionInv, MarkersMatchInProgress
  <2>5. MarkersMatchInProgress'
    BY <1>10, <2>4 DEF PerformComponentReplacement, MarkersMatchInProgress
  <2> QED BY <1>10, <2>1, <2>5, OnlyStackChanges
          DEF PerformComponentReplacement, Handling, ExpansionInv,
              EmptyWhenNotRunning
<1>11. CASE DetectInstallationLoop
  BY <1>11, FailKeepsExpansionInv DEF DetectInstallationLoop, Handling, Errors
<1>12. CASE ExpandLazyComponent
  <2> DEFINE c == Top.comp
  <2>1. /\ Handling({"lazy"}) /\ Top.kind = "lazy" /\ c \in Component
        /\ stack \in Seq(Entry) /\ stack # <<>> /\ status = "running"
    BY <1>12, HandledEntry
       DEF ExpandLazyComponent, ComponentKind, TypeInv, TypeOK, Handling
  <2>2. c \notin Started /\ Replacement(c) = NoComponent
    BY <1>12 DEF ExpandLazyComponent, IsExpanded, Started
  <2>3. MarkersMatchInProgress'
    <3>1. prog.body[c] \in Seq(Entry) /\ NoMarkers(prog.body[c])
      BY <2>1, ProgramType DEF TypeInv
    <3>2. MarkersMatch(ReplaceTop([kind |-> "end_marker", comp |-> c])
                         \o prog.body[c], inProgress \cup {c})
      BY <2>1, <2>2, <3>1, ExpandAddsMarker
         DEF ExpansionInv, MarkersMatchInProgress, Started
    <3> QED BY <1>12, <3>2 DEF ExpandLazyComponent, MarkersMatchInProgress
  <2>4. Started' = Started \cup {c} /\ \A d : Replacement(d)' = Replacement(d)
    BY <1>12 DEF ExpandLazyComponent, Started, Replacement
  <2>5. ReplacedNeverInstalled'
    BY <2>2, <2>4 DEF ExpansionInv, ReplacedNeverInstalled
  <2>6. ExpandedOnce'
    <3>1. installs[c] = 0
      BY <2>1, <2>2 DEF ExpansionInv, ExpandedOnce
    <3>2. \A d \in Component :
            installs'[d] = IF d = c THEN 1 ELSE installs[d]
      BY <1>12, <3>1 DEF ExpandLazyComponent, TypeInv, TypeOK
    <3>3. \A d \in Component : /\ installs'[d] <= 1
                               /\ d \notin Started' => installs'[d] = 0
      BY <2>1, <2>4, <3>2 DEF ExpansionInv, ExpandedOnce
    <3>4. (inProgress \cap (fullyExpanded \cup base.fullyExpanded) = {})'
      BY <1>12, <2>2
         DEF ExpandLazyComponent, ExpansionInv, ExpandedOnce, Started
    <3> QED BY <3>3, <3>4 DEF ExpandedOnce
  <2>7. EmptyWhenNotRunning'
    BY <1>12, <2>1 DEF ExpandLazyComponent, ExpansionInv, EmptyWhenNotRunning
  <2> QED BY <2>3, <2>5, <2>6, <2>7 DEF ExpansionInv
<1>13. CASE HandleEndMarker
  <2>1. /\ Handling({"end_marker"}) /\ Top.kind = "end_marker"
        /\ stack \in Seq(Entry) /\ stack # <<>> /\ status = "running"
    BY <1>13, HandledEntry DEF HandleEndMarker, Handling, TypeInv, TypeOK
  <2>2. /\ Top.comp \in inProgress
        /\ MarkersMatch(Pop(1), inProgress \ {Top.comp})
    BY <2>1, PopMarker DEF ExpansionInv, MarkersMatchInProgress
  <2>3. MarkersMatchInProgress'
    BY <1>13, <2>2 DEF HandleEndMarker, MarkersMatchInProgress
  <2>4. Started' = Started /\ \A c : Replacement(c)' = Replacement(c)
    BY <1>13, <2>2 DEF HandleEndMarker, Started, Replacement
  <2>5. ReplacedNeverInstalled'
    BY <2>4 DEF ExpansionInv, ReplacedNeverInstalled
  <2>6. ExpandedOnce'
    BY <1>13, <2>2, <2>4 DEF HandleEndMarker, ExpansionInv, ExpandedOnce
  <2>7. EmptyWhenNotRunning'
    BY <1>13, <2>1 DEF HandleEndMarker, ExpansionInv, EmptyWhenNotRunning
  <2> QED BY <2>3, <2>5, <2>6, <2>7 DEF ExpansionInv
<1>14. CASE StartCompression
  <2>1. MarkersMatchInProgress'
    BY <1>14 DEF StartCompression, ExpansionInv, MarkersMatchInProgress
  <2> QED BY <1>14, <2>1, OnlyStackChanges
          DEF StartCompression, ExpansionInv, EmptyWhenNotRunning
<1>15. CASE CompressBinding
  <2>1. MarkersMatchInProgress'
    BY <1>15 DEF CompressBinding, ExpansionInv, MarkersMatchInProgress
  <2> QED BY <1>15, <2>1, OnlyStackChanges
          DEF CompressBinding, ExpansionInv, EmptyWhenNotRunning
<1>16. CASE CompressMissingBinding
  BY <1>16, FailKeepsExpansionInv DEF CompressMissingBinding, Errors
<1>17. CASE FinishPermanent
  <2>1. MarkersMatchInProgress'
    BY <1>17 DEF FinishPermanent, ExpansionInv, MarkersMatchInProgress
  <2> QED BY <1>17, <2>1, OnlyStackChanges
          DEF FinishPermanent, FinishedCompression, ExpansionInv,
              EmptyWhenNotRunning
<1>18. CASE FinishUndoable
  <2>1. base = EmptyStorage /\ stack = <<>> /\ status = "compressing"
    BY <1>18 DEF FinishUndoable, FinishedCompression, ExpansionInv,
                 EmptyWhenNotRunning
  <2>2. MarkersMatchInProgress'
    BY <1>18 DEF FinishUndoable, ExpansionInv, MarkersMatchInProgress
  <2>3. /\ Started' = Started
        /\ \A c \in Component : Replacement(c)' = Replacement(c)
    BY <1>18, <2>1 DEF FinishUndoable, Started, Replacement, EmptyStorage,
                       NothingReplaced
  <2>4. ReplacedNeverInstalled'
    BY <2>3 DEF ExpansionInv, ReplacedNeverInstalled
  <2>5. ExpandedOnce'
    BY <1>18, <2>1, <2>3
       DEF FinishUndoable, ExpansionInv, ExpandedOnce, EmptyStorage
  <2>6. EmptyWhenNotRunning'
    BY <1>18, <2>1 DEF FinishUndoable, EmptyWhenNotRunning
  <2> QED BY <2>2, <2>4, <2>5, <2>6 DEF ExpansionInv
<1>19. CASE StartAddTo
  <2>1. inProgress = {}
    BY <1>19 DEF StartAddTo, ExpansionInv, EmptyWhenNotRunning,
                 MarkersMatchInProgress, MarkersMatch
  <2>2. stack' \in Seq(Entry) /\ Len(stack') = 1 /\ stack'[1].kind = "lazy"
    BY <1>19, ProgramType, InstallType DEF StartAddTo, TypeInv
  <2>3. DOMAIN stack' = 1 .. 1
    BY <2>2, LenProperties
  <2>4. MarkersMatchInProgress'
    BY <1>19, <2>1, <2>2, <2>3
       DEF StartAddTo, MarkersMatchInProgress, MarkersMatch
  <2> QED BY <1>19, <2>4, OnlyStackChanges DEF StartAddTo, EmptyWhenNotRunning
<1>20. CASE FinishAddTo
  <2>1. MarkersMatchInProgress'
    BY <1>20 DEF FinishAddTo, ExpansionInv, MarkersMatchInProgress
  <2> QED BY <1>20, <2>1, OnlyStackChanges
          DEF FinishAddTo, ExpansionInv, EmptyWhenNotRunning
<1>21. CASE DestroyNormalizedComponent
  <2>1. MarkersMatchInProgress'
    BY <1>21 DEF DestroyNormalizedComponent, ExpansionInv,
                 MarkersMatchInProgress
  <2>2. ReplacedNeverInstalled'
    <3>1. /\ inProgress' = inProgress /\ fullyExpanded' = fullyExpanded
          /\ replacements' = replacements /\ base' = EmptyStorage
      BY <1>21 DEF DestroyNormalizedComponent
    <3>2. Started' \subseteq Started
      BY <3>1 DEF Started, EmptyStorage
    <3>3. \A c \in Component :
            Replacement(c)' # NoComponent => Replacement(c) # NoComponent
      BY <3>1 DEF Replacement, EmptyStorage, NothingReplaced
    <3> QED BY <3>2, <3>3 DEF ExpansionInv, ReplacedNeverInstalled
  <2>3. ExpandedOnce'
    BY <1>21 DEF DestroyNormalizedComponent, ExpansionInv, ExpandedOnce,
                 EmptyStorage
  <2>4. EmptyWhenNotRunning'
    BY <1>21 DEF DestroyNormalizedComponent, ExpansionInv, EmptyWhenNotRunning
  <2> QED BY <2>1, <2>2, <2>3, <2>4 DEF ExpansionInv
<1>22. CASE Terminated \/ UNCHANGED vars
  BY <1>22 DEF Terminated, vars, ExpansionInv, MarkersMatchInProgress,
     ReplacedNeverInstalled, Replacement, ExpandedOnce, Started,
     EmptyWhenNotRunning
<1> QED BY <1>1, <1>2, <1>3, <1>4, <1>5, <1>6, <1>7, <1>8, <1>9, <1>10, <1>11,
           <1>12, <1>13, <1>14, <1>15, <1>16, <1>17, <1>18, <1>19, <1>20,
           <1>21, <1>22 DEF Next

(* Both invariants together.                                                  *)
LEMMA ExpansionInvariant == Spec => [](TypeInv /\ ExpansionInv)
<1>1. Init => TypeInv /\ ExpansionInv
  BY TypeInvInit, ExpansionInvInit
<1>2. TypeInv /\ ExpansionInv /\ [Next]_vars => (TypeInv /\ ExpansionInv)'
  BY TypeInvNext, ExpansionInvNext
<1> QED BY <1>1, <1>2, PTL DEF Spec

(* The end markers on the stack are always the components in progress, each   *)
(* once, in every program: the destructor of the context never finds one      *)
(* left, and an installation loop is told from a second install.              *)
THEOREM MarkersAreTheCallStack == Spec => []MarkersMatchInProgress
<1>1. TypeInv /\ ExpansionInv => MarkersMatchInProgress
  BY DEF ExpansionInv
<1> QED BY ExpansionInvariant, <1>1, PTL

(* No program makes the code expand a component that it has a replacement     *)
(* for, in whatever order the installs and the replacements are processed.    *)
THEOREM ReplacementsAreRespected == Spec => []ReplacedNeverInstalled
<1>1. TypeInv /\ ExpansionInv => ReplacedNeverInstalled
  BY DEF ExpansionInv
<1> QED BY ExpansionInvariant, <1>1, PTL

(* No program makes the code call a component function twice with the same    *)
(* arguments, the normalized component and the injector taken together.       *)
THEOREM EachComponentExpandedOnce == Spec => []InstalledAtMostOnce
<1>1. TypeInv /\ ExpansionInv => InstalledAtMostOnce
  BY DEF ExpansionInv, ExpandedOnce, InstalledAtMostOnce
<1> QED BY ExpansionInvariant, <1>1, PTL

-----------------------------------------------------------------------------
(* The heap.  Each ComponentInterfaceImpl has exactly one owner, an entry of  *)
(* the stack, the context or the normalized component, until it is freed.     *)

(* What an entry adds to the owners of a component.                           *)
Owner(e, c) == IF e.kind \in ComponentKind /\ e.comp = c THEN 1 ELSE 0
Is(d, c) == IF d = c THEN 1 ELSE 0

InStorage(c) == OwnedBy(base.fullyExpanded, base.replacements, c)
InContext(c) == OwnedBy(fullyExpanded, replacements, c)

(* The storage has taken over what the context has owned.                     *)
ContextIsEmpty ==
  phase = "undoable" /\ status = "ready" =>
    fullyExpanded = {} /\ replacements = NothingReplaced

OwnershipInv == OwnershipExact /\ ContextIsEmpty

-----------------------------------------------------------------------------
(* A set of indices, with the one that is added at the end.                   *)
LEMMA OwnersExtended ==
  ASSUME NEW s \in Seq(Entry), NEW u \in Seq(Entry), Len(u) = Len(s) + 1,
         \A i \in 1 .. Len(s) : u[i] = s[i], NEW c
  PROVE  /\ Owners(s, c) \in Nat /\ Owners(u, c) \in Nat
         /\ Owners(u, c) = Owners(s, c) + Owner(u[Len(u)], c)
<1> DEFINE n == Len(s)
           S == {i \in DOMAIN s : s[i].kind \in ComponentKind /\ s[i].comp = c}
           U == {i \in DOMAIN u : u[i].kind \in ComponentKind /\ u[i].comp = c}
<1>1. /\ n \in Nat /\ DOMAIN s = 1 .. n /\ DOMAIN u = 1 .. n + 1 /\ Len(u) = n + 1
      /\ \A i \in 1 .. n : u[i] = s[i]
  BY LenProperties
<1>2. IsFiniteSet(S)
  <2>1. IsFiniteSet(DOMAIN s) /\ S \in SUBSET DOMAIN s
    BY <1>1, FS_Interval
  <2> QED BY <2>1, FS_Subset
<1>3. Cardinality(S) \in Nat
  BY <1>2, FS_CardinalityType
<1>4. Owners(s, c) = Cardinality(S) /\ Owners(u, c) = Cardinality(U)
  BY DEF Owners
<1> HIDE DEF n
<1>5. DOMAIN u = DOMAIN s \cup {n + 1} /\ n + 1 \notin DOMAIN s
  BY <1>1
<1>6. CASE u[n + 1].kind \in ComponentKind /\ u[n + 1].comp = c
  <2>1. U = S \cup {n + 1} /\ n + 1 \notin S
    BY <1>1, <1>5, <1>6
  <2> HIDE DEF S, U
  <2>2. Cardinality(U) = Cardinality(S) + 1
    BY <1>2, <2>1, FS_AddElement
  <2> QED BY <1>1, <1>3, <1>4, <1>6, <2>2 DEF Owner
<1>7. CASE ~(u[n + 1].kind \in ComponentKind /\ u[n + 1].comp = c)
  <2>1. U = S
    BY <1>1, <1>5, <1>7
  <2> HIDE DEF S, U
  <2> QED BY <1>1, <1>3, <1>4, <1>7, <2>1 DEF Owner
<1> QED BY <1>6, <1>7

(* The owners on an empty stack and on the one that the program starts with.  *)
LEMMA OwnersInstall ==
  ASSUME NEW d \in Component, NEW c
  PROVE  Owners(<<>>, c) = 0 /\ Owners(Install(d), c) = Is(d, c)
<1>1. Owners(<<>>, c) = 0
  <2>1. {i \in DOMAIN <<>> : <<>>[i].kind \in ComponentKind /\ <<>>[i].comp = c} = {}
    OBVIOUS
  <2> QED BY <2>1, FS_EmptySet DEF Owners
<1>2. /\ Install(d) \in Seq(Entry) /\ Len(Install(d)) = 1
      /\ Install(d)[1].kind = "lazy"
  BY InstallType
<1>3. Install(d)[1].comp = d
  BY DEF Install
<1>4. <<>> \in Seq(Entry) /\ Len(<<>>) = 0 /\ 1 = 0 + 1
  OBVIOUS
<1>5. Owners(Install(d), c) = Owners(<<>>, c) + Owner(Install(d)[1], c)
  <2>1. \A i \in 1 .. Len(<<>>) : Install(d)[i] = <<>>[i]
    BY <1>4
  <2>2. Len(Install(d)) = Len(<<>>) + 1
    BY <1>2, <1>4
  <2> QED BY <1>2, <1>4, <2>1, <2>2, OwnersExtended
<1>6. Owner(Install(d)[1], c) = Is(d, c)
  BY <1>2, <1>3 DEF Owner, Is, ComponentKind
<1>7. Is(d, c) \in Nat
  BY DEF Is
<1> QED BY <1>1, <1>5, <1>6, <1>7

(* The entry at the back, and the one under it, of the stack.                 *)
LEMMA OwnersPopped ==
  ASSUME stack \in Seq(Entry), stack # <<>>, NEW c
  PROVE  /\ Owners(stack, c) \in Nat /\ Owners(Pop(1), c) \in Nat
         /\ Owners(stack, c) = Owners(Pop(1), c) + Owner(Top, c)
         /\ Len(stack) >= 2 =>
              /\ Owners(Pop(2), c) \in Nat
              /\ Owners(stack, c) = Owners(Pop(2), c) + Owner(Under, c) + Owner(Top, c)
<1> DEFINE n == Len(stack)
           p == Pop(1)
           q == Pop(2)
<1>1. n \in Nat /\ n >= 1 /\ 1 \in Nat /\ 2 \in Nat
  BY TopProperties
<1>2. /\ p \in Seq(Entry) /\ Len(p) = n - 1
      /\ \A i \in 1 .. n - 1 : p[i] = stack[i]
  BY <1>1, PopProperties
<1>3. n >= 2 => /\ q \in Seq(Entry) /\ Len(q) = n - 2
                /\ \A i \in 1 .. n - 2 : q[i] = stack[i]
  BY <1>1, PopProperties
<1>4. Top = stack[n] /\ Under = stack[n - 1]
  BY DEF Top, Under
<1> HIDE DEF p, q
<1>5. /\ Owners(p, c) \in Nat /\ Owners(stack, c) \in Nat
      /\ Owners(stack, c) = Owners(p, c) + Owner(Top, c)
  <2>1. Len(stack) = Len(p) + 1
    BY <1>1, <1>2
  <2>2. \A i \in 1 .. Len(p) : stack[i] = p[i]
    BY <1>1, <1>2
  <2> QED BY <1>2, <1>4, <2>1, <2>2, OwnersExtended
<1>6. ASSUME n >= 2
      PROVE  /\ Owners(q, c) \in Nat
             /\ Owners(p, c) = Owners(q, c) + Owner(Under, c)
  <2>1. /\ Len(p) = Len(q) + 1 /\ p[Len(p)] = Under
        /\ \A i \in 1 .. Len(q) : p[i] = q[i]
    <3> HIDE DEF n
    <3> QED BY <1>1, <1>2, <1>3, <1>4, <1>6
  <2> QED BY <1>2, <1>3, <1>6, <2>1, OwnersExtended
<1>7. Owner(Top, c) \in Nat /\ Owner(Under, c) \in Nat
  BY DEF Owner
<1> QED BY <1>5, <1>6, <1>7 DEF p, q

(* Replacing the entry at the back.                                           *)
LEMMA OwnersReplaced ==
  ASSUME stack \in Seq(Entry), stack # <<>>, NEW e \in Entry, NEW c
  PROVE  /\ Owners(ReplaceTop(e), c) \in Nat
         /\ Owners(ReplaceTop(e), c) = Owners(Pop(1), c) + Owner(e, c)
<1> DEFINE n == Len(stack)
           p == Pop(1)
           r == ReplaceTop(e)
<1>1. n \in Nat /\ n >= 1 /\ 1 \in Nat
  BY TopProperties
<1>2. /\ p \in Seq(Entry) /\ Len(p) = n - 1
      /\ \A i \in 1 .. n - 1 : p[i] = stack[i]
  BY <1>1, PopProperties
<1>3. /\ r \in Seq(Entry) /\ Len(r) = n /\ r[n] = e
      /\ \A i \in 1 .. n - 1 : r[i] = stack[i]
  BY ReplaceTopProperties
<1> HIDE DEF p, r, n
<1>4. /\ Len(r) = Len(p) + 1 /\ r[Len(r)] = e
      /\ \A i \in 1 .. Len(p) : r[i] = p[i]
  BY <1>1, <1>2, <1>3
<1> QED BY <1>2, <1>3, <1>4, OwnersExtended DEF p, r

(* Pushing the entries of a component.                                        *)
LEMMA OwnersConcatenated ==
  ASSUME NEW s \in Seq(Entry), NEW t \in Seq(Entry), NEW c
  PROVE  /\ Owners(s, c) \in Nat /\ Owners(t, c) \in Nat
         /\ Owners(s \o t, c) = Owners(s, c) + Owners(t, c)
<1> DEFINE A == {e \in Entry : e.kind \in ComponentKind /\ e.comp = c}
<1>1. ASSUME NEW q \in Seq(Entry) PROVE Owners(q, c) = Cardinality(Places(q, A))
  <2>1. \A i \in DOMAIN q : q[i] \in Entry
    BY LenProperties, ElementOfSeq
  <2>2. {i \in DOMAIN q : q[i].kind \in ComponentKind /\ q[i].comp = c} = Places(q, A)
    BY <2>1 DEF Places
  <2> QED BY <2>2 DEF Owners
<1>2. s \o t \in Seq(Entry)
  BY ConcatProperties
<1> HIDE DEF A
<1>3. /\ Cardinality(Places(s, A)) \in Nat /\ Cardinality(Places(t, A)) \in Nat
      /\ Cardinality(Places(s \o t, A))
           = Cardinality(Places(s, A)) + Cardinality(Places(t, A))
  BY PlacesConcatenated
<1> QED BY <1>1, <1>2, <1>3

-----------------------------------------------------------------------------
(* What a context or a storage owns is a number.                              *)
LEMMA OwnedByType ==
  ASSUME NEW expanded, NEW repl, NEW c
  PROVE  OwnedBy(expanded, repl, c) \in Nat
<1>1. IsFiniteSet({d \in Component : repl[d] = c})
  <2>1. {d \in Component : repl[d] = c} \in SUBSET Component
    OBVIOUS
  <2> QED BY <2>1, ComponentAssumption, FS_Subset
<1>2. Cardinality({d \in Component : repl[d] = c}) \in Nat
  BY <1>1, FS_CardinalityType
<1> QED BY <1>2 DEF OwnedBy

(* An empty one owns nothing.                                                 *)
LEMMA EmptyOwnsNone ==
  ASSUME NEW c \in Component
  PROVE  OwnedBy({}, NothingReplaced, c) = 0
<1>1. {d \in Component : NothingReplaced[d] = c} = {}
  BY ComponentAssumption DEF NothingReplaced
<1>2. Cardinality({d \in Component : NothingReplaced[d] = c}) = 0
  BY <1>1, FS_EmptySet
<1> QED BY <1>2 DEF OwnedBy, NothingReplaced

(* A component that has been expanded is owned once more.                     *)
LEMMA OwnedExpanded ==
  ASSUME NEW expanded, NEW repl, NEW d \in Component, d \notin expanded, NEW c
  PROVE  OwnedBy(expanded \cup {d}, repl, c) = OwnedBy(expanded, repl, c) + Is(d, c)
<1> DEFINE n == Cardinality({e \in Component : repl[e] = c})
           k == IF repl[c] # NoComponent THEN 1 ELSE 0
<1>1. n \in Nat /\ k \in Nat
  <2>1. {e \in Component : repl[e] = c} \in SUBSET Component
    OBVIOUS
  <2> QED BY <2>1, ComponentAssumption, FS_Subset, FS_CardinalityType
<1>2. /\ OwnedBy(expanded \cup {d}, repl, c)
           = (IF c \in expanded \cup {d} THEN 1 ELSE 0) + k + n
      /\ OwnedBy(expanded, repl, c) = (IF c \in expanded THEN 1 ELSE 0) + k + n
  BY DEF OwnedBy
<1> HIDE DEF n, k
<1>3. (IF c \in expanded \cup {d} THEN 1 ELSE 0)
        = (IF c \in expanded THEN 1 ELSE 0) + Is(d, c)
  BY DEF Is
<1>4. Is(d, c) \in Nat
  BY DEF Is
<1> QED BY <1>1, <1>2, <1>3, <1>4

(* A replacement is owned as a key and as a value.                            *)
LEMMA OwnedReplaced ==
  ASSUME NEW expanded, NEW repl \in ReplacementMap, NEW d \in Component,
         repl[d] = NoComponent, NEW r \in Component, NEW c \in Component
  PROVE  OwnedBy(expanded, [repl EXCEPT ![d] = r], c)
           = OwnedBy(expanded, repl, c) + Is(d, c) + Is(r, c)
<1> DEFINE new == [repl EXCEPT ![d] = r]
           S == {e \in Component : repl[e] = c}
           T == {e \in Component : new[e] = c}
           x == IF c \in expanded THEN 1 ELSE 0
<1>1. /\ repl \in [Component -> Component \cup {NoComponent}]
      /\ NoComponent \notin Component
      /\ \A e \in Component : new[e] = IF e = d THEN r ELSE repl[e]
  BY ComponentAssumption DEF ReplacementMap
<1>2. IsFiniteSet(S)
  <2>1. S \in SUBSET Component
    OBVIOUS
  <2> QED BY <2>1, ComponentAssumption, FS_Subset
<1>3. Cardinality(S) \in Nat
  BY <1>2, FS_CardinalityType
<1>4. /\ OwnedBy(expanded, new, c)
           = x + (IF new[c] # NoComponent THEN 1 ELSE 0) + Cardinality(T)
      /\ OwnedBy(expanded, repl, c)
           = x + (IF repl[c] # NoComponent THEN 1 ELSE 0) + Cardinality(S)
  BY DEF OwnedBy
<1>5. d \notin S
  BY <1>1
<1>6. Cardinality(T) = Cardinality(S) + Is(r, c)
  <2>1. CASE r = c
    <3>1. T = S \cup {d}
      BY <1>1, <2>1
    <3> HIDE DEF S, T
    <3> QED BY <1>2, <1>3, <1>5, <2>1, <3>1, FS_AddElement DEF Is
  <2>2. CASE r # c
    <3>1. T = S
      BY <1>1, <1>5, <2>2
    <3> HIDE DEF S, T
    <3> QED BY <1>3, <2>2, <3>1 DEF Is
  <2> QED BY <2>1, <2>2
<1>7. (IF new[c] # NoComponent THEN 1 ELSE 0)
        = (IF repl[c] # NoComponent THEN 1 ELSE 0) + Is(d, c)
  <2> HIDE DEF new
  <2> QED BY <1>1 DEF Is
<1>8. x \in Nat /\ Is(d, c) \in Nat /\ Is(r, c) \in Nat
  BY DEF Is
<1> HIDE DEF S, T, x, new
<1>9. (IF repl[c] # NoComponent THEN 1 ELSE 0) \in Nat
  OBVIOUS
<1> QED BY <1>3, <1>4, <1>6, <1>7, <1>8, <1>9 DEF new

-----------------------------------------------------------------------------
(* The operations on the heap, for a component with arguments.                *)
LEMMA HeapOperations ==
  ASSUME NEW l \in [Component -> Int], NEW d \in Component, NEW c \in WithArgs
  PROVE  /\ c \in Component /\ l[c] \in Int
         /\ Destroy(l, d)[c] = l[c] - Is(d, c)
         /\ Copy(l, d)[c] = l[c] + Is(d, c)
         /\ \A s : Create(l, s)[c] = l[c] + Owners(s, c)
         /\ \A e, r : DestroyAll(l, e, r)[c] = l[c] - OwnedBy(e, r, c)
<1>1. c \in Component /\ l[c] \in Int
  BY WithArgsAssumption
<1>2. l[c] - 0 = l[c] /\ l[c] + 0 = l[c]
  BY <1>1
<1>3. Destroy(l, d)[c] = l[c] - Is(d, c) /\ Copy(l, d)[c] = l[c] + Is(d, c)
  <2>1. CASE d \in WithArgs
    BY <1>1, <1>2, <2>1 DEF Destroy, Copy, Is
  <2>2. CASE d \notin WithArgs
    BY <1>1, <1>2, <2>2 DEF Destroy, Copy, Is
  <2> QED BY <2>1, <2>2
<1> QED BY <1>1, <1>3 DEF Create, DestroyAll

(* An entry that names a component owns it; the others own none.              *)
LEMMA EntryOwner ==
  ASSUME NEW e, NEW c
  PROVE  /\ e.kind \in ComponentKind => Owner(e, c) = Is(e.comp, c)
         /\ e.kind \notin ComponentKind => Owner(e, c) = 0
         /\ Owner(e, c) \in Nat
BY DEF Owner, Is

(* While the normalization runs.                                              *)
LEMMA RunningOwnership ==
  ASSUME OwnershipInv, status \in {"running", "compressing"}, NEW c \in WithArgs
  PROVE  live[c] = Owners(stack, c) + InStorage(c) + InContext(c)
BY DEF OwnershipInv, OwnershipExact, Errors, InStorage, InContext

(* What has to be shown of a step after which it runs.                        *)
LEMMA StillRunning ==
  ASSUME status' \in {"running", "compressing"},
         \A c \in WithArgs :
           live'[c] = Owners(stack', c) + InStorage(c)' + InContext(c)'
  PROVE  OwnershipInv'
<1>1. OwnershipExact'
  BY DEF OwnershipExact, InStorage, InContext
<1>2. ContextIsEmpty'
  BY DEF ContextIsEmpty
<1> QED BY <1>1, <1>2 DEF OwnershipInv

(* A handler that pops entries without a component.                           *)
LEMMA PlainPop ==
  ASSUME TypeInv, OwnershipInv, NEW kinds, Handling(kinds),
         \/ Top.kind \notin ComponentKind /\ stack' = Pop(1)
         \/ /\ Top.kind = "multibinding_vector_creator" /\ stack' = Pop(2),
         UNCHANGED <<status, live, fullyExpanded, replacements, base>>
  PROVE  OwnershipInv'
<1>1. stack \in Seq(Entry) /\ stack # <<>> /\ status = "running" /\ WellPaired(stack)
  BY DEF TypeInv, TypeOK, Handling
<1>2. ASSUME NEW c \in WithArgs
      PROVE  Owners(stack', c) = Owners(stack, c)
  <2>1. CASE Top.kind \notin ComponentKind /\ stack' = Pop(1)
    <3>1. Owner(Top, c) = 0
      BY <2>1, EntryOwner
    <3> QED BY <1>1, <2>1, <3>1, OwnersPopped
  <2>2. CASE Top.kind = "multibinding_vector_creator" /\ stack' = Pop(2)
    <3>1. Len(stack) >= 2 /\ Under.kind \in MultibindingKind
      BY <1>1, <2>2, UnderProperties, PopType
    <3>2. Owner(Top, c) = 0 /\ Owner(Under, c) = 0
      BY <2>2, <3>1, EntryOwner DEF MultibindingKind, ComponentKind
    <3> QED BY <1>1, <2>2, <3>1, <3>2, OwnersPopped
  <2> QED BY <2>1, <2>2
<1>3. ASSUME NEW c \in WithArgs
      PROVE  live'[c] = Owners(stack', c) + InStorage(c)' + InContext(c)'
  <2>1. InStorage(c)' = InStorage(c) /\ InContext(c)' = InContext(c)
    BY DEF InStorage, InContext
  <2> QED BY <1>1, <1>2, <2>1, RunningOwnership
<1> QED BY <1>1, <1>3, StillRunning

(* An error ends the normalization as it is.                                  *)
LEMMA FailedOwnership ==
  ASSUME NEW error \in Errors, Fail(error)
  PROVE  OwnershipInv'
<1>1. status' \in Errors
  BY DEF Fail
<1>2. status' # "ready"
  BY <1>1 DEF Errors
<1> QED BY <1>1, <1>2 DEF OwnershipInv, OwnershipExact, ContextIsEmpty

(* At first the entry of the root, or of the normalized component, is the     *)
(* only owner.                                                                *)
LEMMA OwnershipInit == Init => OwnershipInv
<1> SUFFICES ASSUME Init PROVE OwnershipInv
  OBVIOUS
<1>1. prog \in Program /\ prog.root \in Component
        /\ prog.base \in Component \cup {NoComponent}
  BY ProgramType DEF Init
<1>2. PICK d \in Component : stack = Install(d)
  BY <1>1 DEF Init
<1> DEFINE l == [c \in Component |-> 0]
<1>3. live = Create(l, stack) /\ l \in [Component -> Int]
  BY DEF Init
<1>4. /\ base = EmptyStorage /\ fullyExpanded = {} /\ replacements = NothingReplaced
      /\ status = "running"
  BY DEF Init
<1>5. ASSUME NEW c \in WithArgs
      PROVE  live[c] = Owners(stack, c) + InStorage(c) + InContext(c)
  <2>1. c \in Component /\ l[c] = 0
    BY WithArgsAssumption
  <2>2. live[c] = 0 + Owners(stack, c)
    <3> HIDE DEF l
    <3> QED BY <1>2, <1>3, <2>1, HeapOperations
  <2>3. InStorage(c) = 0 /\ InContext(c) = 0
    BY <1>4, <2>1, EmptyOwnsNone DEF InStorage, InContext, EmptyStorage
  <2>4. Owners(stack, c) \in Nat
    BY <1>2, OwnersInstall DEF Is
  <2> QED BY <2>2, <2>3, <2>4
<1>6. OwnershipExact
  BY <1>4, <1>5 DEF OwnershipExact, InStorage, InContext
<1> QED BY <1>4, <1>6 DEF OwnershipInv, ContextIsEmpty

(* Every handler passes the ownership on, or frees what has no owner left.    *)
LEMMA OwnershipNext ==
  TypeInv /\ ExpansionInv /\ OwnershipInv /\ [Next]_vars => OwnershipInv'
<1> SUFFICES ASSUME TypeInv, ExpansionInv, OwnershipInv, [Next]_vars
             PROVE  OwnershipInv'
  OBVIOUS
<1> USE DEF expansionVars, bindingVars, storageVars
<1>0. live \in [Component -> Int] /\ stack \in Seq(Entry)
  BY DEF TypeInv, TypeOK
<1>N. \A c : /\ InStorage(c) \in Nat /\ InContext(c) \in Nat
             /\ \A d : Is(d, c) \in Nat
  BY OwnedByType DEF InStorage, InContext, Is
<1>1. CASE HandleBinding
  <2>1. /\ Handling({"constructed_object", "needs_allocation", "needs_no_allocation"})
        /\ stack' = Pop(1)
        /\ UNCHANGED <<status, live, fullyExpanded, replacements, base>>
    BY <1>1 DEF HandleBinding
  <2>2. Top.kind \notin ComponentKind
    BY <2>1 DEF Handling, ComponentKind
  <2> QED BY <2>1, <2>2, PlainPop
<1>2. CASE HandleInconsistentBinding
  BY <1>2, FailedOwnership DEF HandleInconsistentBinding, Errors
<1>3. CASE HandleCompressedBinding
  <2>1. /\ Handling({"compressed"}) /\ stack' = Pop(1)
        /\ UNCHANGED <<status, live, fullyExpanded, replacements, base>>
    BY <1>3 DEF HandleCompressedBinding
  <2>2. Top.kind \notin ComponentKind
    BY <2>1 DEF Handling, ComponentKind
  <2> QED BY <2>1, <2>2, PlainPop
<1>4. CASE HandleMultibinding
  <2>1. /\ Handling({"multibinding_vector_creator"}) /\ stack' = Pop(2)
        /\ UNCHANGED <<status, live, fullyExpanded, replacements, base>>
    BY <1>4 DEF HandleMultibinding
  <2>2. Top.kind = "multibinding_vector_creator"
    BY <2>1 DEF Handling
  <2> QED BY <2>1, <2>2, PlainPop
<1>5. CASE HandleReplacedTooLate
  BY <1>5, FailedOwnership DEF HandleReplacedTooLate, Errors
<1>R. ASSUME Handling({"replaced"})
      PROVE  /\ stack # <<>> /\ status = "running"
             /\ Top.comp \in Component /\ Under.comp \in Component
             /\ \A c : /\ Owners(stack, c) \in Nat /\ Owners(Pop(2), c) \in Nat
                       /\ Owners(stack, c) = Owners(Pop(2), c) + Is(Under.comp, c)
                                               + Is(Top.comp, c)
  <2>1. /\ stack # <<>> /\ status = "running" /\ Top.kind = "replaced"
        /\ Top.comp \in Component /\ Under.comp \in Component /\ Len(stack) >= 2
    BY <1>R, HandledEntry, PopType DEF Handling, ComponentKind
  <2>2. Under.kind = "replacement"
    BY <1>0, <2>1, UnderProperties DEF TypeInv
  <2>3. \A c : Owner(Top, c) = Is(Top.comp, c) /\ Owner(Under, c) = Is(Under.comp, c)
    BY <2>1, <2>2, EntryOwner DEF ComponentKind
  <2> QED BY <1>0, <2>1, <2>3, OwnersPopped
<1>6. CASE HandleReplaced
  <2>1. /\ Handling({"replaced"}) /\ Replacement(Top.comp) = NoComponent
        /\ replacements' = [replacements EXCEPT ![Top.comp] = Under.comp]
        /\ stack' = Pop(2) /\ UNCHANGED <<status, live, fullyExpanded, base>>
    BY <1>6 DEF HandleReplaced
  <2>2. /\ replacements[Top.comp] = NoComponent /\ replacements \in ReplacementMap
    BY <2>1 DEF Replacement, TypeInv, TypeOK
  <2>3. ASSUME NEW c \in WithArgs
        PROVE  live'[c] = Owners(stack', c) + InStorage(c)' + InContext(c)'
    <3>1. c \in Component
      BY WithArgsAssumption
    <3>2. InContext(c)' = InContext(c) + Is(Top.comp, c) + Is(Under.comp, c)
      <4> DEFINE d == Top.comp
                 r == Under.comp
                 repl == replacements
      <4>1. /\ d \in Component /\ r \in Component /\ repl \in ReplacementMap
            /\ repl[d] = NoComponent
        BY <1>R, <2>1, <2>2
      <4>2. /\ InContext(c) = OwnedBy(fullyExpanded, repl, c)
            /\ InContext(c)' = OwnedBy(fullyExpanded, [repl EXCEPT ![d] = r], c)
        BY <2>1 DEF InContext
      <4> HIDE DEF d, r, repl
      <4>3. OwnedBy(fullyExpanded, [repl EXCEPT ![d] = r], c)
              = OwnedBy(fullyExpanded, repl, c) + Is(d, c) + Is(r, c)
        BY <3>1, <4>1, OwnedReplaced
      <4> QED BY <4>2, <4>3 DEF d, r
    <3>3. InStorage(c)' = InStorage(c)
      BY <2>1 DEF InStorage
    <3>4. live[c] = Owners(stack, c) + InStorage(c) + InContext(c)
      BY <1>R, <2>1, RunningOwnership
    <3>5. /\ Owners(Pop(2), c) \in Nat
          /\ Owners(stack, c) = Owners(Pop(2), c) + Is(Under.comp, c) + Is(Top.comp, c)
      BY <1>R, <2>1
    <3> QED BY <1>N, <2>1, <3>2, <3>3, <3>4, <3>5
  <2> QED BY <1>R, <2>1, <2>3, StillRunning
<1>7. CASE HandleReplacedAgain
  <2>1. /\ Handling({"replaced"}) /\ stack' = Pop(2)
        /\ live' = Destroy(Destroy(live, Top.comp), Under.comp)
        /\ UNCHANGED <<status, fullyExpanded, replacements, base>>
    BY <1>7 DEF HandleReplacedAgain
  <2>2. ASSUME NEW c \in WithArgs
        PROVE  live'[c] = Owners(stack', c) + InStorage(c)' + InContext(c)'
    <3>1. /\ Destroy(live, Top.comp) \in [Component -> Int]
          /\ Destroy(live, Top.comp)[c] = live[c] - Is(Top.comp, c)
      BY <1>0, <1>R, <2>1, CopyDestroyType, HeapOperations
    <3>2. live'[c] = live[c] - Is(Top.comp, c) - Is(Under.comp, c)
      BY <1>R, <2>1, <3>1, HeapOperations
    <3>3. InStorage(c)' = InStorage(c) /\ InContext(c)' = InContext(c)
      BY <2>1 DEF InStorage, InContext
    <3>4. live[c] = Owners(stack, c) + InStorage(c) + InContext(c)
      BY <1>R, <2>1, RunningOwnership
    <3>5. /\ Owners(Pop(2), c) \in Nat
          /\ Owners(stack, c) = Owners(Pop(2), c) + Is(Under.comp, c) + Is(Top.comp, c)
      BY <1>R, <2>1
    <3> QED BY <1>N, <2>1, <3>2, <3>3, <3>4, <3>5
  <2> QED BY <1>R, <2>1, <2>2, StillRunning
<1>8. CASE HandleReplacedDifferently
  BY <1>8, FailedOwnership DEF HandleReplacedDifferently, Errors
<1>L. ASSUME Handling({"lazy"})
      PROVE  /\ stack # <<>> /\ status = "running" /\ Top.comp \in Component
             /\ \A c : /\ Owners(stack, c) \in Nat /\ Owners(Pop(1), c) \in Nat
                       /\ Owners(stack, c) = Owners(Pop(1), c) + Is(Top.comp, c)
  <2>1. /\ stack # <<>> /\ status = "running" /\ Top.kind = "lazy"
        /\ Top.comp \in Component
    BY <1>L, HandledEntry DEF Handling, ComponentKind
  <2>2. \A c : Owner(Top, c) = Is(Top.comp, c)
    BY <2>1, EntryOwner DEF ComponentKind
  <2> QED BY <1>0, <2>1, <2>2, OwnersPopped
<1>9. CASE SkipLazyComponent
  <2>1. /\ Handling({"lazy"}) /\ stack' = Pop(1) /\ live' = Destroy(live, Top.comp)
        /\ UNCHANGED <<status, fullyExpanded, replacements, base>>
    BY <1>9 DEF SkipLazyComponent
  <2>2. ASSUME NEW c \in WithArgs
        PROVE  live'[c] = Owners(stack', c) + InStorage(c)' + InContext(c)'
    <3>1. live'[c] = live[c] - Is(Top.comp, c)
      BY <1>0, <1>L, <2>1, HeapOperations
    <3>2. InStorage(c)' = InStorage(c) /\ InContext(c)' = InContext(c)
      BY <2>1 DEF InStorage, InContext
    <3>3. live[c] = Owners(stack, c) + InStorage(c) + InContext(c)
      BY <1>L, <2>1, RunningOwnership
    <3>4. /\ Owners(Pop(1), c) \in Nat
          /\ Owners(stack, c) = Owners(Pop(1), c) + Is(Top.comp, c)
      BY <1>L, <2>1
    <3> QED BY <1>N, <2>1, <3>1, <3>2, <3>3, <3>4
  <2> QED BY <1>L, <2>1, <2>2, StillRunning
<1>10. CASE PerformComponentReplacement
  <2> DEFINE r == Replacement(Top.comp)
             e == [kind |-> "lazy", comp |-> r]
  <2>1. /\ Handling({"lazy"}) /\ r # NoComponent /\ stack' = ReplaceTop(e)
        /\ live' = Copy(Destroy(live, Top.comp), r)
        /\ UNCHANGED <<status, fullyExpanded, replacements, base>>
    BY <1>10 DEF PerformComponentReplacement
  <2>2. r \in Component
    BY <1>L, <2>1, ReplacementType DEF TypeInv
  <2> HIDE DEF r
  <2>3. e \in Entry /\ e.kind \in ComponentKind /\ e.comp = r
    BY <2>2 DEF Entry, ComponentEntry, ComponentKind
  <2> HIDE DEF e
  <2>4. ASSUME NEW c \in WithArgs
        PROVE  live'[c] = Owners(stack', c) + InStorage(c)' + InContext(c)'
    <3>1. /\ Destroy(live, Top.comp) \in [Component -> Int]
          /\ Destroy(live, Top.comp)[c] = live[c] - Is(Top.comp, c)
      BY <1>0, <1>L, <2>1, CopyDestroyType, HeapOperations
    <3>2. live'[c] = live[c] - Is(Top.comp, c) + Is(r, c)
      BY <2>1, <2>2, <3>1, HeapOperations
    <3>3. InStorage(c)' = InStorage(c) /\ InContext(c)' = InContext(c)
      BY <2>1 DEF InStorage, InContext
    <3>4. live[c] = Owners(stack, c) + InStorage(c) + InContext(c)
      BY <1>L, <2>1, RunningOwnership
    <3>5. /\ Owners(Pop(1), c) \in Nat
          /\ Owners(stack, c) = Owners(Pop(1), c) + Is(Top.comp, c)
      BY <1>L, <2>1
    <3>6. Owners(stack', c) = Owners(Pop(1), c) + Is(r, c)
      BY <1>0, <1>L, <2>1, <2>3, OwnersReplaced, EntryOwner
    <3> QED BY <1>N, <3>2, <3>3, <3>4, <3>5, <3>6
  <2> QED BY <1>L, <2>1, <2>4, StillRunning
<1>11. CASE DetectInstallationLoop
  BY <1>11, FailedOwnership DEF DetectInstallationLoop, Errors
<1>12. CASE ExpandLazyComponent
  <2> DEFINE d == Top.comp
             e == [kind |-> "end_marker", comp |-> d]
             s == ReplaceTop(e)
  <2>1. /\ Handling({"lazy"}) /\ stack' = s \o prog.body[d]
        /\ live' = Create(live, prog.body[d])
        /\ UNCHANGED <<status, fullyExpanded, replacements, base>>
    BY <1>12 DEF ExpandLazyComponent
  <2>2. d \in Component /\ prog.body[d] \in Seq(Entry)
    BY <1>L, <2>1, ProgramType DEF TypeInv
  <2> HIDE DEF d
  <2>3. e \in Entry /\ e.kind \in ComponentKind /\ e.comp = d
    BY <2>2 DEF Entry, ComponentEntry, ComponentKind
  <2> HIDE DEF e
  <2>4. s \in Seq(Entry)
    BY <1>0, <1>L, <2>1, <2>3, ReplaceTopProperties
  <2>5. ASSUME NEW c \in WithArgs
        PROVE  live'[c] = Owners(stack', c) + InStorage(c)' + InContext(c)'
    <3>1. live'[c] = live[c] + Owners(prog.body[d], c)
      BY <1>0, <2>1, <2>2, HeapOperations
    <3>2. InStorage(c)' = InStorage(c) /\ InContext(c)' = InContext(c)
      BY <2>1 DEF InStorage, InContext
    <3>3. live[c] = Owners(stack, c) + InStorage(c) + InContext(c)
      BY <1>L, <2>1, RunningOwnership
    <3>4. /\ Owners(Pop(1), c) \in Nat
          /\ Owners(stack, c) = Owners(Pop(1), c) + Is(d, c)
      BY <1>L, <2>1 DEF d
    <3>5. Owners(s, c) = Owners(Pop(1), c) + Is(d, c)
      BY <1>0, <1>L, <2>1, <2>3, OwnersReplaced, EntryOwner
    <3>6. /\ Owners(prog.body[d], c) \in Nat
          /\ Owners(stack', c) = Owners(s, c) + Owners(prog.body[d], c)
      BY <2>1, <2>2, <2>4, OwnersConcatenated
    <3> HIDE DEF s
    <3> QED BY <1>N, <3>1, <3>2, <3>3, <3>4, <3>5, <3>6
  <2> QED BY <1>L, <2>1, <2>5, StillRunning
<1>13. CASE HandleEndMarker
  <2> DEFINE d == Top.comp
  <2>1. /\ Handling({"end_marker"}) /\ stack' = Pop(1)
        /\ fullyExpanded' = fullyExpanded \cup {d}
        /\ UNCHANGED <<status, live, replacements, base>>
    BY <1>13 DEF HandleEndMarker
  <2>2. /\ stack # <<>> /\ status = "running" /\ Top.kind = "end_marker"
        /\ d \in Component
    BY <2>1, HandledEntry DEF Handling, ComponentKind
  <2>3. d \notin fullyExpanded
    <3>1. d \in inProgress
      BY <1>0, <2>2, PopMarker DEF ExpansionInv, MarkersMatchInProgress
    <3> QED BY <3>1 DEF ExpansionInv, ExpandedOnce
  <2>4. ASSUME NEW c \in WithArgs
        PROVE  live'[c] = Owners(stack', c) + InStorage(c)' + InContext(c)'
    <3>1. /\ Owners(Pop(1), c) \in Nat
          /\ Owners(stack, c) = Owners(Pop(1), c) + Is(d, c)
      BY <1>0, <2>2, OwnersPopped, EntryOwner DEF ComponentKind
    <3>2. InContext(c)' = InContext(c) + Is(d, c)
      BY <2>1, <2>2, <2>3, OwnedExpanded DEF InContext
    <3>3. InStorage(c)' = InStorage(c)
      BY <2>1 DEF InStorage
    <3>4. live[c] = Owners(stack, c) + InStorage(c) + InContext(c)
      BY <2>2, RunningOwnership
    <3> QED BY <1>N, <2>1, <3>1, <3>2, <3>3, <3>4
  <2> QED BY <2>1, <2>2, <2>4, StillRunning
<1>14. CASE StartCompression \/ CompressBinding
  <2>1. /\ status \in {"running", "compressing"} /\ status' = "compressing"
        /\ UNCHANGED <<stack, live, fullyExpanded, replacements, base>>
    BY <1>14 DEF StartCompression, CompressBinding
  <2>2. ASSUME NEW c \in WithArgs
        PROVE  live'[c] = Owners(stack', c) + InStorage(c)' + InContext(c)'
    <3>1. InStorage(c)' = InStorage(c) /\ InContext(c)' = InContext(c)
      BY <2>1 DEF InStorage, InContext
    <3> QED BY <2>1, <3>1, RunningOwnership
  <2> QED BY <2>1, <2>2, StillRunning
<1>15. CASE CompressMissingBinding
  BY <1>15, FailedOwnership DEF CompressMissingBinding, Errors
<1>F. ASSUME NEW c \in WithArgs
      PROVE  c \in Component /\ Owners(<<>>, c) = 0 /\ live[c] \in Int
  BY <1>0, WithArgsAssumption, OwnersInstall
<1>16. CASE FinishPermanent \/ FinishAddTo
  <2>1. /\ status \in {"running", "compressing"} /\ stack = <<>>
        /\ status' = "ready" /\ phase' # "undoable"
        /\ live' = DestroyAll(live, fullyExpanded, replacements)
        /\ UNCHANGED <<stack, fullyExpanded, replacements, base>>
    BY <1>16 DEF FinishPermanent, FinishAddTo, FinishedCompression, ExpansionInv,
                 EmptyWhenNotRunning
  <2>2. ASSUME NEW c \in WithArgs
        PROVE  live'[c] = Owners(stack', c) + InStorage(c)'
    <3>1. live'[c] = live[c] - InContext(c)
      BY <1>0, <1>F, <2>1, HeapOperations DEF InContext
    <3>2. InStorage(c)' = InStorage(c)
      BY <2>1 DEF InStorage
    <3>3. live[c] = Owners(stack, c) + InStorage(c) + InContext(c)
      BY <2>1, RunningOwnership
    <3> QED BY <1>F, <1>N, <2>1, <3>1, <3>2, <3>3
  <2>3. OwnershipExact'
    <3>1. ASSUME NEW c \in WithArgs
          PROVE  Owners(stack', c) + InStorage(c)' + 0 = Owners(stack', c) + InStorage(c)'
      BY <1>F, <1>N, <2>1 DEF InStorage
    <3> QED BY <2>1, <2>2, <3>1 DEF OwnershipExact, InStorage
  <2>4. ContextIsEmpty'
    BY <2>1 DEF ContextIsEmpty
  <2> QED BY <2>3, <2>4 DEF OwnershipInv
<1>17. CASE FinishUndoable
  <2>1. /\ status = "compressing" /\ stack = <<>> /\ base = EmptyStorage
        /\ status' = "ready" /\ fullyExpanded' = {} /\ replacements' = NothingReplaced
        /\ base'.fullyExpanded = fullyExpanded /\ base'.replacements = replacements
        /\ UNCHANGED <<stack, live>>
    BY <1>17 DEF FinishUndoable, FinishedCompression, ExpansionInv, EmptyWhenNotRunning
  <2>2. ASSUME NEW c \in WithArgs
        PROVE  live'[c] = Owners(stack', c) + InStorage(c)' + 0
    <3>1. InStorage(c)' = InContext(c)
      BY <2>1 DEF InStorage, InContext
    <3>2. InStorage(c) = 0
      BY <1>F, <2>1, EmptyOwnsNone DEF InStorage, EmptyStorage
    <3>3. live[c] = Owners(stack, c) + InStorage(c) + InContext(c)
      BY <2>1, RunningOwnership
    <3> QED BY <1>F, <1>N, <2>1, <3>1, <3>2, <3>3
  <2>3. OwnershipExact'
    BY <2>1, <2>2 DEF OwnershipExact, InStorage
  <2>4. ContextIsEmpty'
    BY <2>1 DEF ContextIsEmpty
  <2> QED BY <2>3, <2>4 DEF OwnershipInv
<1>18. CASE StartAddTo
  <2>1. /\ status = "ready" /\ stack = <<>> /\ status' = "running"
        /\ stack' = Install(prog.root) /\ live' = Create(live, stack')
        /\ fullyExpanded = {} /\ replacements = NothingReplaced
        /\ UNCHANGED <<fullyExpanded, replacements, base>>
    BY <1>18 DEF StartAddTo, ExpansionInv, EmptyWhenNotRunning, OwnershipInv,
                 ContextIsEmpty
  <2>2. prog.root \in Component
    BY ProgramType DEF TypeInv
  <2>3. ASSUME NEW c \in WithArgs
        PROVE  live'[c] = Owners(stack', c) + InStorage(c)' + InContext(c)'
    <3>1. live'[c] = live[c] + Owners(stack', c)
      BY <1>0, <2>1, <2>2, HeapOperations
    <3>2. Owners(stack', c) \in Nat
      BY <1>N, <2>1, <2>2, OwnersInstall
    <3>3. InContext(c)' = 0 /\ InStorage(c)' = InStorage(c)
      BY <1>F, <2>1, EmptyOwnsNone DEF InStorage, InContext
    <3>4. live[c] = Owners(stack, c) + InStorage(c) + 0
      BY <2>1 DEF OwnershipInv, OwnershipExact, InStorage, Errors
    <3> QED BY <1>F, <1>N, <2>1, <3>1, <3>2, <3>3, <3>4
  <2> QED BY <2>1, <2>3, StillRunning
<1>19. CASE DestroyNormalizedComponent
  <2>1. /\ status = "ready" /\ stack = <<>> /\ status' = "destroyed"
        /\ live' = DestroyAll(live, base.fullyExpanded, base.replacements)
        /\ base' = EmptyStorage /\ stack' = stack
    BY <1>19 DEF DestroyNormalizedComponent, ExpansionInv, EmptyWhenNotRunning
  <2>2. ASSUME NEW c \in WithArgs
        PROVE  live'[c] = Owners(stack', c) + InStorage(c)' + 0
    <3>1. live'[c] = live[c] - InStorage(c)
      BY <1>0, <1>F, <2>1, HeapOperations DEF InStorage
    <3>2. InStorage(c)' = 0
      BY <1>F, <2>1, EmptyOwnsNone DEF InStorage, EmptyStorage
    <3>3. live[c] = Owners(stack, c) + InStorage(c) + 0
      BY <2>1 DEF OwnershipInv, OwnershipExact, InStorage, Errors
    <3> QED BY <1>F, <1>N, <2>1, <3>1, <3>2, <3>3
  <2>3. OwnershipExact'
    BY <2>1, <2>2 DEF OwnershipExact, InStorage
  <2>4. ContextIsEmpty'
    BY <2>1 DEF ContextIsEmpty
  <2> QED BY <2>3, <2>4 DEF OwnershipInv
<1>20. CASE Terminated \/ UNCHANGED vars
  <2>1. UNCHANGED <<phase, status, stack, live, fullyExpanded, replacements, base>>
    BY <1>20 DEF Terminated, vars
  <2> QED BY <2>1 DEF OwnershipInv, OwnershipExact, ContextIsEmpty
<1> QED BY <1>1, <1>2, <1>3, <1>4, <1>5, <1>6, <1>7, <1>8, <1>9, <1>10, <1>11,
           <1>12, <1>13, <1>14, <1>15, <1>16, <1>17, <1>18, <1>19, <1>20 DEF Next

(* OwnershipExact, for every program: no ComponentInterfaceImpl is leaked or  *)
(* freed twice, when a component is skipped, replaced, replaced again or      *)
(* expanded, when the normalized component takes the sets of the context over *)
(* and when both are destroyed.                                               *)
THEOREM EachInterfaceHasOneOwner == Spec => []OwnershipExact
<1>1. Init => TypeInv /\ ExpansionInv /\ OwnershipInv
  BY TypeInvInit, ExpansionInvInit, OwnershipInit
<1>2. TypeInv /\ ExpansionInv /\ OwnershipInv /\ [Next]_vars
        => (TypeInv /\ ExpansionInv /\ OwnershipInv)'
  BY TypeInvNext, ExpansionInvNext, OwnershipNext
<1>3. OwnershipInv => OwnershipExact
  BY DEF OwnershipInv
<1> QED BY <1>1, <1>2, <1>3, PTL DEF Spec
=============================================================================
