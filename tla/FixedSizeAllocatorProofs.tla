----------------------- MODULE FixedSizeAllocatorProofs -----------------------
(***************************************************************************)
(* Proofs about FixedSizeAllocator, for all sizes, alignments and addresses. *)
(***************************************************************************)
EXTENDS FixedSizeAllocator, SequenceTheorems, FiniteSetTheorems,
        FunctionTheorems, TLAPS

(* The place of an object lies after the last byte used, at most an alignment *)
(* further on: the pointer arithmetic of constructObject never moves back.     *)
LEMMA NextPlaceBounds ==
  ASSUME NEW t \in Type, storageLastUsed \in Nat
  PROVE  /\ NextPlace(t) \in Nat
         /\ storageLastUsed < NextPlace(t)
         /\ NextPlace(t) <= storageLastUsed + Alignment[t]
<1>1. Alignment[t] \in Nat \ {0}
  BY LayoutAssumption
<1>2. storageLastUsed % Alignment[t] \in 0 .. Alignment[t] - 1
  BY <1>1, SMT
<1>3. QED
  BY <1>1, <1>2 DEF NextPlace

(* A type never reserves fewer bytes than its size.                           *)
LEMMA SpaceBounds ==
  ASSUME NEW t \in Type
  PROVE  /\ MaximumRequiredSpace(t) \in Nat
         /\ Size[t] \in Nat /\ Size[t] >= 1
  BY LayoutAssumption DEF MaximumRequiredSpace

(* Taking the last element of a sequence away leaves a sequence.              *)
LEMMA WithoutLast ==
  ASSUME NEW S, NEW s \in Seq(S), s # <<>>
  PROVE  /\ SubSeq(s, 1, Len(s) - 1) \in Seq(S)
         /\ s[Len(s)] \in S
<1>1. Len(s) \in Nat /\ Len(s) >= 1
  BY EmptySeq, LenProperties
<1>2. s[Len(s)] \in S
  BY <1>1, ElementOfSeq
<1>3. SubSeq(s, 1, Len(s) - 1) \in Seq(S)
  BY <1>1, SubSeqProperties
<1>4. QED
  BY <1>2, <1>3

(* The allocator starts with every field of its type.                         *)
LEMMA TypeOKInit == Init => TypeOK
  BY EmptySeq DEF Init, TypeOK

(* Every operation keeps the type of every field.                             *)
LEMMA TypeOKNext == TypeOK /\ [Next]_vars => TypeOK'
<1> SUFFICES ASSUME TypeOK, [Next]_vars PROVE TypeOK'
  OBVIOUS
<1>1. CASE UNCHANGED vars
  BY <1>1 DEF vars, TypeOK
<1>2. ASSUME NEW t \in Type, AddType(t) PROVE TypeOK'
  BY <1>2, SpaceBounds DEF AddType, TypeOK
<1>3. ASSUME NEW t \in Type, StartConstructObject(t) PROVE TypeOK'
  <2> DEFINE x == [type |-> t, at |-> NextPlace(t)]
  <2>1. x \in Object /\ x.at \in Nat
    BY NextPlaceBounds DEF TypeOK, Object
  <2>2. storageLastUsed' \in Nat
    BY <1>3, <2>1, SpaceBounds DEF StartConstructObject
  <2>3. constructing' \in Seq(Object) /\ objects' \subseteq Object
    BY <1>3, <2>1, AppendProperties DEF StartConstructObject, TypeOK
  <2>4. remainingTypes' \in [Type -> Nat]
    BY <1>3 DEF StartConstructObject, TypeOK
  <2>5. QED
    BY <1>3, <2>2, <2>3, <2>4 DEF StartConstructObject, TypeOK
<1>4. CASE AddExternallyAllocatedType
  BY <1>4 DEF AddExternallyAllocatedType, TypeOK
<1>5. CASE Construct
  BY <1>5, LayoutAssumption DEF Construct, TypeOK
<1>6. CASE FinishConstructObject
  <2>1. Innermost \in Object /\ constructing' \in Seq(Object)
    BY <1>6, WithoutLast
       DEF FinishConstructObject, LeaveConstructor, Innermost, TypeOK
  <2>2. Innermost \in Owned
    BY <2>1 DEF Object, Owned
  <2>3. onDestruction' \in Seq(Owned)
    BY <1>6, <2>2, AppendProperties DEF FinishConstructObject, TypeOK
  <2>4. QED
    BY <1>6, <2>1, <2>3 DEF FinishConstructObject, TypeOK
<1>7. CASE ConstructorThrows
  <2>1. constructing' \in Seq(Object)
    BY <1>7, WithoutLast DEF ConstructorThrows, LeaveConstructor, TypeOK
  <2>2. QED
    BY <1>7, <2>1 DEF ConstructorThrows, TypeOK
<1>8. CASE RegisterExternallyAllocatedObject
  <2>1. [type |-> NoType, at |-> 0] \in Owned
    BY DEF Owned
  <2>2. onDestruction' \in Seq(Owned)
    BY <1>8, <2>1, AppendProperties
       DEF RegisterExternallyAllocatedObject, TypeOK
  <2>3. QED
    BY <1>8, <2>2 DEF RegisterExternallyAllocatedObject, TypeOK
<1>9. CASE DestroyLast
  <2>1. onDestruction' \in Seq(Owned)
    BY <1>9, WithoutLast DEF DestroyLast, TypeOK
  <2>2. QED
    BY <1>9, <2>1 DEF DestroyLast, TypeOK
<1>10. CASE FreeStorage
  BY <1>10 DEF FreeStorage, TypeOK
<1>11. CASE Terminated
  BY <1>11 DEF Terminated, vars, TypeOK
<1>12. QED
  BY <1>1, <1>2, <1>3, <1>4, <1>5, <1>6, <1>7, <1>8, <1>9, <1>10, <1>11
     DEF Next

(* FixedSizeAllocator and FixedSizeAllocatorData keep their types through      *)
(* every sequence of operations: in particular remaining_types and             *)
(* num_types_to_destroy, which are unsigned, never go below zero.              *)
THEOREM AllocatorTypeCorrectness == Spec => []TypeOK
  BY TypeOKInit, TypeOKNext, PTL DEF Spec
-----------------------------------------------------------------------------
(* Division with remainder, as the provers need it.                           *)
LEMMA Division ==
  ASSUME NEW s \in Nat, NEW a \in Nat, a > 0
  PROVE  s \div a \in Nat /\ s = a * (s \div a) + (s % a)
<1>1. s \div a \in Nat
  BY SMTT(30)
<1>2. s = a * (s \div a) + (s % a)
  BY SMTT(30)
<1>3. QED
  BY <1>1, <1>2

(* A multiple of a number leaves no remainder.                                *)
LEMMA MultipleHasNoRemainder ==
  ASSUME NEW k \in Nat, NEW a \in Nat, a > 0
  PROVE  (a * k) % a = 0
  BY SMTT(30)

(* What is missing to the next multiple, in a form without division.          *)
LEMMA NextMultiple ==
  ASSUME NEW s \in Nat, NEW q \in Nat, NEW a \in Nat, a > 0,
         NEW r \in 0 .. a - 1, s = a * q + r
  PROVE  s + a - r = a * (q + 1)
  BY SMTT(30)

(* The place that constructObject computes is a multiple of the alignment.    *)
LEMMA NextPlaceAligned ==
  ASSUME NEW t \in Type, storageLastUsed \in Nat
  PROVE  NextPlace(t) % Alignment[t] = 0
<1>1. Alignment[t] \in Nat /\ Alignment[t] > 0
  BY LayoutAssumption
<1>2. PICK q \in Nat : storageLastUsed = Alignment[t] * q
                                         + (storageLastUsed % Alignment[t])
  BY <1>1, Division
<1>3. storageLastUsed % Alignment[t] \in 0 .. Alignment[t] - 1
  BY <1>1, SMT
<1>4. NextPlace(t) = Alignment[t] * (q + 1)
  BY <1>1, <1>2, <1>3, NextMultiple DEF NextPlace
<1>5. QED
  BY <1>1, <1>4, MultipleHasNoRemainder

(* The objects lie between the byte before the block and the last byte used:  *)
(* what makes NoOverlap inductive.                                            *)
BelowLastUsed ==
  \A x \in objects : storageBegin < x.at /\ LastByte(x) <= storageLastUsed

NoObjectsYet == phase = "reserving" => objects = {}

LayoutInv ==
  /\ TypeOK /\ NoObjectsYet /\ BelowLastUsed
  /\ storageBegin <= storageLastUsed
  /\ NoOverlap /\ Aligned

(* There are no objects at first.                                             *)
LEMMA LayoutInvInit == Init => LayoutInv
  BY TypeOKInit
     DEF Init, LayoutInv, NoObjectsYet, BelowLastUsed, NoOverlap, Aligned

(* A step that adds no object and does not move the pointer keeps the layout. *)
LEMMA FewerObjects ==
  ASSUME LayoutInv, TypeOK', objects' \subseteq objects,
         UNCHANGED <<storageBegin, storageLastUsed>>, NoObjectsYet'
  PROVE  LayoutInv'
  BY DEF LayoutInv, BelowLastUsed, NoOverlap, Aligned, LastByte

(* The next object starts after every byte in use.                            *)
LEMMA LayoutInvNext == LayoutInv /\ [Next]_vars => LayoutInv'
<1> SUFFICES ASSUME LayoutInv, [Next]_vars PROVE LayoutInv'
  OBVIOUS
<1>0. TypeOK /\ TypeOK'
  BY TypeOKNext DEF LayoutInv
<1>1. CASE UNCHANGED vars
  BY <1>0, <1>1, FewerObjects DEF vars, LayoutInv, NoObjectsYet
<1>2. ASSUME NEW t \in Type, AddType(t) PROVE LayoutInv'
  BY <1>0, <1>2, FewerObjects DEF AddType, LayoutInv, NoObjectsYet
<1>3. ASSUME NEW t \in Type, StartConstructObject(t) PROVE LayoutInv'
  <2> DEFINE x == [type |-> t, at |-> NextPlace(t)]
  <2>1. /\ x.at \in Nat /\ storageLastUsed < x.at /\ x.type = t
        /\ x.at % Alignment[x.type] = 0
    BY <1>0, NextPlaceBounds, NextPlaceAligned DEF TypeOK
  <2>2. /\ storageLastUsed' = x.at + Size[t] - 1
        /\ objects' = objects \cup {x}
        /\ phase' = phase /\ phase = "allocating" /\ storageBegin' = storageBegin
    BY <1>3 DEF StartConstructObject
  <2>3. Size[t] \in Nat /\ Size[t] >= 1 /\ LastByte(x) = storageLastUsed'
    BY <2>1, <2>2, SpaceBounds DEF LastByte
  <2>4. /\ storageLastUsed \in Nat /\ storageBegin \in Nat
        /\ storageLastUsed <= storageLastUsed'
    BY <1>0, <2>1, <2>2, <2>3, SMTT(30) DEF TypeOK
  <2>5. \A y \in objects : /\ y.at \in Nat /\ LastByte(y) \in Int
                           /\ storageBegin < y.at
                           /\ LastByte(y) <= storageLastUsed
    <3>1. ASSUME NEW y \in objects
          PROVE  y.at \in Nat /\ Size[y.type] \in Nat
      BY <1>0, SpaceBounds DEF TypeOK, Object
    <3>2. QED
      BY <3>1 DEF LayoutInv, BelowLastUsed, LastByte
  <2>6. BelowLastUsed'
    BY <2>1, <2>2, <2>3, <2>4, <2>5 DEF BelowLastUsed, LastByte, LayoutInv
  <2>7. NoOverlap'
    <3>1. \A y \in objects : LastByte(y) < x.at
      BY <2>1, <2>4, <2>5
    <3>2. QED
      BY <2>2, <3>1 DEF NoOverlap, LayoutInv, LastByte
  <2>8. Aligned'
    BY <2>1, <2>2 DEF Aligned, LayoutInv
  <2>9. NoObjectsYet' /\ (storageBegin <= storageLastUsed)'
    BY <2>2, <2>4 DEF NoObjectsYet, LayoutInv
  <2>10. QED
    BY <1>0, <2>6, <2>7, <2>8, <2>9 DEF LayoutInv
<1>4. CASE AddExternallyAllocatedType
  BY <1>0, <1>4, FewerObjects
     DEF AddExternallyAllocatedType, LayoutInv, NoObjectsYet
<1>5. CASE Construct
  <2>1. objects' = {} /\ phase' = "allocating"
    BY <1>5 DEF Construct, LayoutInv, NoObjectsYet
  <2>2. (storageBegin <= storageLastUsed)'
    BY <1>5, LayoutAssumption DEF Construct
  <2>3. QED
    BY <1>0, <2>1, <2>2
       DEF LayoutInv, NoObjectsYet, BelowLastUsed, NoOverlap, Aligned
<1>6. CASE FinishConstructObject
  BY <1>0, <1>6, FewerObjects DEF FinishConstructObject, LayoutInv, NoObjectsYet
<1>7. CASE ConstructorThrows
  BY <1>0, <1>7, FewerObjects DEF ConstructorThrows, LayoutInv, NoObjectsYet
<1>8. CASE RegisterExternallyAllocatedObject
  BY <1>0, <1>8, FewerObjects
     DEF RegisterExternallyAllocatedObject, LayoutInv, NoObjectsYet
<1>9. CASE DestroyLast
  BY <1>0, <1>9, FewerObjects DEF DestroyLast, LayoutInv, NoObjectsYet
<1>10. CASE FreeStorage
  BY <1>0, <1>10, FewerObjects DEF FreeStorage, LayoutInv, NoObjectsYet
<1>11. CASE Terminated
  BY <1>0, <1>11, FewerObjects DEF Terminated, vars, LayoutInv, NoObjectsYet
<1>12. QED
  BY <1>1, <1>2, <1>3, <1>4, <1>5, <1>6, <1>7, <1>8, <1>9, <1>10, <1>11
     DEF Next

(* constructObject places every object at a multiple of its alignment and      *)
(* never hands out a byte twice, for any sizes, alignments, address of the     *)
(* block and order of nested or failed constructions.                          *)
THEOREM ObjectsStayUsable == Spec => []ObjectsAreUsable
<1>1. LayoutInv => ObjectsAreUsable
  BY DEF LayoutInv, ObjectsAreUsable
<1>2. QED
  BY <1>1, LayoutInvInit, LayoutInvNext, PTL DEF Spec
-----------------------------------------------------------------------------
(* The bytes reserved for the objects still to be constructed: as many as     *)
(* MaximumRequiredSpace(t) for each time that t was added.                    *)
Bytes(t, i) == {<<t, i, b>> : b \in 1 .. MaximumRequiredSpace(t)}
Reserved(remaining) == UNION {UNION {Bytes(t, i) : i \in 1 .. remaining[t]} :
                                t \in Type}

(* The slots of on_destruction for the objects still to be constructed.       *)
Slots(remaining) == UNION {{<<t, i>> : i \in 1 .. remaining[t]} :
                             t \in Type \ TriviallyDestructible}

(* The objects under construction that will need a slot.                      *)
ToDestroy(s) == {i \in DOMAIN s : s[i].type \notin TriviallyDestructible}

(* One object more, or less, of a type.                                       *)
OneMore(r, t) == [r EXCEPT ![t] = @ + 1]
OneLess(r, t) == [r EXCEPT ![t] = @ - 1]

(* What the pointer has moved, and what it can still be moved, fits.          *)
SpaceInv ==
  /\ phase = "reserving" => storageLastUsed = storageBegin
  /\ IsFiniteSet(Reserved(remainingTypes))
  /\ storageLastUsed - storageBegin + Cardinality(Reserved(remainingTypes))
       <= totalSize

(* The slots taken, and those that can still be needed, fit.                  *)
SlotInv ==
  /\ IsFiniteSet(Slots(remainingTypes))
  /\ Len(onDestruction) + remainingExternal
       + Cardinality(ToDestroy(constructing))
       + Cardinality(Slots(remainingTypes)) <= numTypesToDestroy

(* Adding one number to each of 1 .. n names n bytes.                         *)
LEMMA BytesCount ==
  ASSUME NEW t \in Type, NEW i
  PROVE  /\ IsFiniteSet(Bytes(t, i))
         /\ Cardinality(Bytes(t, i)) = MaximumRequiredSpace(t)
<1> DEFINE n == MaximumRequiredSpace(t)
           f == [b \in 1 .. n |-> <<t, i, b>>]
<1>1. n \in Nat
  BY SpaceBounds
<1>2. Bytes(t, i) = {<<t, i, b>> : b \in 1 .. n}
  BY DEF Bytes
<1> HIDE DEF n
<1>3. IsFiniteSet(1 .. n) /\ Cardinality(1 .. n) = n
  BY <1>1, FS_Interval
<1>4. f \in Bijection(1 .. n, Bytes(t, i))
  <2>1. f \in [1 .. n -> Bytes(t, i)]
    BY <1>2
  <2>2. \A a, b \in 1 .. n : f[a] = f[b] => a = b
    OBVIOUS
  <2>3. \A x \in Bytes(t, i) : \E b \in 1 .. n : f[b] = x
    BY <1>2
  <2> QED BY <2>1, <2>2, <2>3
         DEF Bijection, Injection, Surjection, IsInjective
<1>5. ExistsBijection(1 .. n, Bytes(t, i))
  BY <1>4 DEF ExistsBijection
<1> QED BY <1>3, <1>5, FS_Bijection DEF n

(* An object more to construct, and the bytes reserved for it.                *)
LEMMA ReserveMore ==
  ASSUME NEW r \in [Type -> Nat], NEW t \in Type,
         NEW s, s = OneMore(r, t),
         IsFiniteSet(Reserved(r))
  PROVE  /\ IsFiniteSet(Reserved(s))
         /\ Cardinality(Reserved(s)) =
              Cardinality(Reserved(r)) + MaximumRequiredSpace(t)
<1> DEFINE n == r[t] + 1
<1>1. r[t] \in Nat /\ n \in Nat
  OBVIOUS
<1>2. /\ s[t] = n
      /\ \A u \in Type : u # t => s[u] = r[u]
  BY DEF OneMore
<1>3. \A i : i \in 1 .. n <=> i \in 1 .. r[t] \/ i = n
  BY <1>1
<1> HIDE DEF n
<1>4. Reserved(s) = Reserved(r) \cup Bytes(t, n)
  <2>1. ASSUME NEW x, x \in Reserved(s)
        PROVE  x \in Reserved(r) \cup Bytes(t, n)
    <3>u. PICK u \in Type : \E i \in 1 .. s[u] : x \in Bytes(u, i)
      BY <2>1 DEF Reserved
    <3>1. PICK i \in 1 .. s[u] : x \in Bytes(u, i)
      BY <3>u
    <3>2. i \in 1 .. r[u] \/ (u = t /\ i = n)
      BY <1>2, <1>3
    <3> QED BY <3>1, <3>2 DEF Reserved
  <2>2. ASSUME NEW x \in Reserved(r)
        PROVE  x \in Reserved(s)
    <3>u. PICK u \in Type : \E i \in 1 .. r[u] : x \in Bytes(u, i)
      BY <2>2 DEF Reserved
    <3>1. PICK i \in 1 .. r[u] : x \in Bytes(u, i)
      BY <3>u
    <3>2. i \in 1 .. s[u]
      BY <1>2, <1>3
    <3> QED BY <3>1, <3>2 DEF Reserved
  <2>3. n \in 1 .. s[t]
    BY <1>1, <1>2 DEF n
  <2>4. Bytes(t, n) \subseteq Reserved(s)
    BY <2>3 DEF Reserved
  <2> QED BY <2>1, <2>2, <2>4
<1>5. Reserved(r) \cap Bytes(t, n) = {}
  <2>1. ASSUME NEW x \in Reserved(r), x \in Bytes(t, n)
        PROVE  FALSE
    <3>u. PICK u \in Type : \E i \in 1 .. r[u] : x \in Bytes(u, i)
      BY <2>1 DEF Reserved
    <3>1. PICK i \in 1 .. r[u] : x \in Bytes(u, i)
      BY <3>u
    <3>2. u = t /\ i = n
      BY <2>1, <3>1 DEF Bytes
    <3> QED BY <1>1, <3>1, <3>2 DEF n
  <2> QED BY <2>1
<1>6. /\ IsFiniteSet(Reserved(s))
      /\ Cardinality(Reserved(s)) = Cardinality(Reserved(r))
           + Cardinality(Bytes(t, n)) - Cardinality({})
  <2>1. IsFiniteSet(Bytes(t, n))
    BY BytesCount
  <2> DEFINE S == Reserved(r)
             T == Bytes(t, n)
  <2>2. IsFiniteSet(S) /\ IsFiniteSet(T) /\ S \cap T = {}
        /\ Reserved(s) = S \cup T
    BY <1>4, <1>5, <2>1
  <2> HIDE DEF S, T
  <2>3. /\ IsFiniteSet(S \cup T)
        /\ Cardinality(S \cup T) =
             Cardinality(S) + Cardinality(T) - Cardinality(S \cap T)
    BY <2>2, FS_Union
  <2>4. /\ IsFiniteSet(Reserved(s))
        /\ Cardinality(Reserved(s)) =
             Cardinality(S) + Cardinality(T) - Cardinality({})
    BY <2>2, <2>3
  <2> QED BY <2>4 DEF S, T
<1>7. Cardinality(Reserved(r)) \in Nat /\ MaximumRequiredSpace(t) \in Nat
  BY FS_CardinalityType, SpaceBounds
<1> QED BY <1>6, <1>7, BytesCount, FS_EmptySet

(* Functions on a set with the same values are the same.                      *)
LEMMA SameFunction ==
  ASSUME NEW S, NEW T, NEW f \in [S -> T], NEW g \in [S -> T],
         \A x \in S : f[x] = g[x]
  PROVE  f = g
  OBVIOUS

(* Counting down and up again gives the same counts.                          *)
LEMMA OneLessOneMore ==
  ASSUME NEW r \in [Type -> Nat], NEW t \in Type, r[t] > 0,
         NEW s, s = OneLess(r, t)
  PROVE  /\ s \in [Type -> Nat]
         /\ r = OneMore(s, t)
         /\ \A u \in Type : s[u] \in Nat /\ s[u] <= r[u]
<1>1. s \in [Type -> Nat] /\ s[t] + 1 = r[t]
      /\ \A u \in Type : u # t => s[u] = r[u]
  <2>1. r[t] - 1 \in Nat /\ r[t] - 1 + 1 = r[t]
    OBVIOUS
  <2> DEFINE m == r[t] - 1
  <2> HIDE DEF m
  <2>2. s = [r EXCEPT ![t] = m] /\ m \in Nat
    BY <2>1 DEF m, OneLess
  <2>3. s \in [Type -> Nat] /\ s[t] = m /\ \A u \in Type : u # t => s[u] = r[u]
    BY <2>2
  <2> QED BY <2>1, <2>3 DEF m
<1>a. r = OneMore(s, t)
  <2> DEFINE q == OneMore(s, t)
             m == s[t] + 1
  <2>1. q \in [Type -> Nat] /\ m = r[t] /\ r \in [Type -> Nat]
    BY <1>1 DEF OneMore
  <2>2. \A u \in Type : q[u] = IF u = t THEN m ELSE s[u]
    BY <1>1 DEF OneMore
  <2> HIDE DEF q, m
  <2>3. \A u \in Type : q[u] = r[u]
    BY <1>1, <2>1, <2>2
  <2>4. q = r
    BY <2>1, <2>3, SameFunction
  <2> QED BY <2>4 DEF q
<1> QED BY <1>1, <1>a

(* An object less to construct.                                               *)
LEMMA ReserveLess ==
  ASSUME NEW r \in [Type -> Nat], NEW t \in Type, r[t] > 0,
         NEW s, s = OneLess(r, t),
         IsFiniteSet(Reserved(r))
  PROVE  /\ IsFiniteSet(Reserved(s))
         /\ Cardinality(Reserved(r)) =
              Cardinality(Reserved(s)) + MaximumRequiredSpace(t)
<1>1. s \in [Type -> Nat] /\ r = OneMore(s, t)
      /\ \A u \in Type : s[u] \in Nat /\ s[u] <= r[u]
  BY OneLessOneMore
<1>2. \A u \in Type : 1 .. s[u] \subseteq 1 .. r[u]
  <2>1. \A u \in Type : r[u] \in Nat
    OBVIOUS
  <2> QED BY <1>1, <2>1
<1>3. Reserved(s) \subseteq Reserved(r)
  BY <1>2 DEF Reserved
<1>4. IsFiniteSet(Reserved(s))
  BY <1>3, FS_Subset
<1> QED BY <1>1, <1>4, ReserveMore

(* The same for the slots: a type with a destructor needs one for each object *)
(* and the others none.                                                       *)
LEMMA SlotsMore ==
  ASSUME NEW r \in [Type -> Nat], NEW t \in Type,
         NEW s, s = OneMore(r, t),
         IsFiniteSet(Slots(r))
  PROVE  /\ IsFiniteSet(Slots(s))
         /\ Cardinality(Slots(s)) = Cardinality(Slots(r)) +
              (IF t \in TriviallyDestructible THEN 0 ELSE 1)
<1> DEFINE n == r[t] + 1
<1>1. r[t] \in Nat /\ n \in Nat
  OBVIOUS
<1>2. /\ s[t] = n
      /\ \A u \in Type : u # t => s[u] = r[u]
  BY DEF OneMore
<1>3. \A i : i \in 1 .. n <=> i \in 1 .. r[t] \/ i = n
  BY <1>1
<1>4. <<t, n>> \notin Slots(r)
  <2>1. \A i \in 1 .. r[t] : i # n
    BY <1>1
  <2> HIDE DEF n
  <2> QED BY <2>1 DEF Slots
<1> HIDE DEF n
<1>5. CASE t \in TriviallyDestructible
  <2>1. \A u \in Type \ TriviallyDestructible : s[u] = r[u]
    BY <1>2, <1>5
  <2>2. Slots(s) = Slots(r)
    BY <2>1 DEF Slots
  <2> QED BY <1>5, <2>2, FS_CardinalityType
<1>6. CASE t \notin TriviallyDestructible
  <2>1. \A u \in Type \ TriviallyDestructible :
          {<<u, i>> : i \in 1 .. s[u]} =
            {<<u, i>> : i \in 1 .. r[u]} \cup (IF u = t THEN {<<t, n>>} ELSE {})
    <3> SUFFICES ASSUME NEW u \in Type \ TriviallyDestructible
                 PROVE  {<<u, i>> : i \in 1 .. s[u]} =
                          {<<u, i>> : i \in 1 .. r[u]}
                            \cup (IF u = t THEN {<<t, n>>} ELSE {})
      OBVIOUS
    <3>1. CASE u = t
      BY <1>2, <1>3, <3>1
    <3>2. CASE u # t
      BY <1>2, <3>2
    <3> QED BY <3>1, <3>2
  <2>2. Slots(s) = Slots(r) \cup {<<t, n>>}
    BY <1>6, <2>1 DEF Slots
  <2> QED BY <1>4, <1>6, <2>2, FS_AddElement, ZenonT(30)
<1> QED BY <1>5, <1>6

(* A slot less to be needed.                                                  *)
LEMMA SlotsLess ==
  ASSUME NEW r \in [Type -> Nat], NEW t \in Type, r[t] > 0,
         NEW s, s = OneLess(r, t),
         IsFiniteSet(Slots(r))
  PROVE  /\ IsFiniteSet(Slots(s))
         /\ Cardinality(Slots(r)) = Cardinality(Slots(s)) +
              (IF t \in TriviallyDestructible THEN 0 ELSE 1)
<1>1. s \in [Type -> Nat] /\ r = OneMore(s, t)
      /\ \A u \in Type : s[u] \in Nat /\ s[u] <= r[u]
  BY OneLessOneMore
<1>2. \A u \in Type : 1 .. s[u] \subseteq 1 .. r[u]
  <2>1. \A u \in Type : r[u] \in Nat
    OBVIOUS
  <2> QED BY <1>1, <2>1
<1>3. Slots(s) \subseteq Slots(r)
  BY <1>2 DEF Slots
<1>4. IsFiniteSet(Slots(s))
  BY <1>3, FS_Subset
<1> QED BY <1>1, <1>4, SlotsMore

(* With nothing left to construct, nothing is reserved.                       *)
LEMMA NothingReserved ==
  LET none == [t \in Type |-> 0]
  IN /\ IsFiniteSet(Reserved(none)) /\ Cardinality(Reserved(none)) = 0
     /\ IsFiniteSet(Slots(none)) /\ Cardinality(Slots(none)) = 0
<1> DEFINE none == [t \in Type |-> 0]
<1>1. \A t \in Type : 1 .. none[t] = {}
  OBVIOUS
<1> HIDE DEF none
<1>2. Reserved(none) = {} /\ Slots(none) = {}
  BY <1>1 DEF Reserved, Slots
<1>3. /\ IsFiniteSet(Reserved(none)) /\ Cardinality(Reserved(none)) = 0
      /\ IsFiniteSet(Slots(none)) /\ Cardinality(Slots(none)) = 0
  BY <1>2, FS_EmptySet
<1> QED BY <1>3 DEF none


(* The invariant that bounds the pointer holds at first.                      *)
LEMMA SpaceInvInit == Init => SpaceInv
<1> SUFFICES ASSUME Init PROVE SpaceInv
  OBVIOUS
<1>1. IsFiniteSet(Reserved(remainingTypes))
      /\ Cardinality(Reserved(remainingTypes)) = 0
  BY NothingReserved DEF Init
<1> QED BY <1>1 DEF Init, SpaceInv

(* A step that leaves the pointer and the counts alone keeps the space.       *)
LEMMA SpaceUntouched ==
  ASSUME SpaceInv, phase' = "reserving" => phase = "reserving",
         UNCHANGED <<totalSize, remainingTypes, storageBegin, storageLastUsed>>
  PROVE  SpaceInv'
  BY DEF SpaceInv

(* Every operation keeps the space: constructObject takes from the bytes      *)
(* reserved at least what it moves the pointer by.                            *)
LEMMA SpaceInvNext == TypeOK /\ SpaceInv /\ [Next]_vars => SpaceInv'
<1> SUFFICES ASSUME TypeOK, SpaceInv, [Next]_vars PROVE SpaceInv'
  OBVIOUS
<1>0. /\ totalSize \in Nat /\ storageBegin \in Nat /\ storageLastUsed \in Nat
      /\ remainingTypes \in [Type -> Nat]
      /\ IsFiniteSet(Reserved(remainingTypes))
      /\ Cardinality(Reserved(remainingTypes)) \in Nat
      /\ storageLastUsed - storageBegin + Cardinality(Reserved(remainingTypes))
           <= totalSize
  BY FS_CardinalityType DEF TypeOK, SpaceInv
<1>1. CASE UNCHANGED vars
  BY <1>1, SpaceUntouched DEF vars
<1>2. ASSUME NEW t \in Type, AddType(t) PROVE SpaceInv'
  <2>1. remainingTypes' = OneMore(remainingTypes, t)
    BY <1>2 DEF AddType, OneMore
  <2>2. /\ IsFiniteSet(Reserved(remainingTypes'))
        /\ Cardinality(Reserved(remainingTypes')) =
             Cardinality(Reserved(remainingTypes)) + MaximumRequiredSpace(t)
    BY <1>0, <2>1, ReserveMore
  <2>3. /\ totalSize' = totalSize + MaximumRequiredSpace(t)
        /\ UNCHANGED <<phase, storageBegin, storageLastUsed>>
        /\ MaximumRequiredSpace(t) \in Nat
    BY <1>2, SpaceBounds DEF AddType
  <2> QED BY <1>0, <2>2, <2>3 DEF SpaceInv
<1>3. ASSUME NEW t \in Type, StartConstructObject(t) PROVE SpaceInv'
  <2>1. /\ remainingTypes' = OneLess(remainingTypes, t) /\ remainingTypes[t] > 0
        /\ storageLastUsed' = NextPlace(t) + Size[t] - 1
        /\ phase = "allocating" /\ UNCHANGED <<phase, storageBegin, totalSize>>
    BY <1>3 DEF StartConstructObject, OneLess
  <2>2. /\ IsFiniteSet(Reserved(remainingTypes'))
        /\ Cardinality(Reserved(remainingTypes)) =
             Cardinality(Reserved(remainingTypes')) + MaximumRequiredSpace(t)
    BY <1>0, <2>1, ReserveLess
  <2>3. Cardinality(Reserved(remainingTypes')) \in Nat
    BY <2>2, FS_CardinalityType
  <2>4. /\ NextPlace(t) \in Nat /\ NextPlace(t) <= storageLastUsed + Alignment[t]
        /\ Alignment[t] \in Nat /\ Size[t] \in Nat
        /\ MaximumRequiredSpace(t) = Alignment[t] + Size[t] - 1
    BY <1>0, NextPlaceBounds, LayoutAssumption DEF MaximumRequiredSpace
  <2>5. storageLastUsed' - storageBegin
          <= storageLastUsed - storageBegin + MaximumRequiredSpace(t)
    BY <1>0, <2>1, <2>4
  <2>6. storageLastUsed' \in Int
    BY <2>1, <2>4
  <2>7. storageLastUsed' - storageBegin
          + Cardinality(Reserved(remainingTypes')) <= totalSize
    BY <1>0, <2>2, <2>3, <2>4, <2>5, <2>6
  <2> QED BY <2>1, <2>2, <2>7 DEF SpaceInv
<1>4. CASE AddExternallyAllocatedType
  BY <1>4, SpaceUntouched DEF AddExternallyAllocatedType
<1>5. CASE Construct
  <2>1. PICK a \in Address : storageBegin' = a /\ storageLastUsed' = a
    BY <1>5 DEF Construct
  <2>2. a \in Nat
    BY LayoutAssumption
  <2>3. /\ storageLastUsed = storageBegin
        /\ phase' = "allocating" /\ UNCHANGED <<totalSize, remainingTypes>>
    BY <1>5 DEF Construct, SpaceInv
  <2> QED BY <1>0, <2>1, <2>2, <2>3 DEF SpaceInv
<1>6. CASE FinishConstructObject
  BY <1>6, SpaceUntouched DEF FinishConstructObject
<1>7. CASE ConstructorThrows
  BY <1>7, SpaceUntouched DEF ConstructorThrows
<1>8. CASE RegisterExternallyAllocatedObject
  BY <1>8, SpaceUntouched DEF RegisterExternallyAllocatedObject
<1>9. CASE DestroyLast
  <2>1. /\ IsFiniteSet(Reserved(remainingTypes'))
        /\ Cardinality(Reserved(remainingTypes')) = 0
    BY <1>9, NothingReserved DEF DestroyLast
  <2>2. phase = "allocating" /\ UNCHANGED <<phase, totalSize, storageBegin,
                                            storageLastUsed>>
    BY <1>9 DEF DestroyLast
  <2> QED BY <1>0, <2>1, <2>2 DEF SpaceInv
<1>10. CASE FreeStorage
  BY <1>10, SpaceUntouched DEF FreeStorage
<1>11. CASE Terminated
  BY <1>11, SpaceUntouched DEF Terminated, vars
<1> QED
  BY <1>1, <1>2, <1>3, <1>4, <1>5, <1>6, <1>7, <1>8, <1>9, <1>10, <1>11
     DEF Next

(* The objects that are between the block's first byte and the pointer are in *)
(* the block.                                                                 *)
LEMMA SpaceSuffices == LayoutInv /\ SpaceInv => WithinStorage
<1> SUFFICES ASSUME LayoutInv, SpaceInv, NEW x \in objects
             PROVE  /\ storageBegin < x.at
                    /\ LastByte(x) <= storageBegin + totalSize
  BY DEF WithinStorage
<1>1. /\ totalSize \in Nat /\ storageBegin \in Nat /\ storageLastUsed \in Nat
      /\ x \in Object
  BY DEF LayoutInv, TypeOK
<1>2. LastByte(x) \in Int
  BY <1>1, SpaceBounds DEF LastByte, Object
<1>3. storageBegin < x.at /\ LastByte(x) <= storageLastUsed
  BY DEF LayoutInv, BelowLastUsed
<1>4. storageLastUsed <= storageBegin + totalSize
  BY <1>1, FS_CardinalityType DEF SpaceInv
<1> QED BY <1>1, <1>2, <1>3, <1>4

(* The block that the constructor of FixedSizeAllocator allocates has room    *)
(* for every object: whatever sizes, alignments, address and order of         *)
(* construction, also with constructors that construct or throw, the space    *)
(* counted by addType is enough.                                              *)
THEOREM ObjectsFitTheBlock == Spec => []WithinStorage
<1>1. Init => LayoutInv /\ SpaceInv
  BY LayoutInvInit, SpaceInvInit
<1>2. LayoutInv /\ SpaceInv /\ [Next]_vars => (LayoutInv /\ SpaceInv)'
  BY LayoutInvNext, SpaceInvNext DEF LayoutInv
<1> QED BY <1>1, <1>2, SpaceSuffices, PTL DEF Spec
-----------------------------------------------------------------------------
(* An object whose constructor starts needs a slot when it has a destructor.  *)
LEMMA ToDestroyMore ==
  ASSUME NEW s \in Seq(Object), NEW x \in Object
  PROVE  /\ IsFiniteSet(ToDestroy(s))
         /\ Cardinality(ToDestroy(Append(s, x))) = Cardinality(ToDestroy(s)) +
              (IF x.type \in TriviallyDestructible THEN 0 ELSE 1)
<1> DEFINE a == Append(s, x)
           n == Len(s)
<1>1. /\ n \in Nat /\ Len(a) = n + 1
      /\ DOMAIN s = 1 .. n /\ DOMAIN a = 1 .. n + 1
      /\ \A i \in 1 .. n : a[i] = s[i]
      /\ a[n + 1] = x
  BY AppendProperties, LenProperties
<1>2. IsFiniteSet(ToDestroy(s))
  <2>1. IsFiniteSet(1 .. n) /\ ToDestroy(s) \subseteq 1 .. n
    BY <1>1, FS_Interval DEF ToDestroy
  <2> QED BY <2>1, FS_Subset
<1> HIDE DEF a, n
<1>3. n + 1 \notin ToDestroy(s)
  BY <1>1 DEF ToDestroy
<1>i. \A i : i \in 1 .. n + 1 <=> i \in 1 .. n \/ i = n + 1
  BY <1>1
<1>4. CASE x.type \in TriviallyDestructible
  <2>1. ToDestroy(a) = ToDestroy(s)
    BY <1>1, <1>i, <1>4 DEF ToDestroy
  <2> QED BY <1>2, <1>4, <2>1, FS_CardinalityType DEF a
<1>5. CASE x.type \notin TriviallyDestructible
  <2>1. ToDestroy(a) = ToDestroy(s) \cup {n + 1}
    BY <1>1, <1>i, <1>5 DEF ToDestroy
  <2> QED BY <1>2, <1>3, <1>5, <2>1, FS_AddElement DEF a
<1> QED BY <1>2, <1>4, <1>5

(* One whose constructor returns or throws is under construction no longer.   *)
LEMMA ToDestroyLess ==
  ASSUME NEW s \in Seq(Object), s # <<>>
  PROVE  /\ IsFiniteSet(ToDestroy(s))
         /\ Cardinality(ToDestroy(s)) =
              Cardinality(ToDestroy(SubSeq(s, 1, Len(s) - 1))) +
              (IF s[Len(s)].type \in TriviallyDestructible THEN 0 ELSE 1)
<1> DEFINE l == SubSeq(s, 1, Len(s) - 1)
           x == s[Len(s)]
<1>1. l \in Seq(Object) /\ x \in Object
  BY WithoutLast
<1>2. s = Append(l, x)
  <2>1. PICK k \in Seq(Object), y \in Object : s = Append(k, y)
    BY SequenceEmptyOrAppend
  <2>2. /\ Len(k) \in Nat /\ Len(s) = Len(k) + 1
        /\ \A i \in 1 .. Len(k) : s[i] = k[i]
        /\ s[Len(k) + 1] = y
    BY <2>1, AppendProperties, LenProperties
  <2>3. /\ Len(s) - 1 = Len(k)
        /\ \A i \in 1 .. Len(s) - 1 : s[i] \in Object
    BY <2>2, ElementOfSeq
  <2>4. /\ Len(l) = Len(k)
        /\ \A i \in 1 .. Len(k) : l[i] = s[i]
    BY <2>2, <2>3, SubSeqProperties
  <2>5. l = k
    BY <1>1, <2>2, <2>4, SeqEqual
  <2> QED BY <2>1, <2>2, <2>5
<1> HIDE DEF l, x
<1>3. /\ IsFiniteSet(ToDestroy(l))
      /\ Cardinality(ToDestroy(s)) = Cardinality(ToDestroy(l)) +
           (IF x.type \in TriviallyDestructible THEN 0 ELSE 1)
  BY <1>1, <1>2, ToDestroyMore
<1>4. IsFiniteSet(ToDestroy(s))
  BY <1>1, ToDestroyMore
<1> QED BY <1>3, <1>4 DEF l, x

(* The invariant that counts the slots holds at first.                        *)
LEMMA SlotInvInit == Init => SlotInv
<1> SUFFICES ASSUME Init PROVE SlotInv
  OBVIOUS
<1>1. /\ IsFiniteSet(Slots(remainingTypes))
      /\ Cardinality(Slots(remainingTypes)) = 0
  BY NothingReserved DEF Init
<1>2. ToDestroy(constructing) = {} /\ Len(onDestruction) = 0
  BY EmptySeq DEF Init, ToDestroy
<1>3. Cardinality(ToDestroy(constructing)) = 0
  BY <1>2, FS_EmptySet
<1> QED BY <1>1, <1>2, <1>3 DEF Init, SlotInv

(* A step that touches no counter of the slots keeps their number.            *)
LEMMA SlotsUntouched ==
  ASSUME SlotInv,
         UNCHANGED <<numTypesToDestroy, remainingTypes, remainingExternal,
                     onDestruction, constructing>>
  PROVE  SlotInv'
  BY DEF SlotInv

(* The sum of the slots taken, external, running and reserved: one that was   *)
(* reserved is needed by a running constructor,                               *)
LEMMA ReservedToRunning ==
  ASSUME NEW k \in Nat, NEW e \in Nat, NEW r \in Nat, NEW s \in Nat,
         NEW n \in Nat, NEW r2 \in Nat, NEW s2 \in Nat, NEW d \in {0, 1},
         k + e + r + s <= n, s = s2 + d, r2 = r + d
  PROVE  k + e + r2 + s2 <= n
  OBVIOUS

(* one that a running constructor needs is taken,                             *)
LEMMA RunningToTaken ==
  ASSUME NEW k \in Nat, NEW e \in Nat, NEW r \in Nat, NEW s \in Nat,
         NEW n \in Nat, NEW r2 \in Nat, NEW k2 \in Nat, NEW d \in {0, 1},
         k + e + r + s <= n, r = r2 + d, k2 = k + d
  PROVE  k2 + e + r2 + s <= n
  OBVIOUS

(* one that a constructor that throws needed is free,                         *)
LEMMA RunningToFree ==
  ASSUME NEW k \in Nat, NEW e \in Nat, NEW r \in Nat, NEW s \in Nat,
         NEW n \in Nat, NEW r2 \in Nat, k + e + r + s <= n, r2 <= r
  PROVE  k + e + r2 + s <= n
  OBVIOUS

(* and in the end nothing is external or reserved.                            *)
LEMMA TakenToFree ==
  ASSUME NEW k \in Nat, NEW e \in Nat, NEW r \in Nat, NEW s \in Nat,
         NEW n \in Nat, NEW k2 \in Nat, k + e + r + s <= n, k2 <= k
  PROVE  k2 + 0 + r + 0 <= n
  OBVIOUS

(* Every operation keeps the number of slots: an object passes from the ones  *)
(* to be constructed to the ones under construction and from there either to  *)
(* on_destruction or, when its constructor throws, to nothing.                *)
LEMMA SlotInvNext == TypeOK /\ SlotInv /\ [Next]_vars => SlotInv'
<1> SUFFICES ASSUME TypeOK, SlotInv, [Next]_vars PROVE SlotInv'
  OBVIOUS
<1>t. TypeOK'
  BY TypeOKNext
<1> DEFINE slots == Cardinality(Slots(remainingTypes))
           running == Cardinality(ToDestroy(constructing))
           taken == Len(onDestruction)
<1>f. IsFiniteSet(Slots(remainingTypes)) /\ IsFiniteSet(ToDestroy(constructing))
  <2>1. DOMAIN constructing = 1 .. Len(constructing) /\ Len(constructing) \in Nat
    BY LenProperties DEF TypeOK
  <2>2. IsFiniteSet(1 .. Len(constructing))
        /\ ToDestroy(constructing) \subseteq 1 .. Len(constructing)
    BY <2>1, FS_Interval DEF ToDestroy
  <2> QED BY <2>2, FS_Subset DEF SlotInv
<1>0. /\ numTypesToDestroy \in Nat /\ remainingExternal \in Nat
      /\ remainingTypes \in [Type -> Nat]
      /\ slots \in Nat /\ running \in Nat /\ taken \in Nat
      /\ taken + remainingExternal + running + slots <= numTypesToDestroy
  BY <1>f, FS_CardinalityType, LenProperties DEF TypeOK, SlotInv
<1>p. IsFiniteSet(Slots(remainingTypes')) => slots' \in Nat
  BY FS_CardinalityType
<1>q. SlotInv' <=>
        /\ IsFiniteSet(Slots(remainingTypes'))
        /\ taken' + remainingExternal' + running' + slots' <= numTypesToDestroy'
  BY DEF SlotInv
<1>1. CASE UNCHANGED vars
  BY <1>1, SlotsUntouched DEF vars
<1>2. ASSUME NEW t \in Type, AddType(t) PROVE SlotInv'
  <2>1. remainingTypes' = OneMore(remainingTypes, t)
    BY <1>2 DEF AddType, OneMore
  <2>2. /\ IsFiniteSet(Slots(remainingTypes'))
        /\ slots' = slots + (IF t \in TriviallyDestructible THEN 0 ELSE 1)
    BY <1>0, <1>f, <2>1, SlotsMore
  <2>3. /\ numTypesToDestroy' = IF t \in TriviallyDestructible
                                  THEN numTypesToDestroy ELSE numTypesToDestroy + 1
        /\ remainingExternal' = remainingExternal
        /\ taken' = taken /\ running' = running
    BY <1>2 DEF AddType
  <2> HIDE DEF slots, running, taken
  <2> QED BY <1>0, <1>q, <2>2, <2>3
<1>3. ASSUME NEW t \in Type, StartConstructObject(t) PROVE SlotInv'
  <2> DEFINE x == [type |-> t, at |-> NextPlace(t)]
  <2>1. x \in Object /\ x.type = t
    BY NextPlaceBounds DEF Object, TypeOK
  <2>2. /\ remainingTypes' = OneLess(remainingTypes, t) /\ remainingTypes[t] > 0
        /\ constructing' = Append(constructing, x)
        /\ UNCHANGED <<numTypesToDestroy, remainingExternal, onDestruction>>
    BY <1>3 DEF StartConstructObject, OneLess
  <2> HIDE DEF x
  <2>3. /\ IsFiniteSet(Slots(remainingTypes'))
        /\ slots = slots' + (IF t \in TriviallyDestructible THEN 0 ELSE 1)
    BY <1>0, <1>f, <2>2, SlotsLess
  <2>4. running' = running + (IF t \in TriviallyDestructible THEN 0 ELSE 1)
    BY <2>1, <2>2, ToDestroyMore DEF TypeOK
  <2>5. /\ taken' = taken
        /\ numTypesToDestroy' = numTypesToDestroy /\ remainingExternal' = remainingExternal
    BY <2>2
  <2>6. slots' \in Nat
    BY <1>p, <2>3
  <2> HIDE DEF slots, running, taken
  <2>7. PICK d \in {0, 1} : d = IF t \in TriviallyDestructible THEN 0 ELSE 1
    OBVIOUS
  <2>8. running' \in Nat /\ slots = slots' + d /\ running' = running + d
    BY <1>0, <2>3, <2>4, <2>7
  <2>a. taken + remainingExternal + running' + slots' <= numTypesToDestroy
    BY <1>0, <2>6, <2>8, ReservedToRunning
  <2>9. taken' + remainingExternal' + running' + slots' <= numTypesToDestroy'
    BY <2>5, <2>a
  <2> QED BY <1>q, <2>3, <2>9
<1>4. CASE AddExternallyAllocatedType
  <2>1. /\ numTypesToDestroy' = numTypesToDestroy + 1
        /\ remainingExternal' = remainingExternal + 1
        /\ slots' = slots /\ taken' = taken /\ running' = running
        /\ IsFiniteSet(Slots(remainingTypes'))
    BY <1>4, <1>f DEF AddExternallyAllocatedType
  <2> HIDE DEF slots, running, taken
  <2> QED BY <1>0, <1>q, <2>1
<1>5. CASE Construct
  BY <1>5, SlotsUntouched DEF Construct
<1>l. ASSUME constructing # <<>>, LeaveConstructor
      PROVE  running = running' +
               (IF Innermost.type \in TriviallyDestructible THEN 0 ELSE 1)
             /\ running' \in Nat /\ Innermost \in Owned
  <2>1. /\ constructing \in Seq(Object)
        /\ constructing' = SubSeq(constructing, 1, Len(constructing) - 1)
        /\ Innermost = constructing[Len(constructing)]
    BY <1>l DEF TypeOK, LeaveConstructor, Innermost
  <2>2. running = running' +
               (IF Innermost.type \in TriviallyDestructible THEN 0 ELSE 1)
    BY <1>l, <2>1, ToDestroyLess
  <2>3. constructing' \in Seq(Object) /\ Innermost \in Object
    BY <1>l, <2>1, WithoutLast
  <2>4. DOMAIN constructing' = 1 .. Len(constructing')
        /\ Len(constructing') \in Nat
    BY <2>3, LenProperties
  <2>5. IsFiniteSet(1 .. Len(constructing'))
        /\ ToDestroy(constructing') \subseteq 1 .. Len(constructing')
    BY <2>4, FS_Interval DEF ToDestroy
  <2>6. IsFiniteSet(ToDestroy(constructing'))
    BY <2>5, FS_Subset
  <2>7. running' \in Nat
    BY <2>6, FS_CardinalityType
  <2> QED BY <2>2, <2>3, <2>7 DEF Object, Owned
<1>6. CASE FinishConstructObject
  <2>1. /\ constructing # <<>> /\ LeaveConstructor
        /\ onDestruction' = IF Innermost.type \in TriviallyDestructible
                              THEN onDestruction
                              ELSE Append(onDestruction, Innermost)
        /\ UNCHANGED <<numTypesToDestroy, remainingTypes, remainingExternal>>
    BY <1>6 DEF FinishConstructObject
  <2>2. /\ running = running' +
             (IF Innermost.type \in TriviallyDestructible THEN 0 ELSE 1)
        /\ running' \in Nat /\ Innermost \in Owned
    BY <1>l, <2>1
  <2>3. taken' = taken +
          (IF Innermost.type \in TriviallyDestructible THEN 0 ELSE 1)
    BY <1>0, <2>1, <2>2, AppendProperties DEF TypeOK
  <2>4. /\ slots' = slots /\ IsFiniteSet(Slots(remainingTypes'))
        /\ numTypesToDestroy' = numTypesToDestroy /\ remainingExternal' = remainingExternal
    BY <1>f, <2>1
  <2> HIDE DEF slots, running, taken
  <2>7. PICK d \in {0, 1} :
          d = IF Innermost.type \in TriviallyDestructible THEN 0 ELSE 1
    OBVIOUS
  <2>8. taken' \in Nat /\ running = running' + d /\ taken' = taken + d
    BY <1>0, <2>2, <2>3, <2>7
  <2>a. taken' + remainingExternal + running' + slots <= numTypesToDestroy
    <3>1. /\ taken \in Nat /\ remainingExternal \in Nat /\ running \in Nat
          /\ slots \in Nat /\ numTypesToDestroy \in Nat
          /\ running' \in Nat /\ taken' \in Nat
          /\ taken + remainingExternal + running + slots <= numTypesToDestroy
          /\ running = running' + d /\ taken' = taken + d
      BY <1>0, <2>2, <2>8
    <3> QED BY ONLY <3>1, d \in {0, 1}, RunningToTaken
  <2>9. taken' + remainingExternal' + running' + slots' <= numTypesToDestroy'
    BY <2>4, <2>a
  <2> QED BY <1>q, <2>4, <2>9
<1>7. CASE ConstructorThrows
  <2>1. /\ constructing # <<>> /\ LeaveConstructor
        /\ UNCHANGED <<numTypesToDestroy, remainingTypes, remainingExternal,
                       onDestruction>>
    BY <1>7 DEF ConstructorThrows
  <2>2. running' <= running /\ running' \in Nat
    BY <1>0, <1>l, <2>1
  <2>3. /\ taken' = taken /\ slots' = slots
        /\ IsFiniteSet(Slots(remainingTypes'))
        /\ numTypesToDestroy' = numTypesToDestroy /\ remainingExternal' = remainingExternal
    BY <1>f, <2>1
  <2> HIDE DEF slots, running, taken
  <2>a. taken + remainingExternal + running' + slots <= numTypesToDestroy
    BY <1>0, <2>2, RunningToFree
  <2>9. taken' + remainingExternal' + running' + slots' <= numTypesToDestroy'
    BY <2>3, <2>a
  <2> QED BY <1>q, <2>3, <2>9
<1>8. CASE RegisterExternallyAllocatedObject
  <2>1. /\ remainingExternal > 0 /\ remainingExternal' = remainingExternal - 1
        /\ onDestruction' = Append(onDestruction, [type |-> NoType, at |-> 0])
        /\ UNCHANGED <<numTypesToDestroy, remainingTypes, constructing>>
    BY <1>8 DEF RegisterExternallyAllocatedObject
  <2>2. [type |-> NoType, at |-> 0] \in Owned
    BY DEF Owned
  <2>3. taken' = taken + 1
    BY <2>1, <2>2, AppendProperties DEF TypeOK
  <2>4. running' = running /\ slots' = slots
        /\ IsFiniteSet(Slots(remainingTypes'))
    BY <1>f, <2>1
  <2> HIDE DEF slots, running, taken
  <2> QED BY <1>0, <1>q, <2>1, <2>3, <2>4
<1>9. CASE DestroyLast
  <2>1. /\ onDestruction # <<>> /\ remainingExternal' = 0
        /\ remainingTypes' = [t \in Type |-> 0]
        /\ onDestruction' = SubSeq(onDestruction, 1, Len(onDestruction) - 1)
        /\ UNCHANGED <<numTypesToDestroy, constructing>>
    BY <1>9 DEF DestroyLast
  <2>2. IsFiniteSet(Slots(remainingTypes')) /\ slots' = 0
    BY <2>1, NothingReserved
  <2>3. /\ onDestruction \in Seq(Owned)
        /\ \A i \in 1 .. Len(onDestruction) - 1 : onDestruction[i] \in Owned
    BY LenProperties DEF TypeOK
  <2>4. /\ Len(onDestruction) \in Nat /\ Len(onDestruction) >= 1
        /\ Len(onDestruction') = Len(onDestruction) - 1
    <3>1. Len(onDestruction) \in Nat /\ Len(onDestruction) >= 1
      BY <2>1, <2>3, EmptySeq, LenProperties
    <3> DEFINE m == Len(onDestruction) - 1
    <3>2. m \in Nat /\ 1 \in Int /\ m \in Int
      BY <3>1
    <3>3. onDestruction' = SubSeq(onDestruction, 1, m)
          /\ \A i \in 1 .. m : onDestruction[i] \in Owned
      BY <2>1, <2>3
    <3> HIDE DEF m
    <3>4. Len(onDestruction') = IF 1 <= m THEN m - 1 + 1 ELSE 0
      BY <3>2, <3>3, SubSeqProperties
    <3>5. Len(onDestruction') = m
      BY <3>2, <3>4
    <3> QED BY <3>1, <3>5 DEF m
  <2>5. /\ taken' <= taken /\ taken' \in Nat /\ running' = running
        /\ numTypesToDestroy' = numTypesToDestroy /\ remainingExternal' = 0
    BY <2>1, <2>4
  <2> HIDE DEF slots, running, taken
  <2>a. taken' + 0 + running + 0 <= numTypesToDestroy
    BY <1>0, <2>5, TakenToFree
  <2>9. taken' + remainingExternal' + running' + slots' <= numTypesToDestroy'
    BY <2>2, <2>5, <2>a
  <2> QED BY <1>q, <2>2, <2>9
<1>10. CASE FreeStorage
  BY <1>10, SlotsUntouched DEF FreeStorage
<1>11. CASE Terminated
  BY <1>11, SlotsUntouched DEF Terminated, vars
<1> QED
  BY <1>1, <1>2, <1>3, <1>4, <1>5, <1>6, <1>7, <1>8, <1>9, <1>10, <1>11
     DEF Next

(* on_destruction, which must not reallocate, has a slot for every object     *)
(* whose constructor is running and every external one still to come: the     *)
(* count that addType and addExternallyAllocatedType keep is enough for any   *)
(* nesting of the constructors, any order of their returns and any throws.    *)
THEOREM SlotsAreEnough == Spec => []SlotsSuffice
<1>1. TypeOK /\ SlotInv => SlotsSuffice
  <2> SUFFICES ASSUME TypeOK, SlotInv PROVE SlotsSuffice
    OBVIOUS
  <2> DEFINE running == ToDestroy(constructing)
  <2>1. /\ DOMAIN constructing = 1 .. Len(constructing)
        /\ Len(constructing) \in Nat /\ Len(onDestruction) \in Nat
    BY LenProperties DEF TypeOK
  <2>2. IsFiniteSet(1 .. Len(constructing)) /\ running \subseteq 1 .. Len(constructing)
    BY <2>1, FS_Interval DEF ToDestroy
  <2>3. Cardinality(running) \in Nat /\ Cardinality(Slots(remainingTypes)) \in Nat
    BY <2>2, FS_Subset, FS_CardinalityType DEF SlotInv
  <2>4. running = {i \in DOMAIN constructing :
                     constructing[i].type \notin TriviallyDestructible}
    BY DEF ToDestroy
  <2> HIDE DEF running
  <2>5. Len(onDestruction) + remainingExternal + Cardinality(running)
          + Cardinality(Slots(remainingTypes)) <= numTypesToDestroy
    BY DEF SlotInv, running
  <2>6. Len(onDestruction) + remainingExternal + Cardinality(running)
          <= numTypesToDestroy
    BY <2>1, <2>3, <2>5 DEF TypeOK
  <2> QED BY <2>4, <2>6 DEF SlotsSuffice
<1>2. Init => TypeOK /\ SlotInv
  BY TypeOKInit, SlotInvInit
<1>3. TypeOK /\ SlotInv /\ [Next]_vars => (TypeOK /\ SlotInv)'
  BY TypeOKNext, SlotInvNext
<1> QED BY <1>1, <1>2, <1>3, PTL DEF Spec
=============================================================================
