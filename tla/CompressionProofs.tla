--------------------------- MODULE CompressionProofs ---------------------------
(***************************************************************************)
(* Proofs about the bindings of a normalized component and an injector, for *)
(* every program.  An error about multiple bindings is reported exactly     *)
(* when two bindings of a type disagree, outside the pairs that the         *)
(* normalized component compressed.  A class is merged into its interface   *)
(* only when nothing else needs it, the merge is undone when a component    *)
(* added later does, and the interface gets the class that the program      *)
(* bound it to.  The last part is about the memory: what was reserved while *)
(* bindings were handled covers what the graph makes in the end, after      *)
(* pairs have been merged, and some of them undone.                         *)
(***************************************************************************)
EXTENDS BindingNormalizationProofs

-----------------------------------------------------------------------------
(* A binding that was declared is kept in a map of bindings.                  *)
Holds(map, e) == /\ IsBound(map, e.type)
                 /\ map[e.type].kind = e.kind
                 /\ map[e.type].create = e.create

(* The bindings in force: those of the normalized component come first.       *)
InForce(e) == IF IsBound(base.bindings, e.type) THEN Holds(base.bindings, e)
              ELSE Holds(bindingDataMap, e)

(* A map has, for a type, a binding that some component declares.             *)
IsDeclared(map, t) == IsBound(map, t) => map[t] \in Declared /\ map[t].type = t

Occurs(s, e) == \E i \in DOMAIN s : s[i] = e

(* What the compression under way has merged.                                 *)
CompressedNow(t) == \E c \in Type : /\ undoInfo[c] # Unbound
                                    /\ t \in {c, undoInfo[c].i_type}

(* The entries on the stack come from components that have started.           *)
StackIsDeclared ==
  \A i \in DOMAIN stack : stack[i].kind \in BindingKind => stack[i] \in Declared

(* While entries are handled, each binding declared so far is still on the    *)
(* stack or in force, and the maps have nothing that was not declared.        *)
HandlingInv ==
  status = "running" =>
    /\ undoInfo = NothingBound
    /\ \A t \in Type : /\ IsDeclared(bindingDataMap, t)
                       /\ CompressedInBase(t) \/ IsDeclared(base.bindings, t)
    /\ \A e \in Declared :
         Occurs(stack, e) \/ CompressedInBase(e.type) \/ InForce(e)

(* Compression removes from the map only what undoInfo remembers.             *)
CompressingInv ==
  status = "compressing" =>
    /\ AllAgree(Declared)
    /\ phase = "undoable" =>
         /\ \A c \in Type : IsBound(compressedBindings, c) => undoInfo[c] = Unbound
         /\ \A t \in Type : CompressedNow(t) \/ IsDeclared(bindingDataMap, t)
         /\ \A e \in Declared : CompressedNow(e.type) \/ Holds(bindingDataMap, e)

(* What the normalized component hands to the injector built on it.           *)
ReadyInv ==
  status = "ready" /\ phase = "undoable" =>
    /\ \A t \in Type : CompressedInBase(t) \/ IsDeclared(base.bindings, t)
    /\ \A e \in Declared : CompressedInBase(e.type) \/ Holds(base.bindings, e)

BindingInv ==
  /\ StackIsDeclared
  /\ HandlingInv
  /\ CompressingInv
  /\ ReadyInv
  /\ ConflictsAreReported

-----------------------------------------------------------------------------
(* What is declared is an entry of a component that has started.              *)
LEMMA DeclaredEntry ==
  ASSUME TypeInv, NEW e \in Declared
  PROVE  /\ e \in Binding /\ e.kind \in BindingKind /\ e.type \in Type
         /\ \E c \in Component : \E i \in DOMAIN prog.body[c] : prog.body[c][i] = e
<1>1. PICK c \in Started : e \in BindingsOf(c)
  BY DEF Declared
<1>2. c \in Component
  BY <1>1 DEF Started, TypeInv, TypeOK, NormalizedComponentStorage
<1>3. e.kind \in BindingKind /\ \E i \in DOMAIN prog.body[c] : prog.body[c][i] = e
  BY <1>1 DEF BindingsOf, Entries
<1>4. prog.body[c] \in Seq(Entry)
  BY <1>2, ProgramType DEF TypeInv
<1>5. e \in Entry
  BY <1>3, <1>4, ElementOfSeq, LenProperties
<1>6. e \in Binding
  BY <1>3, <1>5, EntryOfKind
<1> QED BY <1>2, <1>3, <1>6 DEF Binding

(* The code compares the create functions only when one of the bindings is in *)
(* the normalized component: they tell the kinds apart as well.               *)
LEMMA SameCreateSameKind ==
  ASSUME TypeInv, NEW e \in Declared, NEW f \in Declared, e.create = f.create
  PROVE  e.kind = f.kind
<1>1. prog \in Program /\ e.kind \in BindingKind /\ f.kind \in BindingKind
  BY DeclaredEntry DEF TypeInv
<1>2. PICK c \in Component : \E i \in DOMAIN prog.body[c] : prog.body[c][i] = e
  BY DeclaredEntry
<1>3. PICK d \in Component : \E i \in DOMAIN prog.body[d] : prog.body[d][i] = f
  BY DeclaredEntry
<1>4. PICK i \in DOMAIN prog.body[c] : prog.body[c][i] = e
  BY <1>2
<1>5. PICK j \in DOMAIN prog.body[d] : prog.body[d][j] = f
  BY <1>3
<1> QED BY <1>1, <1>4, <1>5, CreateFunctionAssumption

(* What is declared grows with the components that have started.              *)
LEMMA DeclaredGrows ==
  ASSUME prog' = prog
  PROVE  /\ Started' = Started => Declared' = Declared
         /\ \A c : Started' = Started \cup {c} => Declared' = Declared \cup BindingsOf(c)
<1>1. \A c : BindingsOf(c)' = BindingsOf(c)
  BY DEF BindingsOf, Entries
<1>2. Declared' = UNION {BindingsOf(c) : c \in Started'}
  BY <1>1 DEF Declared
<1>3. Started' = Started => Declared' = Declared
  BY <1>2 DEF Declared
<1>4. ASSUME NEW c, Started' = Started \cup {c}
      PROVE  Declared' = Declared \cup BindingsOf(c)
  <2> HIDE DEF Started
  <2> QED BY <1>2, <1>4 DEF Declared
<1> QED BY <1>3, <1>4

(* Compressed pairs are told apart by the storage and by the context alone.   *)
LEMMA SameCompressed ==
  /\ base' = base => \A t : CompressedInBase(t)' = CompressedInBase(t)
  /\ undoInfo' = undoInfo => \A t : CompressedNow(t)' = CompressedNow(t)
BY DEF CompressedInBase, CompressedNow

(* Bindings held by one map agree.                                            *)
LEMMA HeldAgree ==
  ASSUME NEW map, NEW e, NEW f, Holds(map, e), Holds(map, f)
  PROVE  Agree(e, f)
BY DEF Holds, Agree

-----------------------------------------------------------------------------
(* A step that handles an entry other than a binding.                         *)
LEMMA OtherEntryHandled ==
  ASSUME BindingInv, status = "running", status' = "running",
         Declared' = Declared, UNCHANGED <<base, bindingDataMap, undoInfo>>,
         TypeInv,
         \A e : e.kind \in BindingKind => (Occurs(stack', e) <=> Occurs(stack, e))
  PROVE  BindingInv'
<1>1. StackIsDeclared'
  <2>1. ASSUME NEW i \in DOMAIN stack', stack'[i].kind \in BindingKind
        PROVE  stack'[i] \in Declared'
    <3>1. Occurs(stack, stack'[i])
      BY <2>1 DEF Occurs
    <3> QED BY <2>1, <3>1 DEF Occurs, BindingInv, StackIsDeclared
  <2> QED BY <2>1 DEF StackIsDeclared
<1>2. HandlingInv'
  <2>1. HandlingInv
    BY DEF BindingInv
  <2>2. \A t \in Type : /\ IsDeclared(bindingDataMap, t)'
                        /\ CompressedInBase(t)' \/ IsDeclared(base.bindings, t)'
    BY <2>1, SameCompressed DEF HandlingInv, IsDeclared
  <2>3. ASSUME NEW e \in Declared
        PROVE  Occurs(stack', e) \/ CompressedInBase(e.type)' \/ InForce(e)'
    <3>1. e.kind \in BindingKind
      BY DeclaredEntry
    <3>2. Occurs(stack, e) \/ CompressedInBase(e.type) \/ InForce(e)
      BY <2>1 DEF HandlingInv
    <3>3. InForce(e)' = InForce(e)
      BY DEF InForce
    <3> QED BY <3>1, <3>2, <3>3, SameCompressed
  <2> QED BY <2>1, <2>2, <2>3 DEF HandlingInv
<1> QED BY <1>1, <1>2 DEF BindingInv, CompressingInv, ReadyInv, ConflictsAreReported,
                          GraphIsBuilt

(* Any error but the one about bindings.                                      *)
LEMMA OtherError ==
  ASSUME BindingInv, NEW error \in Errors \ {"multiple_bindings"}, Fail(error)
  PROVE  BindingInv'
<1>1. /\ status' = error
      /\ UNCHANGED <<prog, stack, inProgress, fullyExpanded, base>>
  BY DEF Fail, expansionVars, storageVars
<1>2. Declared' = Declared
  BY <1>1, DeclaredGrows DEF Started
<1>3. StackIsDeclared'
  BY <1>1, <1>2 DEF BindingInv, StackIsDeclared
<1> QED BY <1>1, <1>3 DEF BindingInv, HandlingInv, CompressingInv, ReadyInv,
                          ConflictsAreReported, GraphIsBuilt, Errors

(* Popping the entry at the back, or two, and replacing it.                   *)
LEMMA OccursPopped ==
  ASSUME stack \in Seq(Entry), stack # <<>>, NEW e
  PROVE  /\ Occurs(Pop(1), e) => Occurs(stack, e)
         /\ Occurs(stack, e) => Occurs(Pop(1), e) \/ e = Top
         /\ Len(stack) > 1 =>
              /\ Occurs(Pop(2), e) => Occurs(stack, e)
              /\ Occurs(stack, e) => Occurs(Pop(2), e) \/ e \in {Top, Under}
<1> DEFINE n == Len(stack)
           p == Pop(1)
           q == Pop(2)
<1>1. n \in Nat \ {0} /\ DOMAIN stack = 1 .. n
      /\ 1 \in Nat /\ 2 \in Nat /\ 1 <= n /\ (n > 1 => 2 <= n)
  BY TopProperties
<1>2. DOMAIN p = 1 .. n - 1 /\ \A i \in 1 .. n - 1 : p[i] = stack[i]
  BY <1>1, PopProperties
<1>3. n > 1 => DOMAIN q = 1 .. n - 2 /\ \A i \in 1 .. n - 2 : q[i] = stack[i]
  BY <1>1, PopProperties
<1>4. Top = stack[n] /\ Under = stack[n - 1]
  BY DEF Top, Under
<1> HIDE DEF n, p, q
<1>5. 1 .. n = (1 .. n - 1) \cup {n}
  BY <1>1
<1>6. n > 1 => 1 .. n = (1 .. n - 2) \cup {n - 1, n}
  BY <1>1
<1>7. /\ Occurs(p, e) => Occurs(stack, e)
      /\ Occurs(stack, e) => Occurs(p, e) \/ e = Top
  BY <1>1, <1>2, <1>4, <1>5 DEF Occurs
<1>8. n > 1 => /\ Occurs(q, e) => Occurs(stack, e)
               /\ Occurs(stack, e) => Occurs(q, e) \/ e \in {Top, Under}
  BY <1>1, <1>3, <1>4, <1>6 DEF Occurs
<1> QED BY <1>7, <1>8 DEF n, p, q

(* The stack after its last entry has been replaced by another.               *)
LEMMA OccursReplaced ==
  ASSUME stack \in Seq(Entry), stack # <<>>, NEW d \in Entry, NEW e
  PROVE  Occurs(ReplaceTop(d), e) <=> Occurs(Pop(1), e) \/ e = d
<1> DEFINE n == Len(stack)
           p == Pop(1)
           r == ReplaceTop(d)
<1>1. n \in Nat \ {0} /\ DOMAIN stack = 1 .. n /\ 1 \in Nat /\ 1 <= n
  BY TopProperties
<1>2. DOMAIN p = 1 .. n - 1 /\ \A i \in 1 .. n - 1 : p[i] = stack[i]
  BY <1>1, PopProperties
<1>3. /\ DOMAIN r = DOMAIN stack /\ r[n] = d
      /\ \A i \in 1 .. n - 1 : r[i] = stack[i]
  BY ReplaceTopProperties
<1> HIDE DEF n, p, r
<1>4. 1 .. n = (1 .. n - 1) \cup {n}
  BY <1>1
<1>5. Occurs(r, e) <=> Occurs(p, e) \/ e = d
  BY <1>1, <1>2, <1>3, <1>4 DEF Occurs
<1> QED BY <1>5 DEF p, r

(* The stack after entries have been pushed.                                  *)
LEMMA OccursPushed ==
  ASSUME NEW s \in Seq(Entry), NEW t \in Seq(Entry), NEW e
  PROVE  Occurs(s \o t, e) <=> Occurs(s, e) \/ Occurs(t, e)
<1> DEFINE m == Len(s)
           n == Len(t)
           u == s \o t
<1>1. m \in Nat /\ n \in Nat /\ DOMAIN s = 1 .. m /\ DOMAIN t = 1 .. n
  BY LenProperties
<1>2. /\ u \in Seq(Entry) /\ Len(u) = m + n
      /\ \A i \in 1 .. m + n : u[i] = IF i <= m THEN s[i] ELSE t[i - m]
  BY ConcatProperties
<1>3. DOMAIN u = 1 .. m + n
  BY <1>2, LenProperties
<1> HIDE DEF m, n, u
<1>4. ASSUME Occurs(u, e) PROVE Occurs(s, e) \/ Occurs(t, e)
  <2>1. PICK i \in 1 .. m + n : u[i] = e
    BY <1>3, <1>4 DEF Occurs
  <2>2. CASE i <= m
    <3>1. i \in 1 .. m /\ s[i] = e
      BY <1>1, <1>2, <2>1, <2>2
    <3> QED BY <1>1, <3>1 DEF Occurs
  <2>3. CASE ~(i <= m)
    <3>1. i - m \in 1 .. n /\ t[i - m] = e
      BY <1>1, <1>2, <2>1, <2>3
    <3> QED BY <1>1, <3>1 DEF Occurs
  <2> QED BY <2>2, <2>3
<1>5. ASSUME Occurs(s, e) PROVE Occurs(u, e)
  <2>1. PICK i \in 1 .. m : s[i] = e
    BY <1>1, <1>5 DEF Occurs
  <2>2. i \in 1 .. m + n /\ u[i] = e
    BY <1>1, <1>2, <2>1
  <2> QED BY <1>3, <2>2 DEF Occurs
<1>6. ASSUME Occurs(t, e) PROVE Occurs(u, e)
  <2>1. PICK i \in 1 .. n : t[i] = e
    BY <1>1, <1>6 DEF Occurs
  <2>2. m + i \in 1 .. m + n /\ ~(m + i <= m) /\ (m + i) - m = i
    BY <1>1, <2>1
  <2>3. u[m + i] = e
    BY <1>2, <2>1, <2>2
  <2> QED BY <1>3, <2>2, <2>3 DEF Occurs
<1>7. Occurs(u, e) <=> Occurs(s, e) \/ Occurs(t, e)
  BY <1>4, <1>5, <1>6
<1> QED BY <1>7 DEF u

-----------------------------------------------------------------------------
(* The handler of a binding: the entry leaves the stack and is in force.      *)
LEMMA BindingHandled ==
  ASSUME TypeInv, BindingInv, HandleBinding
  PROVE  BindingInv'
<1>0. PICK e : e = Top
  OBVIOUS
<1> DEFINE old == base.bindings[e.type]
<1>1. /\ status = "running" /\ status' = "running" /\ stack # <<>>
      /\ stack' = Pop(1) /\ Consistent(e) /\ e.kind \in BindingKind
      /\ UNCHANGED <<prog, base, undoInfo, inProgress, fullyExpanded>>
      /\ bindingDataMap' =
           IF ~IsBound(base.bindings, e.type) /\ ~IsBound(bindingDataMap, e.type)
             THEN [bindingDataMap EXCEPT ![e.type] = e] ELSE bindingDataMap
  BY <1>0 DEF HandleBinding, Handling, storageVars, BindingKind
<1>2. stack \in Seq(Entry) /\ bindingDataMap \in BindingMap
  BY DEF TypeInv, TypeOK
<1>3. e \in Entry /\ Occurs(stack, e)
  BY <1>0, <1>1, <1>2, TopProperties DEF Top, Occurs
<1>4. Declared' = Declared /\ e \in Declared
  <2>1. Started' = Started
    BY <1>1 DEF Started
  <2>2. e \in Declared
    BY <1>1, <1>3 DEF BindingInv, StackIsDeclared, Occurs
  <2> QED BY <1>1, <2>1, <2>2, DeclaredGrows
<1>5. e \in Binding /\ e.type \in Type
  BY <1>4, DeclaredEntry
<1>6. HandlingInv
  BY DEF BindingInv
<1>7. \A t : CompressedInBase(t)' = CompressedInBase(t)
  BY <1>1, SameCompressed
<1>8. StackIsDeclared'
  <2>1. ASSUME NEW i \in DOMAIN stack', stack'[i].kind \in BindingKind
        PROVE  stack'[i] \in Declared'
    <3>1. Occurs(stack, stack'[i])
      <4>1. Occurs(Pop(1), stack'[i])
        BY <1>1, <2>1 DEF Occurs
      <4> QED BY <1>1, <1>2, <4>1, OccursPopped
    <3> QED BY <1>4, <2>1, <3>1 DEF Occurs, BindingInv, StackIsDeclared
  <2> QED BY <2>1 DEF StackIsDeclared
<1>9. ASSUME NEW t \in Type
      PROVE  /\ IsDeclared(bindingDataMap, t)'
             /\ CompressedInBase(t)' \/ IsDeclared(base.bindings, t)'
  <2>1. /\ IsDeclared(bindingDataMap, t)
        /\ CompressedInBase(t) \/ IsDeclared(base.bindings, t)
    BY <1>1, <1>6 DEF HandlingInv
  <2>2. bindingDataMap'[t] = bindingDataMap[t] \/ (bindingDataMap'[t] = e /\ e.type = t)
    BY <1>1, <1>2, <1>5 DEF BindingMap
  <2>3. IsDeclared(bindingDataMap, t)'
    BY <1>4, <2>1, <2>2 DEF IsDeclared, IsBound
  <2> QED BY <1>1, <1>4, <1>7, <2>1, <2>3 DEF IsDeclared
<1>10. ASSUME NEW f \in Declared, InForce(f)
       PROVE  InForce(f)'
  <2>1. f.type \in Type
    BY DeclaredEntry
  <2>2. CASE IsBound(base.bindings, f.type)
    BY <1>1, <1>10, <2>2 DEF InForce, Holds, IsBound
  <2>3. CASE ~IsBound(base.bindings, f.type)
    <3>1. Holds(bindingDataMap, f) /\ ~IsBound(base'.bindings, f.type)
      BY <1>1, <1>10, <2>3 DEF InForce
    <3>2. bindingDataMap'[f.type] = bindingDataMap[f.type]
      BY <1>1, <1>2, <2>1, <3>1 DEF BindingMap, Holds, IsBound
    <3> QED BY <3>1, <3>2 DEF InForce, Holds, IsBound
  <2> QED BY <2>2, <2>3
<1>11. CompressedInBase(e.type)' \/ InForce(e)'
  <2>1. CASE CompressedInBase(e.type)
    BY <1>7, <2>1
  <2>2. CASE ~CompressedInBase(e.type) /\ IsBound(base.bindings, e.type)
    <3>1. old \in Declared /\ old.create = e.create
      BY <1>1, <1>5, <1>6, <2>2 DEF HandlingInv, IsDeclared, Consistent, IsBound
    <3>2. old.kind = e.kind
      BY <1>4, <3>1, SameCreateSameKind
    <3> QED BY <1>1, <2>2, <3>1, <3>2 DEF InForce, Holds, IsBound
  <2>3. CASE ~IsBound(base.bindings, e.type)
    <3>1. Holds(bindingDataMap', e)
      <4>1. CASE IsBound(bindingDataMap, e.type)
        BY <1>1, <2>3, <4>1 DEF Consistent, Holds, IsBound
      <4>2. CASE ~IsBound(bindingDataMap, e.type)
        <5>1. bindingDataMap'[e.type] = e /\ e # Unbound
          BY <1>1, <1>2, <1>5, <2>3, <4>2 DEF BindingMap, Unbound, Binding, BindingKind
        <5> QED BY <5>1 DEF Holds, IsBound
      <4> QED BY <4>1, <4>2
    <3> QED BY <1>1, <2>3, <3>1 DEF InForce, Holds, IsBound
  <2> QED BY <2>1, <2>2, <2>3
<1>12. HandlingInv'
  <2>1. ASSUME NEW f \in Declared
        PROVE  Occurs(stack', f) \/ CompressedInBase(f.type)' \/ InForce(f)'
    <3>1. Occurs(stack, f) \/ CompressedInBase(f.type) \/ InForce(f)
      BY <1>1, <1>6 DEF HandlingInv
    <3>2. Occurs(stack, f) => Occurs(stack', f) \/ f = e
      BY <1>0, <1>1, <1>2, OccursPopped
    <3> QED BY <1>7, <1>10, <1>11, <3>1, <3>2
  <2>2. undoInfo' = NothingBound
    BY <1>1, <1>6 DEF HandlingInv
  <2> QED BY <1>4, <1>9, <2>1, <2>2 DEF HandlingInv
<1> QED BY <1>1, <1>8, <1>12 DEF BindingInv, CompressingInv, ReadyInv,
                                 ConflictsAreReported, GraphIsBuilt

(* The error about bindings: the entry at the back disagrees with a binding   *)
(* that was declared for its type.                                            *)
LEMMA ConflictReported ==
  ASSUME TypeInv, BindingInv, HandleInconsistentBinding
  PROVE  BindingInv'
<1> DEFINE e == Top
           old == base.bindings[e.type]
           new == bindingDataMap[e.type]
<1>1. /\ status = "running" /\ stack # <<>> /\ e.kind \in BindingKind
      /\ ~Consistent(e) /\ status' = "multiple_bindings"
      /\ UNCHANGED <<prog, stack, inProgress, fullyExpanded, base>>
  BY DEF HandleInconsistentBinding, Handling, Fail, expansionVars, storageVars, BindingKind
<1>2. e \in Declared
  <2>1. stack \in Seq(Entry)
    BY DEF TypeInv, TypeOK
  <2>2. Len(stack) \in DOMAIN stack
    BY <1>1, <2>1, TopProperties
  <2> QED BY <1>1, <2>2 DEF BindingInv, StackIsDeclared, Top
<1>3. e.type \in Type
  BY <1>2, DeclaredEntry
<1>4. CompressedInBase(e.type) \/ ~AllAgree(Declared)
  <2>1. /\ IsDeclared(bindingDataMap, e.type)
        /\ CompressedInBase(e.type) \/ IsDeclared(base.bindings, e.type)
    BY <1>1, <1>3 DEF BindingInv, HandlingInv
  <2>2. CASE ~CompressedInBase(e.type) /\ IsBound(base.bindings, e.type)
    <3>1. old \in Declared /\ old.type = e.type
      BY <2>1, <2>2 DEF IsDeclared
    <3>2. ~Agree(old, e)
      BY <1>1, <2>2, <3>1 DEF Consistent, IsBound, Agree
    <3> QED BY <1>2, <3>1, <3>2 DEF AllAgree
  <2>3. CASE ~IsBound(base.bindings, e.type)
    <3>1. IsBound(bindingDataMap, e.type) /\ ~(new.kind = e.kind /\ new.create = e.create)
      BY <1>1, <2>3 DEF Consistent, IsBound
    <3>2. new \in Declared /\ new.type = e.type
      BY <2>1, <3>1 DEF IsDeclared
    <3> QED BY <1>2, <3>1, <3>2 DEF AllAgree, Agree
  <2> QED BY <2>2, <2>3
<1>5. Declared' = Declared
  BY <1>1, DeclaredGrows DEF Started
<1>6. Top' = Top /\ CompressedInBase(Top.type)' = CompressedInBase(Top.type)
  BY <1>1 DEF Top, CompressedInBase
<1>7. ConflictsAreReported'
  BY <1>1, <1>4, <1>5, <1>6 DEF ConflictsAreReported, AllAgree, GraphIsBuilt
<1>8. StackIsDeclared'
  BY <1>1, <1>5 DEF BindingInv, StackIsDeclared
<1> QED BY <1>1, <1>7, <1>8 DEF BindingInv, HandlingInv, CompressingInv, ReadyInv

(* The expansion of a component: its bindings are declared, and on the stack. *)
LEMMA ComponentExpanded ==
  ASSUME TypeInv, BindingInv, ExpandLazyComponent
  PROVE  BindingInv'
<1>0. PICK c : c = Top.comp
  OBVIOUS
<1>1. /\ status = "running" /\ status' = "running" /\ stack # <<>> /\ Top.kind = "lazy"
      /\ stack' = ReplaceTop([kind |-> "end_marker", comp |-> c]) \o prog.body[c]
      /\ inProgress' = inProgress \cup {c}
      /\ UNCHANGED <<prog, base, undoInfo, bindingDataMap, fullyExpanded>>
  BY <1>0 DEF ExpandLazyComponent, Handling, storageVars, bindingVars
<1>2. c \in Component
  BY <1>0, HandledEntry DEF ExpandLazyComponent, ComponentKind
<1> DEFINE d == [kind |-> "end_marker", comp |-> c]
<1>3. /\ stack \in Seq(Entry) /\ d \in Entry /\ prog.body[c] \in Seq(Entry)
      /\ d.kind \notin BindingKind /\ Top.kind \notin BindingKind
  BY <1>1, <1>2, ProgramType
     DEF TypeInv, TypeOK, Entry, ComponentEntry, ComponentKind, BindingKind
<1>4. ReplaceTop(d) \in Seq(Entry)
  BY <1>1, <1>3, ReplaceTopProperties
<1>5. Declared' = Declared \cup BindingsOf(c)
  <2>1. Started' = Started \cup {c}
    BY <1>1 DEF Started
  <2> QED BY <1>1, <2>1, DeclaredGrows
<1> HIDE DEF d
<1>6. ASSUME NEW e, e.kind \in BindingKind
      PROVE  /\ Occurs(stack', e) <=> Occurs(stack, e) \/ Occurs(prog.body[c], e)
             /\ Occurs(prog.body[c], e) <=> e \in BindingsOf(c)
  <2>1. Occurs(stack', e) <=> Occurs(ReplaceTop(d), e) \/ Occurs(prog.body[c], e)
    BY <1>1, <1>3, <1>4, OccursPushed DEF d
  <2>2. Occurs(ReplaceTop(d), e) <=> Occurs(Pop(1), e)
    BY <1>1, <1>3, <1>6, OccursReplaced
  <2>3. Occurs(Pop(1), e) <=> Occurs(stack, e)
    BY <1>1, <1>3, <1>6, OccursPopped
  <2>4. Occurs(prog.body[c], e) <=> e \in BindingsOf(c)
    BY <1>6 DEF Occurs, BindingsOf, Entries
  <2> QED BY <2>1, <2>2, <2>3, <2>4
<1>7. HandlingInv
  BY DEF BindingInv
<1>8. StackIsDeclared'
  <2>1. ASSUME NEW i \in DOMAIN stack', stack'[i].kind \in BindingKind
        PROVE  stack'[i] \in Declared'
    <3>1. PICK e : e = stack'[i]
      OBVIOUS
    <3>2. Occurs(stack', e) /\ e.kind \in BindingKind
      BY <2>1, <3>1 DEF Occurs
    <3>3. Occurs(stack, e) \/ e \in BindingsOf(c)
      BY <1>6, <3>2
    <3>4. Occurs(stack, e) => e \in Declared
      BY <3>2 DEF Occurs, BindingInv, StackIsDeclared
    <3> QED BY <1>5, <3>1, <3>3, <3>4
  <2> QED BY <2>1 DEF StackIsDeclared
<1>9. \A t \in Type : /\ IsDeclared(bindingDataMap, t)'
                      /\ CompressedInBase(t)' \/ IsDeclared(base.bindings, t)'
  BY <1>1, <1>5, <1>7, SameCompressed DEF HandlingInv, IsDeclared
<1>10. ASSUME NEW e \in Declared'
       PROVE  Occurs(stack', e) \/ CompressedInBase(e.type)' \/ InForce(e)'
  <2>1. CASE e \in BindingsOf(c)
    <3>1. e.kind \in BindingKind
      BY <2>1 DEF BindingsOf
    <3> QED BY <1>6, <2>1, <3>1
  <2>2. CASE e \in Declared
    <3>1. e.kind \in BindingKind
      BY <2>2, DeclaredEntry
    <3>2. Occurs(stack, e) \/ CompressedInBase(e.type) \/ InForce(e)
      BY <1>1, <1>7, <2>2 DEF HandlingInv
    <3>3. InForce(e)' = InForce(e)
      BY <1>1 DEF InForce
    <3> QED BY <1>1, <1>6, <3>1, <3>2, <3>3, SameCompressed
  <2> QED BY <1>5, <2>1, <2>2
<1>11. HandlingInv'
  BY <1>1, <1>7, <1>9, <1>10 DEF HandlingInv
<1> QED BY <1>1, <1>8, <1>11 DEF BindingInv, CompressingInv, ReadyInv,
                                 ConflictsAreReported, GraphIsBuilt

(* Compression: the bindings agree when the stack is empty, and a pair that   *)
(* leaves the map of a normalized component is remembered.                    *)
LEMMA CompressionStarted ==
  ASSUME TypeInv, ExpansionInv, BindingInv, StartCompression
  PROVE  BindingInv'
<1>1. /\ status = "running" /\ status' = "compressing" /\ stack = <<>>
      /\ phase # "add_to"
      /\ UNCHANGED <<prog, phase, base, stack, undoInfo, bindingDataMap, inProgress,
                     fullyExpanded>>
  BY DEF StartCompression, expansionVars, storageVars
<1>2. base = EmptyStorage /\ HandlingInv
  BY <1>1 DEF TypeInv, TypeOK, ExpansionInv, EmptyWhenNotRunning, BindingInv
<1>3. Declared' = Declared
  BY <1>1, DeclaredGrows DEF Started
<1>4. ASSUME NEW e \in Declared PROVE Holds(bindingDataMap, e)
  <2>1. e.type \in Type
    BY DeclaredEntry
  <2>2. \A t \in Type : base.bindings[t] = Unbound /\ ~CompressedInBase(t)
    BY <1>2 DEF EmptyStorage, NothingBound, CompressedInBase
  <2>3. ~Occurs(stack, e)
    BY <1>1 DEF Occurs
  <2>4. InForce(e)
    BY <1>1, <1>2, <2>1, <2>2, <2>3 DEF HandlingInv
  <2> QED BY <2>1, <2>2, <2>4 DEF InForce, IsBound
<1>5. AllAgree(Declared)'
  BY <1>3, <1>4, HeldAgree DEF AllAgree
<1>6. \A t \in Type : undoInfo'[t] = Unbound /\ IsDeclared(bindingDataMap, t)'
  BY <1>1, <1>2, <1>3 DEF HandlingInv, NothingBound, IsDeclared
<1>7. \A e \in Declared' : Holds(bindingDataMap, e)'
  BY <1>1, <1>3, <1>4 DEF Holds
<1>8. CompressingInv'
  BY <1>5, <1>6, <1>7 DEF CompressingInv
<1>9. StackIsDeclared'
  BY <1>1 DEF StackIsDeclared
<1> QED BY <1>1, <1>8, <1>9 DEF BindingInv, HandlingInv, ReadyInv,
                                ConflictsAreReported, GraphIsBuilt

(* One pass of the loop.  The two types that it changes are remembered, and   *)
(* those remembered before stay so, because a class is compressed once.       *)
LEMMA BindingCompressed ==
  ASSUME TypeInv, BindingInv, CompressBinding
  PROVE  BindingInv'
<1>1. /\ status = "compressing" /\ status' = "compressing"
      /\ UNCHANGED <<prog, phase, base, stack, inProgress, fullyExpanded>>
  BY DEF CompressBinding, expansionVars, storageVars
<1>2. Declared' = Declared
  BY <1>1, DeclaredGrows DEF Started
<1>3. CompressingInv /\ StackIsDeclared
  BY DEF BindingInv
<1>4. ASSUME phase = "undoable"
      PROVE  /\ \A c \in Type : IsBound(compressedBindings, c)' => undoInfo'[c] = Unbound
             /\ \A t \in Type : CompressedNow(t)' \/ IsDeclared(bindingDataMap, t)'
             /\ \A e \in Declared : CompressedNow(e.type)' \/ Holds(bindingDataMap', e)
  <2>1. PICK c \in Type :
          LET i == compressedBindings[c].type
          IN /\ compressedBindings[c] # Unbound
             /\ IsBound(bindingDataMap, i) /\ IsBound(bindingDataMap, c)
             /\ undoInfo' = [undoInfo EXCEPT ![c] =
                               [i_type |-> i, i_binding |-> bindingDataMap[i],
                                c_binding |-> bindingDataMap[c]]]
             /\ bindingDataMap' =
                  [bindingDataMap EXCEPT
                     ![i] = [kind |-> bindingDataMap[c].kind, type |-> i,
                             create |-> compressedBindings[c].create,
                             deps |-> bindingDataMap[c].deps],
                     ![c] = Unbound]
             /\ compressedBindings' = [compressedBindings EXCEPT ![c] = Unbound]
    BY <1>4 DEF CompressBinding
  <2>2. PICK i : i = compressedBindings[c].type
    OBVIOUS
  <2>3. /\ undoInfo \in [Type -> UndoInfo \cup {Unbound}]
        /\ bindingDataMap \in [Type -> Binding \cup {Unbound}]
        /\ compressedBindings \in [Type -> CompressedBinding \cup {Unbound}]
    BY DEF TypeInv, TypeOK, UndoMap, BindingMap, CompressionMap
  <2>4. /\ undoInfo'[c] # Unbound /\ undoInfo'[c].i_type = i
        /\ \A t \in Type \ {c} : undoInfo'[t] = undoInfo[t]
    <3>1. ASSUME NEW x, NEW y
          PROVE  [i_type |-> i, i_binding |-> x, c_binding |-> y] # Unbound
      <4>1. DOMAIN [i_type |-> i, i_binding |-> x, c_binding |-> y]
              = {"i_type", "i_binding", "c_binding"}
        OBVIOUS
      <4>2. DOMAIN Unbound = {"kind"}
        BY DEF Unbound
      <4> QED BY <4>1, <4>2
    <3>2. undoInfo'[c] = [i_type |-> i, i_binding |-> bindingDataMap[i],
                          c_binding |-> bindingDataMap[c]]
      BY <2>1, <2>2, <2>3
    <3> QED BY <2>1, <2>2, <2>3, <3>1, <3>2
  <2>5. undoInfo[c] = Unbound
    BY <1>1, <1>3, <1>4, <2>1 DEF CompressingInv, IsBound
  <2>6. /\ compressedBindings'[c] = Unbound
        /\ \A t \in Type \ {c} : compressedBindings'[t] = compressedBindings[t]
    BY <2>1, <2>3
  <2>7. \A t \in Type \ {i, c} : bindingDataMap'[t] = bindingDataMap[t]
    BY <2>1, <2>2, <2>3
  <2>8. CompressedNow(c)' /\ CompressedNow(i)'
    BY <2>4 DEF CompressedNow
  <2>9. \A t : CompressedNow(t) => CompressedNow(t)'
    BY <2>4, <2>5 DEF CompressedNow
  <2>10. \A b \in Type : IsBound(compressedBindings, b)' => undoInfo'[b] = Unbound
    BY <1>1, <1>3, <1>4, <2>4, <2>6 DEF CompressingInv, IsBound
  <2>11. ASSUME NEW t \in Type PROVE CompressedNow(t)' \/ IsDeclared(bindingDataMap, t)'
    <3>1. CompressedNow(t) \/ IsDeclared(bindingDataMap, t)
      BY <1>1, <1>3, <1>4 DEF CompressingInv
    <3> QED BY <1>2, <2>7, <2>8, <2>9, <3>1 DEF IsDeclared, IsBound
  <2>12. ASSUME NEW e \in Declared PROVE CompressedNow(e.type)' \/ Holds(bindingDataMap', e)
    <3>1. CompressedNow(e.type) \/ Holds(bindingDataMap, e)
      BY <1>1, <1>3, <1>4 DEF CompressingInv
    <3>2. e.type \in Type
      BY DeclaredEntry
    <3> QED BY <2>7, <2>8, <2>9, <3>1, <3>2 DEF Holds, IsBound
  <2> QED BY <2>10, <2>11, <2>12
<1>5. CompressingInv'
  <2>1. AllAgree(Declared)'
    BY <1>1, <1>2, <1>3 DEF CompressingInv, AllAgree
  <2>2. \A e : Holds(bindingDataMap, e)' = Holds(bindingDataMap', e)
    BY DEF Holds, IsBound
  <2> QED BY <1>1, <1>2, <1>4, <2>1, <2>2 DEF CompressingInv
<1>6. StackIsDeclared'
  BY <1>1, <1>2, <1>3 DEF StackIsDeclared
<1> QED BY <1>1, <1>5, <1>6 DEF BindingInv, HandlingInv, ReadyInv,
                                ConflictsAreReported, GraphIsBuilt

(* The storages that are built, and the start on a normalized component.      *)
LEMMA StorageBuilt ==
  ASSUME TypeInv, ExpansionInv, BindingInv,
         FinishPermanent \/ FinishUndoable \/ FinishAddTo
  PROVE  BindingInv'
<1>1. /\ status' = "ready" /\ stack = <<>>
      /\ UNCHANGED <<prog, phase, stack, inProgress, bindingDataMap, undoInfo>>
  BY DEF FinishPermanent, FinishUndoable, FinishAddTo, FinishedCompression,
         expansionVars, ExpansionInv, EmptyWhenNotRunning
<1>2. StackIsDeclared'
  BY <1>1 DEF StackIsDeclared
<1>3. CASE FinishPermanent
  <2>1. /\ status = "compressing" /\ phase = "permanent"
        /\ UNCHANGED <<base, fullyExpanded>>
    BY <1>3 DEF FinishPermanent, FinishedCompression, expansionVars
  <2>2. Declared' = Declared
    BY <1>1, <2>1, DeclaredGrows DEF Started
  <2>3. AllAgree(Declared)
    BY <2>1 DEF BindingInv, CompressingInv
  <2> QED BY <1>1, <1>2, <2>1, <2>2, <2>3
          DEF BindingInv, HandlingInv, CompressingInv, ReadyInv, ConflictsAreReported,
              AllAgree
<1>4. CASE FinishUndoable
  <2>1. /\ status = "compressing" /\ phase = "undoable" /\ base = EmptyStorage
        /\ base'.bindings = bindingDataMap /\ base'.undo = undoInfo
        /\ base'.fullyExpanded = fullyExpanded /\ fullyExpanded' = {}
    BY <1>4 DEF FinishUndoable, FinishedCompression, ExpansionInv, EmptyWhenNotRunning
  <2>2. Declared' = Declared
    <3>1. Started' = Started
      BY <1>1, <2>1 DEF Started, EmptyStorage
    <3> QED BY <1>1, <3>1, DeclaredGrows
  <2>3. /\ AllAgree(Declared)
        /\ \A t \in Type : CompressedNow(t) \/ IsDeclared(bindingDataMap, t)
        /\ \A e \in Declared : CompressedNow(e.type) \/ Holds(bindingDataMap, e)
    BY <2>1 DEF BindingInv, CompressingInv
  <2>4. \A t : CompressedNow(t) = CompressedInBase(t)'
    BY <2>1 DEF CompressedNow, CompressedInBase
  <2>5. \A t \in Type : IsDeclared(bindingDataMap, t) => IsDeclared(base.bindings, t)'
    BY <2>1, <2>2 DEF IsDeclared
  <2>6. \A e : Holds(bindingDataMap, e) => Holds(base.bindings, e)'
    BY <2>1 DEF Holds
  <2>7. ReadyInv'
    BY <2>2, <2>3, <2>4, <2>5, <2>6 DEF ReadyInv
  <2>8. ConflictsAreReported'
    BY <1>1, <2>2, <2>3 DEF ConflictsAreReported, AllAgree
  <2> QED BY <1>1, <1>2, <2>7, <2>8 DEF BindingInv, HandlingInv, CompressingInv
<1>5. CASE FinishAddTo
  <2>1. status = "running" /\ phase = "add_to" /\ UNCHANGED <<base, fullyExpanded>>
    BY <1>5 DEF FinishAddTo, expansionVars
  <2>2. Declared' = Declared /\ \A t : CompressedInBase(t)' = CompressedInBase(t)
    BY <1>1, <2>1, DeclaredGrows, SameCompressed DEF Started
  <2>3. ASSUME NEW e \in Declared, ~CompressedInBase(e.type) PROVE InForce(e)
    BY <1>1, <2>1, <2>3 DEF BindingInv, HandlingInv, Occurs
  <2>4. ASSUME NEW e \in Declared, NEW f \in Declared,
               ~CompressedInBase(e.type), ~CompressedInBase(f.type)
        PROVE  Agree(e, f)
    <3>1. InForce(e) /\ InForce(f)
      BY <2>3, <2>4
    <3> QED BY <3>1, HeldAgree DEF InForce, Agree
  <2>5. ConflictsAreReported'
    BY <1>1, <2>2, <2>4 DEF ConflictsAreReported, AllAgree
  <2> QED BY <1>1, <1>2, <2>1, <2>5
          DEF BindingInv, HandlingInv, CompressingInv, ReadyInv
<1> QED BY <1>3, <1>4, <1>5

(* The injector starts from the bindings of the normalized component.         *)
LEMMA AddToStarted ==
  ASSUME TypeInv, ExpansionInv, BindingInv, StartAddTo
  PROVE  BindingInv'
<1>1. /\ status = "ready" /\ phase = "undoable" /\ status' = "running"
      /\ stack' = Install(prog.root)
      /\ bindingDataMap' = NothingBound /\ undoInfo' = NothingBound
      /\ UNCHANGED <<prog, inProgress, fullyExpanded, base>>
  BY DEF StartAddTo, storageVars
<1>2. Declared' = Declared /\ \A t : CompressedInBase(t)' = CompressedInBase(t)
  BY <1>1, DeclaredGrows, SameCompressed DEF Started
<1>3. StackIsDeclared'
  <2>1. stack' = <<[kind |-> "lazy", comp |-> prog.root]>>
    BY <1>1 DEF Install
  <2>2. ASSUME NEW i \in DOMAIN stack' PROVE stack'[i].kind \notin BindingKind
    BY <2>1, <2>2 DEF BindingKind
  <2> QED BY <2>2 DEF StackIsDeclared
<1>4. \A t \in Type : /\ IsDeclared(bindingDataMap, t)'
                      /\ CompressedInBase(t)' \/ IsDeclared(base.bindings, t)'
  BY <1>1, <1>2 DEF BindingInv, ReadyInv, IsDeclared, IsBound, NothingBound
<1>5. \A e \in Declared : CompressedInBase(e.type)' \/ InForce(e)'
  BY <1>1, <1>2 DEF BindingInv, ReadyInv, InForce, Holds
<1>6. HandlingInv'
  BY <1>1, <1>2, <1>4, <1>5 DEF HandlingInv
<1> QED BY <1>1, <1>3, <1>6 DEF BindingInv, CompressingInv, ReadyInv,
                                ConflictsAreReported, GraphIsBuilt

-----------------------------------------------------------------------------
(* Nothing is declared, and nothing is bound, before the first entry.         *)
LEMMA BindingInit == Init => BindingInv
<1> SUFFICES ASSUME Init PROVE BindingInv
  OBVIOUS
<1>1. /\ status = "running" /\ inProgress = {} /\ fullyExpanded = {}
      /\ base = EmptyStorage /\ bindingDataMap = NothingBound
      /\ undoInfo = NothingBound
      /\ \E c : stack = <<[kind |-> "lazy", comp |-> c]>>
  BY DEF Init, Install
<1>2. Declared = {}
  BY <1>1 DEF Declared, Started, EmptyStorage
<1>3. StackIsDeclared
  <2>1. ASSUME NEW i \in DOMAIN stack PROVE stack[i].kind \notin BindingKind
    BY <1>1 DEF BindingKind
  <2> QED BY <2>1 DEF StackIsDeclared
<1>4. HandlingInv
  BY <1>1, <1>2 DEF HandlingInv, IsDeclared, IsBound, NothingBound, EmptyStorage
<1> QED BY <1>1, <1>3, <1>4 DEF BindingInv, CompressingInv, ReadyInv,
                                ConflictsAreReported, GraphIsBuilt

(* Every step keeps the invariant.                                            *)
LEMMA BindingNext ==
  TypeInv /\ ExpansionInv /\ BindingInv /\ [Next]_vars => BindingInv'
<1> SUFFICES ASSUME TypeInv, ExpansionInv, BindingInv, [Next]_vars
             PROVE  BindingInv'
  OBVIOUS
<1>T. stack \in Seq(Entry) /\ WellPaired(stack)
  BY DEF TypeInv, TypeOK
<1>1. CASE HandleBinding
  BY <1>1, BindingHandled
<1>2. CASE HandleInconsistentBinding
  BY <1>2, ConflictReported
<1>3. CASE HandleCompressedBinding \/ SkipLazyComponent
  <2>1. /\ status = "running" /\ status' = "running" /\ stack # <<>>
        /\ Top.kind \notin BindingKind /\ stack' = Pop(1)
        /\ UNCHANGED <<prog, base, bindingDataMap, undoInfo, inProgress, fullyExpanded>>
    BY <1>3 DEF HandleCompressedBinding, SkipLazyComponent, Handling, bindingVars,
                storageVars, BindingKind
  <2>2. Declared' = Declared
    BY <2>1, DeclaredGrows DEF Started
  <2>3. \A e : e.kind \in BindingKind => (Occurs(stack', e) <=> Occurs(stack, e))
    BY <1>T, <2>1, OccursPopped
  <2> QED BY <2>1, <2>2, <2>3, OtherEntryHandled
<1>4. CASE HandleMultibinding \/ HandleReplaced \/ HandleReplacedAgain
  <2>1. /\ status = "running" /\ status' = "running" /\ stack # <<>>
        /\ Top.kind \in {"replaced", "multibinding_vector_creator"} /\ stack' = Pop(2)
        /\ UNCHANGED <<prog, base, bindingDataMap, undoInfo, inProgress, fullyExpanded>>
    BY <1>4 DEF HandleMultibinding, HandleReplaced, HandleReplacedAgain, Handling,
                bindingVars, storageVars
  <2>2. Declared' = Declared
    BY <2>1, DeclaredGrows DEF Started
  <2>3. /\ Len(stack) > 1
        /\ Top.kind \notin BindingKind /\ Under.kind \notin BindingKind
    BY <1>T, <2>1, UnderProperties DEF BindingKind, MultibindingKind
  <2>4. \A e : e.kind \in BindingKind => (Occurs(stack', e) <=> Occurs(stack, e))
    BY <1>T, <2>1, <2>3, OccursPopped
  <2> QED BY <2>1, <2>2, <2>4, OtherEntryHandled
<1>5. CASE PerformComponentReplacement
  <2>1. PICK d : d = [kind |-> "lazy", comp |-> Replacement(Top.comp)]
    OBVIOUS
  <2>2. /\ status = "running" /\ status' = "running" /\ stack # <<>>
        /\ Top.kind \notin BindingKind /\ stack' = ReplaceTop(d)
        /\ Replacement(Top.comp) # NoComponent
        /\ UNCHANGED <<prog, base, bindingDataMap, undoInfo, inProgress, fullyExpanded>>
    BY <1>5, <2>1 DEF PerformComponentReplacement, Handling, bindingVars, storageVars,
                      BindingKind
  <2>3. d \in Entry /\ d.kind \notin BindingKind
    <3>1. Top.comp \in Component
      BY <1>5, HandledEntry DEF PerformComponentReplacement, ComponentKind
    <3>2. Replacement(Top.comp) \in Component
      BY <2>2, <3>1, ReplacementType DEF TypeInv
    <3> QED BY <2>1, <3>2 DEF Entry, ComponentEntry, ComponentKind, BindingKind
  <2>4. Declared' = Declared
    BY <2>2, DeclaredGrows DEF Started
  <2>5. \A e : e.kind \in BindingKind => (Occurs(stack', e) <=> Occurs(stack, e))
    BY <1>T, <2>2, <2>3, OccursPopped, OccursReplaced
  <2> QED BY <2>2, <2>4, <2>5, OtherEntryHandled
<1>6. CASE HandleEndMarker
  <2>1. /\ status = "running" /\ status' = "running" /\ stack # <<>>
        /\ Top.kind = "end_marker" /\ stack' = Pop(1)
        /\ inProgress' = inProgress \ {Top.comp}
        /\ fullyExpanded' = fullyExpanded \cup {Top.comp}
        /\ UNCHANGED <<prog, base, bindingDataMap, undoInfo>>
    BY <1>6 DEF HandleEndMarker, Handling, bindingVars, storageVars
  <2>2. Top.comp \in inProgress
    BY <1>T, <2>1, TopProperties
       DEF ExpansionInv, MarkersMatchInProgress, MarkersMatch, Top
  <2>3. Declared' = Declared
    <3>1. Started' = Started
      BY <2>1, <2>2 DEF Started
    <3> QED BY <2>1, <3>1, DeclaredGrows
  <2>4. \A e : e.kind \in BindingKind => (Occurs(stack', e) <=> Occurs(stack, e))
    BY <1>T, <2>1, OccursPopped DEF BindingKind
  <2> QED BY <2>1, <2>3, <2>4, OtherEntryHandled
<1>7. CASE HandleReplacedTooLate
  BY <1>7, OtherError DEF HandleReplacedTooLate, Errors
<1>8. CASE HandleReplacedDifferently
  BY <1>8, OtherError DEF HandleReplacedDifferently, Errors
<1>9. CASE DetectInstallationLoop
  BY <1>9, OtherError DEF DetectInstallationLoop, Errors
<1>10. CASE CompressMissingBinding
  BY <1>10, OtherError DEF CompressMissingBinding, Errors
<1>11. CASE ExpandLazyComponent
  BY <1>11, ComponentExpanded
<1>12. CASE StartCompression
  BY <1>12, CompressionStarted
<1>13. CASE CompressBinding
  BY <1>13, BindingCompressed
<1>14. CASE FinishPermanent \/ FinishUndoable \/ FinishAddTo
  BY <1>14, StorageBuilt
<1>15. CASE StartAddTo
  BY <1>15, AddToStarted
<1>16. CASE DestroyNormalizedComponent
  <2>1. status' = "destroyed" /\ stack' = <<>>
    BY <1>16 DEF DestroyNormalizedComponent, expansionVars, ExpansionInv,
                 EmptyWhenNotRunning
  <2> QED BY <2>1 DEF BindingInv, StackIsDeclared, HandlingInv, CompressingInv,
                      ReadyInv, ConflictsAreReported, GraphIsBuilt
<1>17. CASE Terminated \/ UNCHANGED vars
  <2>1. UNCHANGED <<prog, phase, status, stack, inProgress, fullyExpanded,
                    bindingDataMap, compressedBindings, undoInfo, base>>
    BY <1>17 DEF Terminated, vars, expansionVars, bindingVars, storageVars
  <2>2. /\ Declared' = Declared /\ Top' = Top
        /\ \A t : CompressedInBase(t)' = CompressedInBase(t)
        /\ \A t : CompressedNow(t)' = CompressedNow(t)
    BY <2>1, DeclaredGrows, SameCompressed DEF Started, Top
  <2>3. /\ StackIsDeclared' = StackIsDeclared
        /\ ConflictsAreReported' = ConflictsAreReported
    BY <2>1, <2>2 DEF StackIsDeclared, ConflictsAreReported, AllAgree, GraphIsBuilt
  <2>4. /\ HandlingInv => HandlingInv'
        /\ CompressingInv => CompressingInv'
        /\ ReadyInv => ReadyInv'
    BY <2>1, <2>2 DEF HandlingInv, CompressingInv, ReadyInv, IsDeclared, InForce,
                      Holds, IsBound, AllAgree
  <2> QED BY <2>3, <2>4 DEF BindingInv
<1> QED BY <1>1, <1>2, <1>3, <1>4, <1>5, <1>6, <1>7, <1>8, <1>9, <1>10, <1>11,
           <1>12, <1>13, <1>14, <1>15, <1>16, <1>17 DEF Next

(* ConflictsAreReported, for every program: in whatever order the components  *)
(* are expanded, and over the normalized component and the injector built on  *)
(* it, handleBinding reports a type that has two bindings exactly when the    *)
(* components that have started declare two, except for a type that the       *)
(* normalized component has compressed.                                       *)
THEOREM MultipleBindingsAreReported == Spec => []ConflictsAreReported
<1>1. Init => TypeInv /\ ExpansionInv /\ BindingInv
  BY TypeInvInit, ExpansionInvInit, BindingInit
<1>2. TypeInv /\ ExpansionInv /\ BindingInv /\ [Next]_vars
        => (TypeInv /\ ExpansionInv /\ BindingInv)'
  BY TypeInvNext, ExpansionInvNext, BindingNext
<1>3. BindingInv => ConflictsAreReported
  BY DEF BindingInv
<1> QED BY <1>1, <1>2, <1>3, PTL DEF Spec

-----------------------------------------------------------------------------
(* Compression.  The entries of compressed pairs that are declared.           *)
DeclaredCompressed ==
  UNION {{e \in Entries(d) : e.kind = "compressed"} : d \in Started}
PairDeclared(i, c) == \E e \in DeclaredCompressed : e.type = i /\ e.c_type = c

(* A binding that has the binding of the class c merged into it.              *)
Merges(b, c) == b.create.fn \in CompressedFn /\ b.create.c = c
Compressed(map, i, c) == IsBound(map, i) /\ Merges(map[i], c)

(* The interface has a bind to the class for its only binding, and the class  *)
(* has one of its own.                                                        *)
IsBind(e, c) == e.create.fn = "bind" /\ e.deps = {c}
OnlyBoundTo(i, c) == /\ Bind(i, c)[1] \in Declared
                     /\ \A e \in Declared : e.type = i => IsBind(e, c)
IsMadeBy(c, fn) == \E f \in Declared : f.type = c /\ f.create.fn = fn
IsMade(c) == \E f \in Declared : f.type = c /\ f.create.fn \in {"constructor", "provider"}

(* The create function that the one of a pair stands for.                     *)
Source(fn) == IF fn = "compressed_constructor" THEN "constructor" ELSE "provider"

(* Nothing depends on a class: no binding of the map other than that of t, no *)
(* remembered binding of another class, none of another interface.            *)
NotNeeded(map, c, S) == \A x \in Type \ S : IsBound(map, x) => c \notin map[x].deps
NoClassNeeds(undo, c, t) ==
  \A x \in Type \ {t} : undo[x] # Unbound => c \notin undo[x].c_binding.deps
NoInterfaceNeeds(undo, c, i) ==
  \A x \in Type : undo[x] # Unbound /\ undo[x].i_type # i
                    => c \notin undo[x].i_binding.deps
Free(c) == c \notin Exposed /\ \A m \in DeclaredMultibindings : c \notin m.deps

(* A remembered binding that was itself merged shares a type with the pair    *)
(* that it was merged for.                                                    *)
MergedBefore(undo) ==
  \A w, c \in Type :
    undo[w] # Unbound /\ (Merges(undo[w].i_binding, c) \/ Merges(undo[w].c_binding, c))
      => undo[c] # Unbound /\ c # w /\ undo[c].i_type \in {w, undo[w].i_type}

(* The entries of pairs on the stack, and those that wait for compression,    *)
(* are declared; the injector built on a normalized component has none.       *)
PendingInv ==
  /\ \A k \in DOMAIN stack :
       stack[k].kind = "compressed" => stack[k] \in DeclaredCompressed
  /\ \A c \in Type : IsBound(compressedBindings, c) =>
       compressedBindings[c] \in DeclaredCompressed /\ compressedBindings[c].c_type = c
  /\ phase = "add_to" \/ status = "ready" => compressedBindings = NothingBound
  /\ phase # "add_to" =>
       \A m \in DeclaredMultibindings : Occurs(stack, m) \/ Occurs(multibindingsVector, m)

(* While pairs are merged: a class that has been merged is out of the map and *)
(* nothing needs it; one that still waits is needed by its interface alone,   *)
(* as long as that has a binding to merge with.                               *)
Merged(c) == undoInfo[c] # Unbound \/ \E i \in Type : Compressed(bindingDataMap, i, c)

MergedAreFree ==
  \A c \in Type : Merged(c) =>
    /\ ~IsBound(compressedBindings, c) /\ ~IsBound(bindingDataMap, c)
    /\ Free(c)
    /\ NotNeeded(bindingDataMap, c, {})
    /\ NoClassNeeds(undoInfo, c, c)
WaitingAreFree ==
  \A c \in Type : IsBound(compressedBindings, c) =>
    /\ Free(c)
    /\ LET i == compressedBindings[c].type IN
       IsBound(bindingDataMap, i) =>
         /\ NotNeeded(bindingDataMap, c, {i})
         /\ NoClassNeeds(undoInfo, c, i)
         /\ NoInterfaceNeeds(undoInfo, c, i)
MergedAreDeclared ==
  \A i, c \in Type : Compressed(bindingDataMap, i, c) =>
    /\ PairDeclared(i, c)
    /\ phase = "undoable" => undoInfo[c] # Unbound /\ undoInfo[c].i_type = i
UndoneAreDeclared ==
  \A c \in Type : undoInfo[c] # Unbound =>
    /\ PairDeclared(undoInfo[c].i_type, c)
    /\ NoInterfaceNeeds(undoInfo, c, undoInfo[c].i_type)

MergingInv ==
  status = "compressing" =>
    /\ MergedAreFree
    /\ WaitingAreFree
    /\ MergedAreDeclared
    /\ UndoneAreDeclared
    /\ MergedBefore(undoInfo)

(* What the injector built on a normalized component relies on.  The pairs of *)
(* the normalized component share no type when each has its bind, and while   *)
(* entries are handled no other binding of a merged interface is accepted.    *)
NotNeededInBase(c) ==
  /\ c \notin prog.baseExposed
  /\ \A m \in UNION {MultibindingsOf(d) : d \in base.fullyExpanded} : c \notin m.deps
StoredInv ==
  /\ \A c \in Type : base.undo[c] # Unbound =>
       /\ NotNeededInBase(c)
       /\ NotNeeded(base.bindings, c, {})
       /\ NoClassNeeds(base.undo, c, c)
       /\ NoInterfaceNeeds(base.undo, c, base.undo[c].i_type)
  /\ \A i, c \in Type : Compressed(base.bindings, i, c) =>
       /\ base.undo[c] # Unbound /\ base.undo[c].i_type = i
       /\ BindsAreDeclared =>
            /\ Bind(i, c)[1] \in Declared
            /\ \A e \in Declared : e.type = i => Occurs(stack, e) \/ IsBind(e, c)
  /\ MergedBefore(base.undo)
  /\ BindsAreDeclared => PairsAreDisjoint

CompressionInv ==
  /\ PendingInv
  /\ MergingInv
  /\ StoredInv
  /\ CompressionIsLicensed
  /\ InterfaceKeepsItsClass

-----------------------------------------------------------------------------
(* As components start, more is declared, and no bind is forgotten.           *)
LEMMA StartedGrows ==
  ASSUME prog' = prog, Started \subseteq Started'
  PROVE  /\ Declared \subseteq Declared'
         /\ DeclaredCompressed \subseteq DeclaredCompressed'
         /\ BindsAreDeclared' => BindsAreDeclared
<1>1. \A d : /\ Entries(d)' = Entries(d)
             /\ BindingsOf(d)' = BindingsOf(d)
             /\ BindsWhatItCompresses(d)' = BindsWhatItCompresses(d)
  BY DEF Entries, BindingsOf, BindsWhatItCompresses
<1>2. /\ Declared' = UNION {BindingsOf(d) : d \in Started'}
      /\ DeclaredCompressed'
           = UNION {{e \in Entries(d) : e.kind = "compressed"} : d \in Started'}
      /\ BindsAreDeclared' = \A d \in Started' : BindsWhatItCompresses(d)
  BY <1>1 DEF Declared, DeclaredCompressed, BindsAreDeclared
<1> HIDE DEF Started
<1> QED BY <1>2 DEF Declared, DeclaredCompressed, BindsAreDeclared

(* What is declared when the components that have started are the same.       *)
LEMMA StartedStays ==
  ASSUME prog' = prog, Started' = Started
  PROVE  /\ Declared' = Declared
         /\ DeclaredCompressed' = DeclaredCompressed
         /\ DeclaredMultibindings' = DeclaredMultibindings
         /\ BindsAreDeclared' = BindsAreDeclared
<1>1. \A d : /\ Entries(d)' = Entries(d)
             /\ BindingsOf(d)' = BindingsOf(d)
             /\ MultibindingsOf(d)' = MultibindingsOf(d)
             /\ BindsWhatItCompresses(d)' = BindsWhatItCompresses(d)
  BY DEF Entries, BindingsOf, MultibindingsOf, BindsWhatItCompresses
<1> HIDE DEF Started
<1> QED BY <1>1 DEF Declared, DeclaredCompressed, DeclaredMultibindings,
                    BindsAreDeclared

(* The entry of a pair that is declared.                                      *)
LEMMA DeclaredPair ==
  ASSUME TypeInv, NEW e \in DeclaredCompressed
  PROVE  /\ e \in CompressedBinding /\ e.kind = "compressed"
         /\ e.type \in Type /\ e.c_type \in Type
         /\ e.create.fn \in CompressedFn /\ e.create.c = e.c_type
         /\ IsMade(e.c_type) /\ IsMadeBy(e.c_type, Source(e.create.fn))
         /\ BindsAreDeclared => Bind(e.type, e.c_type)[1] \in Declared
<1>1. PICK d \in Started : e \in Entries(d) /\ e.kind = "compressed"
  BY DEF DeclaredCompressed
<1>2. d \in Component /\ prog \in Program
  BY <1>1 DEF Started, TypeInv, TypeOK, NormalizedComponentStorage
<1>3. PICK k \in DOMAIN prog.body[d] : prog.body[d][k] = e
  BY <1>1 DEF Entries
<1>4. prog.body[d] \in Seq(Entry)
  BY <1>2, ProgramType
<1>5. e \in CompressedBinding
  BY <1>1, <1>3, <1>4, ElementOfSeq, LenProperties, EntryOfKind
<1>6. /\ e.create.fn \in CompressedFn /\ e.create.c = e.c_type
      /\ \E j \in DOMAIN prog.body[d] :
           /\ prog.body[d][j].kind \in BindingKind
           /\ prog.body[d][j].type = e.c_type
           /\ prog.body[d][j].create.fn = Source(e.create.fn)
  BY <1>1, <1>2, <1>3, CompressedEntryAssumption DEF Source
<1>7. IsMade(e.c_type) /\ IsMadeBy(e.c_type, Source(e.create.fn))
  <2>1. PICK j \in DOMAIN prog.body[d] :
           /\ prog.body[d][j].kind \in BindingKind
           /\ prog.body[d][j].type = e.c_type
           /\ prog.body[d][j].create.fn = Source(e.create.fn)
    BY <1>6
  <2>2. prog.body[d][j] \in Declared
    BY <1>1, <2>1 DEF Declared, BindingsOf, Entries
  <2>3. IsMadeBy(e.c_type, Source(e.create.fn))
    BY <2>1, <2>2 DEF IsMadeBy
  <2> QED BY <2>3 DEF IsMade, IsMadeBy, Source
<1>8. BindsAreDeclared => Bind(e.type, e.c_type)[1] \in Declared
  BY <1>1 DEF BindsAreDeclared, BindsWhatItCompresses, Declared
<1> QED BY <1>1, <1>5, <1>6, <1>7, <1>8 DEF CompressedBinding

(* No binding that is declared is made with the create function of a pair.    *)
LEMMA DeclaredNotMerged ==
  ASSUME TypeInv, NEW e \in Declared
  PROVE  e.create.fn \notin CompressedFn
<1>1. e.kind \in BindingKind /\ prog \in Program
  BY DeclaredEntry DEF TypeInv
<1>2. PICK d \in Component : \E k \in DOMAIN prog.body[d] : prog.body[d][k] = e
  BY DeclaredEntry
<1> QED BY <1>1, <1>2, CompressedEntryAssumption

(* Bindings with the same create function have the same dependencies.         *)
LEMMA SameCreateSameDeps ==
  ASSUME TypeInv, NEW e \in Declared, NEW f \in Declared, e.create = f.create
  PROVE  e.deps = f.deps
<1>1. prog \in Program /\ e.kind \in BindingKind /\ f.kind \in BindingKind
  BY DeclaredEntry DEF TypeInv
<1>2. PICK c \in Component : \E i \in DOMAIN prog.body[c] : prog.body[c][i] = e
  BY DeclaredEntry
<1>3. PICK d \in Component : \E i \in DOMAIN prog.body[d] : prog.body[d][i] = f
  BY DeclaredEntry
<1>4. PICK i \in DOMAIN prog.body[c] : prog.body[c][i] = e
  BY <1>2
<1>5. PICK j \in DOMAIN prog.body[d] : prog.body[d][j] = f
  BY <1>3
<1> QED BY <1>1, <1>4, <1>5, CreateFunctionAssumption

(* The entry that Bind makes.                                                 *)
LEMMA BindEntry ==
  ASSUME NEW i, NEW c
  PROVE  /\ Bind(i, c)[1].type = i /\ Bind(i, c)[1].deps = {c}
         /\ Bind(i, c)[1].create.fn = "bind"
BY DEF Bind

(* When the bindings agree, and each pair has its bind, the interface of a    *)
(* declared pair has no other binding than the bind to its class.             *)
LEMMA PairIsOnlyBound ==
  ASSUME TypeInv, AllAgree(Declared), BindsAreDeclared, NEW i, NEW c, PairDeclared(i, c)
  PROVE  OnlyBoundTo(i, c) /\ IsMade(c)
<1>1. PICK e \in DeclaredCompressed : e.type = i /\ e.c_type = c
  BY DEF PairDeclared
<1>2. PICK b : b = Bind(i, c)[1]
  OBVIOUS
<1>3. b \in Declared /\ IsMade(c)
  BY <1>1, <1>2, DeclaredPair
<1>4. b.type = i /\ b.deps = {c} /\ b.create.fn = "bind"
  BY <1>2, BindEntry
<1>5. ASSUME NEW f \in Declared, f.type = i PROVE IsBind(f, c)
  <2>1. f.create = b.create
    BY <1>3, <1>4, <1>5 DEF AllAgree, Agree
  <2>2. f.deps = b.deps
    BY <1>3, <2>1, SameCreateSameDeps
  <2> QED BY <1>4, <2>1, <2>2 DEF IsBind
<1> QED BY <1>2, <1>3, <1>5 DEF OnlyBoundTo

(* Two such pairs have no type in common: the class of the one is not the     *)
(* interface of the other, and no interface is bound to two classes.          *)
LEMMA PairsShareNothing ==
  ASSUME NEW i, NEW c, NEW j, NEW d, OnlyBoundTo(i, c), IsMade(c),
         OnlyBoundTo(j, d), IsMade(d), {c, i} \cap {d, j} # {}
  PROVE  c = d
<1>1. ASSUME NEW k, NEW b, NEW a, OnlyBoundTo(k, b), IsMade(a) PROVE a # k
  <2>1. PICK f \in Declared : f.type = a /\ f.create.fn \in {"constructor", "provider"}
    BY <1>1 DEF IsMade
  <2> QED BY <1>1, <2>1 DEF OnlyBoundTo, IsBind
<1>2. c # j /\ d # i
  BY <1>1
<1>3. i = j => c = d
  <2>1. ASSUME i = j PROVE c = d
    <3>1. PICK b : b = Bind(i, c)[1]
      OBVIOUS
    <3>2. b \in Declared /\ b.type = i /\ b.deps = {c}
      BY <3>1, BindEntry DEF OnlyBoundTo
    <3>3. b.deps = {d}
      BY <2>1, <3>2 DEF OnlyBoundTo, IsBind
    <3> QED BY <3>2, <3>3
  <2> QED BY <2>1
<1> QED BY <1>2, <1>3

-----------------------------------------------------------------------------
(* A step that leaves the normalized component alone keeps what is known of   *)
(* it, when no entry but one that cannot have been merged leaves the stack.   *)
LEMMA StoredStays ==
  ASSUME StoredInv, prog' = prog, base' = base, Started \subseteq Started',
         \A e \in Declared' : \/ Occurs(stack', e)
                              \/ e \in Declared /\ ~Occurs(stack, e)
                              \/ \A c \in Type : ~Compressed(base.bindings, e.type, c)
  PROVE  StoredInv'
<1>1. Declared \subseteq Declared' /\ (BindsAreDeclared' => BindsAreDeclared)
  BY StartedGrows
<1>2. /\ PairsAreDisjoint' = PairsAreDisjoint
      /\ MergedBefore(base.undo)' = MergedBefore(base.undo)
  BY DEF PairsAreDisjoint, Pair, MergedBefore
<1>3. \A i, c : /\ Compressed(base.bindings, i, c)' = Compressed(base.bindings, i, c)
                /\ NotNeededInBase(c)' = NotNeededInBase(c)
                /\ NotNeeded(base.bindings, c, {})' = NotNeeded(base.bindings, c, {})
                /\ NoClassNeeds(base.undo, c, c)' = NoClassNeeds(base.undo, c, c)
                /\ NoInterfaceNeeds(base.undo, c, base.undo[c].i_type)'
                     = NoInterfaceNeeds(base.undo, c, base.undo[c].i_type)
  BY DEF Compressed, IsBound, NotNeeded, NotNeededInBase, NoClassNeeds,
         NoInterfaceNeeds, MultibindingsOf, Entries
<1>4. ASSUME NEW i \in Type, NEW c \in Type, Compressed(base.bindings, i, c),
             BindsAreDeclared'
      PROVE  /\ Bind(i, c)[1] \in Declared'
             /\ \A e \in Declared' : e.type = i => Occurs(stack', e) \/ IsBind(e, c)
  <2>1. /\ Bind(i, c)[1] \in Declared
        /\ \A e \in Declared : e.type = i => Occurs(stack, e) \/ IsBind(e, c)
    BY <1>1, <1>4 DEF StoredInv
  <2> QED BY <1>1, <1>4, <2>1
<1> QED BY <1>1, <1>2, <1>3, <1>4 DEF StoredInv

(* The properties of the graph are only about a graph that has been built.    *)
LEMMA NotBuilt ==
  ASSUME status # "ready"
  PROVE  CompressionIsLicensed /\ InterfaceKeepsItsClass
BY DEF CompressionIsLicensed, InterfaceKeepsItsClass, GraphIsBuilt

(* A step that handles an entry, or ends with an error message.               *)
LEMMA EntryHandled ==
  ASSUME CompressionInv, UNCHANGED <<prog, phase, base>>, Started \subseteq Started',
         status \in {"running", "compressing"}, status' \in {"running"} \cup Errors,
         \A e \in Declared' : \/ Occurs(stack', e)
                              \/ e \in Declared /\ ~Occurs(stack, e)
                              \/ \A c \in Type : ~Compressed(base.bindings, e.type, c),
         PendingInv'
  PROVE  CompressionInv'
<1>1. StoredInv'
  BY StoredStays DEF CompressionInv
<1>2. status' \notin {"ready", "compressing"}
  BY DEF Errors
<1>3. (CompressionIsLicensed /\ InterfaceKeepsItsClass)'
  BY <1>2 DEF CompressionIsLicensed, InterfaceKeepsItsClass, GraphIsBuilt
<1>4. MergingInv'
  BY <1>2 DEF MergingInv
<1> QED BY <1>1, <1>3, <1>4 DEF CompressionInv

(* A step that changes none of the entries that wait for compression.         *)
LEMMA PendingStays ==
  ASSUME PendingInv, UNCHANGED <<prog, phase, compressedBindings, multibindingsVector>>,
         Started' = Started, status # "ready" => status' # "ready",
         \A e : Occurs(stack', e) => Occurs(stack, e) \/ e.kind # "compressed",
         \A m : m.kind \in MultibindingKind /\ Occurs(stack, m) => Occurs(stack', m)
  PROVE  PendingInv'
<1>1. /\ DeclaredCompressed' = DeclaredCompressed
      /\ DeclaredMultibindings' = DeclaredMultibindings
  BY StartedStays
<1>2. ASSUME NEW k \in DOMAIN stack', stack'[k].kind = "compressed"
      PROVE  stack'[k] \in DeclaredCompressed
  <2>1. PICK e : e = stack'[k]
    OBVIOUS
  <2>2. Occurs(stack, e)
    BY <1>2, <2>1 DEF Occurs
  <2> QED BY <1>2, <2>1, <2>2 DEF Occurs, PendingInv
<1>3. \A m \in DeclaredMultibindings : m.kind \in MultibindingKind
  BY DEF DeclaredMultibindings, MultibindingsOf
<1>4. \A m \in DeclaredMultibindings :
        phase # "add_to" => Occurs(stack', m) \/ Occurs(multibindingsVector, m)
  BY <1>3 DEF PendingInv
<1> QED BY <1>1, <1>2, <1>4 DEF PendingInv, IsBound

(* The handlers that pop one entry of no interest here, or replace it.        *)
LEMMA OthersPopped ==
  ASSUME TypeInv, CompressionInv, UNCHANGED <<prog, phase, base, compressedBindings,
           multibindingsVector>>, Started' = Started,
         status = "running", status' = "running", stack # <<>>,
         Top.kind \notin {"compressed"} \cup MultibindingKind,
         \/ stack' = Pop(1)
         \/ \E d \in Entry : /\ stack' = ReplaceTop(d)
                             /\ d.kind \notin {"compressed"} \cup BindingKind,
         Top.kind \in BindingKind =>
           \A c \in Type : ~Compressed(base.bindings, Top.type, c)
  PROVE  CompressionInv'
<1>1. PICK top : top = Top
  OBVIOUS
<1>2. stack \in Seq(Entry)
  BY DEF TypeInv, TypeOK
<1>3. PICK q : q = Pop(1)
  OBVIOUS
<1>4. \A e : /\ Occurs(q, e) => Occurs(stack, e)
             /\ Occurs(stack, e) => Occurs(q, e) \/ e = top
  BY <1>1, <1>2, <1>3, OccursPopped
<1>5. \A e : /\ Occurs(stack', e)
                  => Occurs(q, e) \/ e.kind \notin {"compressed"} \cup BindingKind
             /\ Occurs(q, e) => Occurs(stack', e)
  <2>1. CASE stack' = Pop(1)
    BY <1>3, <2>1
  <2>2. CASE stack' # Pop(1)
    <3>1. PICK d \in Entry : /\ stack' = ReplaceTop(d)
                             /\ d.kind \notin {"compressed"} \cup BindingKind
      BY <2>2
    <3> QED BY <1>2, <1>3, <3>1, OccursReplaced
  <2> QED BY <2>1, <2>2
<1>6. PendingInv'
  <2>1. PendingInv
    BY DEF CompressionInv
  <2>2. \A e : Occurs(stack', e) => Occurs(stack, e) \/ e.kind # "compressed"
    BY <1>4, <1>5
  <2>3. \A m : m.kind \in MultibindingKind /\ Occurs(stack, m) => Occurs(stack', m)
    BY <1>1, <1>4, <1>5
  <2> QED BY <2>1, <2>2, <2>3, PendingStays
<1>7. Declared' = Declared
  BY StartedStays
<1>8. ASSUME NEW e \in Declared
      PROVE  \/ Occurs(stack', e) \/ ~Occurs(stack, e)
             \/ \A c \in Type : ~Compressed(base.bindings, e.type, c)
  <2>1. e.kind \in BindingKind
    BY DeclaredEntry
  <2> QED BY <1>1, <1>4, <1>5, <2>1
<1> QED BY <1>6, <1>7, <1>8, EntryHandled

-----------------------------------------------------------------------------
(* A binding whose interface has been merged in the normalized component is   *)
(* not accepted: the create functions differ.                                 *)
LEMMA BindingHandledCompressing ==
  ASSUME TypeInv, BindingInv, CompressionInv, HandleBinding
  PROVE  CompressionInv'
<1>1. /\ status = "running" /\ status' = "running" /\ stack # <<>>
      /\ stack' = Pop(1) /\ Consistent(Top) /\ Top.kind \in BindingKind
      /\ UNCHANGED <<prog, phase, base, inProgress, fullyExpanded, compressedBindings,
                     multibindingsVector>>
  BY DEF HandleBinding, Handling, storageVars, BindingKind
<1>2. Started' = Started
  BY <1>1 DEF Started
<1>3. Top \in Declared
  <2>1. stack \in Seq(Entry)
    BY DEF TypeInv, TypeOK
  <2>2. Len(stack) \in DOMAIN stack
    BY <1>1, <2>1, TopProperties
  <2> QED BY <1>1, <2>2 DEF BindingInv, StackIsDeclared, Top
<1>4. Top.create.fn \notin CompressedFn
  BY <1>3, DeclaredNotMerged
<1>5. \A c \in Type : ~Compressed(base.bindings, Top.type, c)
  BY <1>1, <1>4 DEF Consistent, Compressed, Merges, IsBound
<1>6. Top.kind \notin {"compressed"} \cup MultibindingKind
  BY <1>1 DEF BindingKind, MultibindingKind
<1> QED BY <1>1, <1>2, <1>5, <1>6, OthersPopped

(* The entry of a pair waits for the compression.                             *)
LEMMA PairHandled ==
  ASSUME TypeInv, CompressionInv, HandleCompressedBinding
  PROVE  CompressionInv'
<1>1. PICK e : e = Top
  OBVIOUS
<1>2. /\ status = "running" /\ status' = "running" /\ stack # <<>>
      /\ stack' = Pop(1) /\ e.kind = "compressed"
      /\ UNCHANGED <<prog, phase, base, inProgress, fullyExpanded, multibindingsVector>>
      /\ compressedBindings' = IF phase = "add_to" THEN compressedBindings
                               ELSE [compressedBindings EXCEPT ![e.c_type] = e]
  BY <1>1 DEF HandleCompressedBinding, Handling, storageVars
<1>3. Started' = Started
  BY <1>2 DEF Started
<1>4. /\ DeclaredCompressed' = DeclaredCompressed
      /\ DeclaredMultibindings' = DeclaredMultibindings /\ Declared' = Declared
  BY <1>2, <1>3, StartedStays
<1>5. stack \in Seq(Entry) /\ compressedBindings \in CompressionMap
  BY DEF TypeInv, TypeOK
<1>6. \A f : /\ Occurs(stack', f) => Occurs(stack, f)
             /\ Occurs(stack, f) => Occurs(stack', f) \/ f = e
  BY <1>1, <1>2, <1>5, OccursPopped
<1>7. PendingInv
  BY DEF CompressionInv
<1>8. e \in DeclaredCompressed
  <2>1. Len(stack) \in DOMAIN stack
    BY <1>2, <1>5, TopProperties
  <2> QED BY <1>1, <1>2, <1>7, <2>1 DEF PendingInv, Top
<1>9. \A c \in Type : compressedBindings'[c] = compressedBindings[c]
                      \/ (compressedBindings'[c] = e /\ e.c_type = c /\ phase # "add_to")
  BY <1>2, <1>5 DEF CompressionMap
<1>10. \A k \in DOMAIN stack' :
         stack'[k].kind = "compressed" => stack'[k] \in DeclaredCompressed
  <2>1. SUFFICES ASSUME NEW k \in DOMAIN stack', stack'[k].kind = "compressed"
                 PROVE  stack'[k] \in DeclaredCompressed
    OBVIOUS
  <2>2. PICK f : f = stack'[k]
    OBVIOUS
  <2>3. Occurs(stack, f)
    BY <1>6, <2>1, <2>2 DEF Occurs
  <2> QED BY <1>7, <2>1, <2>2, <2>3 DEF Occurs, PendingInv
<1>11. \A m \in DeclaredMultibindings :
         phase # "add_to" => Occurs(stack', m) \/ Occurs(multibindingsVector, m)
  <2>1. \A m \in DeclaredMultibindings : m # e
    BY <1>2 DEF DeclaredMultibindings, MultibindingsOf, MultibindingKind
  <2> QED BY <1>6, <1>7, <2>1 DEF PendingInv
<1>12. PendingInv'
  <2>1. \A c \in Type : IsBound(compressedBindings, c)' =>
          compressedBindings'[c] \in DeclaredCompressed /\ compressedBindings'[c].c_type = c
    BY <1>7, <1>8, <1>9 DEF PendingInv, IsBound
  <2>2. phase' = "add_to" \/ status' = "ready" => compressedBindings' = NothingBound
    BY <1>2, <1>7 DEF PendingInv
  <2> QED BY <1>2, <1>4, <1>10, <1>11, <2>1, <2>2 DEF PendingInv
<1>13. \A f \in Declared : f # e
  BY <1>2, DeclaredEntry DEF BindingKind
<1> QED BY <1>2, <1>3, <1>4, <1>6, <1>12, <1>13, EntryHandled

(* What was appended to a sequence occurs in it.                              *)
LEMMA OccursAppended ==
  ASSUME NEW S, NEW s \in Seq(S), NEW u \in S
  PROVE  /\ \A e : Occurs(s, e) => Occurs(Append(s, u), e)
         /\ Occurs(Append(s, u), u)
<1> DEFINE r == Append(s, u)
           n == Len(s)
<1>1. n \in Nat /\ DOMAIN s = 1 .. n /\ DOMAIN r = 1 .. n + 1
      /\ (\A i \in 1 .. n : r[i] = s[i]) /\ r[n + 1] = u
  BY LenProperties, AppendProperties
<1> HIDE DEF r, n
<1>2. \A i \in 1 .. n : i \in 1 .. n + 1
  BY <1>1
<1>3. n + 1 \in 1 .. n + 1
  BY <1>1
<1>4. /\ \A e : Occurs(s, e) => Occurs(r, e)
      /\ Occurs(r, u)
  BY <1>1, <1>2, <1>3 DEF Occurs
<1> QED BY <1>4 DEF r

(* The handlers of two entries: a multibinding goes to the vector.            *)
LEMMA TwoPopped ==
  ASSUME TypeInv, CompressionInv,
         HandleMultibinding \/ HandleReplaced \/ HandleReplacedAgain
  PROVE  CompressionInv'
<1>1. PICK top, under : top = Top /\ under = Under
  OBVIOUS
<1>2. /\ status = "running" /\ status' = "running" /\ stack # <<>>
      /\ top.kind \in {"replaced", "multibinding_vector_creator"} /\ stack' = Pop(2)
      /\ UNCHANGED <<prog, phase, base, inProgress, fullyExpanded, compressedBindings>>
  BY <1>1 DEF HandleMultibinding, HandleReplaced, HandleReplacedAgain, Handling,
              bindingVars, storageVars
<1>3. stack \in Seq(Entry) /\ WellPaired(stack)
      /\ multibindingsVector \in Seq(Multibinding)
  BY DEF TypeInv, TypeOK
<1>4. /\ Len(stack) > 1 /\ under \in Entry
      /\ top.kind = "replaced" => under.kind = "replacement"
      /\ top.kind = "multibinding_vector_creator" => under.kind \in MultibindingKind
  BY <1>1, <1>2, <1>3, UnderProperties, TopProperties
<1>5. \A e : /\ Occurs(stack', e) => Occurs(stack, e)
             /\ Occurs(stack, e) => Occurs(stack', e) \/ e \in {top, under}
  BY <1>1, <1>2, <1>3, <1>4, OccursPopped
<1>6. Started' = Started
  BY <1>2 DEF Started
<1>7. Declared' = Declared /\ DeclaredCompressed' = DeclaredCompressed
      /\ DeclaredMultibindings' = DeclaredMultibindings
  BY <1>2, <1>6, StartedStays
<1>8. PendingInv
  BY DEF CompressionInv
<1>9. \A m : m.kind \in MultibindingKind /\ Occurs(stack, m)
               => Occurs(stack', m) \/ Occurs(multibindingsVector', m)
  <2>1. CASE HandleMultibinding
    <3>1. /\ multibindingsVector' = Append(multibindingsVector, under)
          /\ top.kind = "multibinding_vector_creator"
      BY <1>1, <2>1 DEF HandleMultibinding, Handling
    <3>2. under \in Multibinding
      BY <1>4, <3>1, EntryOfKind
    <3>3. Occurs(multibindingsVector', under)
      BY <1>3, <3>1, <3>2, OccursAppended
    <3> QED BY <1>5, <3>1, <3>3 DEF MultibindingKind
  <2>2. CASE ~HandleMultibinding
    <3>1. top.kind = "replaced"
      BY <1>1, <2>2 DEF HandleReplaced, HandleReplacedAgain, Handling
    <3>2. under.kind = "replacement"
      BY <1>4, <3>1
    <3> QED BY <1>5, <3>1, <3>2 DEF MultibindingKind
  <2> QED BY <2>1, <2>2
<1>10. \A m : Occurs(multibindingsVector, m) => Occurs(multibindingsVector', m)
  <2>1. CASE HandleMultibinding
    <3>1. /\ multibindingsVector' = Append(multibindingsVector, under)
          /\ top.kind = "multibinding_vector_creator"
      BY <1>1, <2>1 DEF HandleMultibinding, Handling
    <3>2. under \in Multibinding
      BY <1>4, <3>1, EntryOfKind
    <3> QED BY <1>3, <3>1, <3>2, OccursAppended
  <2>2. CASE ~HandleMultibinding
    BY <2>2 DEF HandleReplaced, HandleReplacedAgain, bindingVars
  <2> QED BY <2>1, <2>2
<1>11. \A k \in DOMAIN stack' :
         stack'[k].kind = "compressed" => stack'[k] \in DeclaredCompressed
  <2>1. SUFFICES ASSUME NEW k \in DOMAIN stack', stack'[k].kind = "compressed"
                 PROVE  stack'[k] \in DeclaredCompressed
    OBVIOUS
  <2>2. PICK f : f = stack'[k]
    OBVIOUS
  <2>3. Occurs(stack, f)
    BY <1>5, <2>1, <2>2 DEF Occurs
  <2> QED BY <1>8, <2>1, <2>2, <2>3 DEF Occurs, PendingInv
<1>12. \A m \in DeclaredMultibindings :
         phase # "add_to" => Occurs(stack', m) \/ Occurs(multibindingsVector', m)
  <2>1. \A m \in DeclaredMultibindings : m.kind \in MultibindingKind
    BY DEF DeclaredMultibindings, MultibindingsOf
  <2> QED BY <1>8, <1>9, <1>10, <2>1 DEF PendingInv
<1>13. PendingInv'
  BY <1>2, <1>7, <1>8, <1>11, <1>12 DEF PendingInv, IsBound
<1>14. \A e \in Declared : e \notin {top, under}
  <2>1. top.kind \notin BindingKind /\ under.kind \notin BindingKind
    BY <1>2, <1>4 DEF BindingKind, MultibindingKind
  <2> QED BY <2>1, DeclaredEntry
<1> QED BY <1>2, <1>5, <1>6, <1>7, <1>13, <1>14, EntryHandled

(* The expansion of a component: its entries are declared, and on the stack.  *)
LEMMA ExpandedCompressing ==
  ASSUME TypeInv, CompressionInv, ExpandLazyComponent
  PROVE  CompressionInv'
<1>0. PICK c : c = Top.comp
  OBVIOUS
<1> DEFINE d == [kind |-> "end_marker", comp |-> c]
<1>1. /\ status = "running" /\ status' = "running" /\ stack # <<>> /\ Top.kind = "lazy"
      /\ stack' = ReplaceTop(d) \o prog.body[c]
      /\ inProgress' = inProgress \cup {c}
      /\ UNCHANGED <<prog, phase, base, compressedBindings, multibindingsVector,
                     fullyExpanded>>
  BY <1>0 DEF ExpandLazyComponent, Handling, storageVars, bindingVars
<1>2. c \in Component
  BY <1>0, HandledEntry DEF ExpandLazyComponent, ComponentKind
<1>3. /\ stack \in Seq(Entry) /\ d \in Entry /\ prog.body[c] \in Seq(Entry)
      /\ d.kind = "end_marker"
  BY <1>1, <1>2, ProgramType DEF TypeInv, TypeOK, Entry, ComponentEntry, ComponentKind
<1>4. ReplaceTop(d) \in Seq(Entry)
  BY <1>1, <1>3, ReplaceTopProperties
<1>5. Started' = Started \cup {c}
  BY <1>1 DEF Started
<1>6. PICK body : body = prog.body[c]
  OBVIOUS
<1>7. \A e : e.kind \notin ComponentKind =>
               (Occurs(stack', e) <=> Occurs(stack, e) \/ Occurs(body, e))
  <2>1. SUFFICES ASSUME NEW e, e.kind \notin ComponentKind
                 PROVE  Occurs(stack', e) <=> Occurs(stack, e) \/ Occurs(body, e)
    OBVIOUS
  <2>2. Occurs(stack', e) <=> Occurs(ReplaceTop(d), e) \/ Occurs(body, e)
    BY <1>1, <1>3, <1>4, <1>6, OccursPushed
  <2>3. Occurs(ReplaceTop(d), e) <=> Occurs(Pop(1), e)
    BY <1>1, <1>3, <2>1, OccursReplaced DEF ComponentKind
  <2>4. Occurs(Pop(1), e) <=> Occurs(stack, e)
    BY <1>1, <1>3, <2>1, OccursPopped DEF ComponentKind
  <2> QED BY <2>2, <2>3, <2>4
<1>8. \A e : Occurs(body, e) <=> e \in Entries(c)
  BY <1>6 DEF Occurs, Entries
<1> HIDE DEF d
<1>9. /\ Declared' = Declared \cup BindingsOf(c)
      /\ DeclaredCompressed' = DeclaredCompressed
                                 \cup {e \in Entries(c) : e.kind = "compressed"}
      /\ DeclaredMultibindings' = DeclaredMultibindings \cup MultibindingsOf(c)
  <2>1. \A b : /\ Entries(b)' = Entries(b)
               /\ MultibindingsOf(b)' = MultibindingsOf(b)
    BY <1>1 DEF Entries, MultibindingsOf
  <2>2. Declared' = Declared \cup BindingsOf(c)
    BY <1>1, <1>5, DeclaredGrows
  <2> HIDE DEF Started
  <2> QED BY <1>5, <2>1, <2>2 DEF DeclaredCompressed, DeclaredMultibindings
<1>10. PendingInv
  BY DEF CompressionInv
<1>11. \A k \in DOMAIN stack' :
         stack'[k].kind = "compressed" => stack'[k] \in DeclaredCompressed'
  <2>1. SUFFICES ASSUME NEW k \in DOMAIN stack', stack'[k].kind = "compressed"
                 PROVE  stack'[k] \in DeclaredCompressed'
    OBVIOUS
  <2>2. PICK f : f = stack'[k]
    OBVIOUS
  <2>3. Occurs(stack, f) \/ f \in Entries(c)
    BY <1>7, <1>8, <2>1, <2>2 DEF Occurs, ComponentKind
  <2> QED BY <1>9, <1>10, <2>1, <2>2, <2>3 DEF Occurs, PendingInv
<1>12. \A m \in DeclaredMultibindings' :
         phase # "add_to" => Occurs(stack', m) \/ Occurs(multibindingsVector, m)
  <2>1. SUFFICES ASSUME NEW m \in DeclaredMultibindings', phase # "add_to"
                 PROVE  Occurs(stack', m) \/ Occurs(multibindingsVector, m)
    OBVIOUS
  <2>2. m.kind \notin ComponentKind
    BY <1>9 DEF DeclaredMultibindings, MultibindingsOf, MultibindingKind, ComponentKind
  <2>3. m \in DeclaredMultibindings \/ m \in Entries(c)
    BY <1>9 DEF MultibindingsOf
  <2> QED BY <1>7, <1>8, <1>10, <2>1, <2>2, <2>3 DEF PendingInv
<1>13. PendingInv'
  BY <1>1, <1>9, <1>10, <1>11, <1>12 DEF PendingInv, IsBound
<1>14. ASSUME NEW e \in Declared'
       PROVE  Occurs(stack', e) \/ (e \in Declared /\ ~Occurs(stack, e))
  <2>1. CASE e \in BindingsOf(c)
    <3>1. e \in Entries(c) /\ e.kind \notin ComponentKind
      BY <2>1 DEF BindingsOf, BindingKind, ComponentKind
    <3> QED BY <1>7, <1>8, <3>1
  <2>2. CASE e \in Declared
    <3>1. e.kind \notin ComponentKind
      BY <2>2, DeclaredEntry DEF BindingKind, ComponentKind
    <3> QED BY <1>7, <2>2, <3>1
  <2> QED BY <1>9, <2>1, <2>2
<1> QED BY <1>1, <1>5, <1>13, <1>14, EntryHandled

(* An error message.                                                          *)
LEMMA FailKeepsCompressionInv ==
  ASSUME CompressionInv, status \in {"running", "compressing"},
         NEW error \in Errors, Fail(error)
  PROVE  CompressionInv'
<1>1. /\ status' = error /\ status' # "ready"
      /\ UNCHANGED <<prog, phase, base, stack, inProgress, fullyExpanded,
                     compressedBindings, multibindingsVector>>
  BY DEF Fail, expansionVars, storageVars, bindingVars, Errors
<1>2. Started' = Started
  BY <1>1 DEF Started
<1>3. PendingInv'
  <2>1. PendingInv
    BY DEF CompressionInv
  <2>2. \A e : Occurs(stack', e) <=> Occurs(stack, e)
    BY <1>1
  <2> QED BY <1>1, <1>2, <2>1, <2>2, PendingStays
<1>4. Declared' = Declared
  BY <1>1, <1>2, StartedStays
<1>5. \A e \in Declared : Occurs(stack', e) <=> Occurs(stack, e)
  BY <1>1
<1> QED BY <1>1, <1>2, <1>3, <1>4, <1>5, EntryHandled

-----------------------------------------------------------------------------
(* The pairs that are left by StartCompression are free, and nothing has been *)
(* merged yet.                                                                *)
LEMMA MergingStarted ==
  ASSUME TypeInv, ExpansionInv, BindingInv, CompressionInv, StartCompression
  PROVE  CompressionInv'
<1>1. /\ status = "running" /\ status' = "compressing" /\ stack = <<>>
      /\ phase # "add_to"
      /\ UNCHANGED <<prog, phase, base, stack, undoInfo, bindingDataMap, inProgress,
                     fullyExpanded, multibindingsVector>>
      /\ compressedBindings' = [c \in Type |-> IF Compressible(c)
                                                 THEN compressedBindings[c] ELSE Unbound]
  BY DEF StartCompression, expansionVars, storageVars
<1>2. Started' = Started
  BY <1>1 DEF Started
<1>3. /\ Declared' = Declared /\ DeclaredCompressed' = DeclaredCompressed
      /\ DeclaredMultibindings' = DeclaredMultibindings
  BY <1>1, <1>2, StartedStays
<1>4. PendingInv /\ StoredInv /\ HandlingInv
  BY DEF CompressionInv, BindingInv
<1>5. \A e : ~Occurs(stack, e)
  BY <1>1 DEF Occurs
<1>6. \A c \in Type : IsBound(compressedBindings, c)' =>
        /\ Compressible(c)
        /\ compressedBindings'[c] = compressedBindings[c]
  BY <1>1 DEF IsBound
<1>7. PendingInv'
  <2>1. \A c \in Type : IsBound(compressedBindings, c)' =>
          compressedBindings'[c] \in DeclaredCompressed /\ compressedBindings'[c].c_type = c
    BY <1>4, <1>6 DEF PendingInv, IsBound
  <2> QED BY <1>1, <1>3, <1>4, <2>1 DEF PendingInv
<1>8. ASSUME NEW c \in Type PROVE undoInfo[c] = Unbound
  BY <1>1, <1>4 DEF HandlingInv, NothingBound
<1>9. ASSUME NEW i \in Type, NEW c \in Type PROVE ~Compressed(bindingDataMap, i, c)
  <2>1. IsDeclared(bindingDataMap, i)
    BY <1>1, <1>4 DEF HandlingInv
  <2> QED BY <2>1, DeclaredNotMerged DEF IsDeclared, Compressed, Merges
<1>10. ASSUME NEW c \in Type, Compressible(c)
       PROVE  /\ Free(c)
              /\ NotNeeded(bindingDataMap, c, {compressedBindings[c].type})
  <2>1. \A m \in DeclaredMultibindings : Occurs(multibindingsVector, m)
    BY <1>1, <1>4, <1>5 DEF PendingInv
  <2>2. \A m \in DeclaredMultibindings : c \notin m.deps
    BY <1>10, <2>1 DEF Occurs, Compressible, NeededByMultibinding
  <2> QED BY <1>10, <2>2 DEF Compressible, Free, NotNeeded, NeededByOther
<1>11. MergingInv'
  <2>1. \A c \in Type : ~Merged(c)'
    BY <1>1, <1>8, <1>9 DEF Merged, Compressed, IsBound
  <2>2. \A c \in Type : Free(c)' = Free(c)
    BY <1>1, <1>3 DEF Free, Exposed
  <2>3. WaitingAreFree'
    <3>1. SUFFICES ASSUME NEW c \in Type, IsBound(compressedBindings, c)'
                   PROVE  /\ Free(c)'
                          /\ NotNeeded(bindingDataMap, c, {compressedBindings[c].type})'
                          /\ NoClassNeeds(undoInfo, c, compressedBindings[c].type)'
                          /\ NoInterfaceNeeds(undoInfo, c, compressedBindings[c].type)'
      BY DEF WaitingAreFree
    <3>2. /\ Free(c)
          /\ NotNeeded(bindingDataMap, c, {compressedBindings[c].type})
          /\ compressedBindings'[c] = compressedBindings[c]
      BY <1>6, <1>10, <3>1
    <3> QED BY <1>1, <1>8, <2>2, <3>2
            DEF NotNeeded, NoClassNeeds, NoInterfaceNeeds, IsBound
  <2>4. /\ MergedAreFree' /\ MergedAreDeclared' /\ UndoneAreDeclared'
        /\ MergedBefore(undoInfo)'
    BY <1>1, <1>8, <2>1 DEF MergedAreFree, MergedAreDeclared, UndoneAreDeclared,
                            MergedBefore, Merged
  <2> QED BY <2>3, <2>4 DEF MergingInv
<1>12. StoredInv'
  BY <1>1, <1>2, <1>3, <1>4, <1>5, StoredStays
<1> QED BY <1>1, <1>7, <1>11, <1>12
        DEF CompressionInv, CompressionIsLicensed, InterfaceKeepsItsClass, GraphIsBuilt

(* What one pass of the loop does to the three maps.                          *)
MergeStep(c, i) ==
  /\ IsBound(compressedBindings, c) /\ compressedBindings[c].type = i
  /\ IsBound(bindingDataMap, i) /\ IsBound(bindingDataMap, c)
  /\ bindingDataMap'[c] = Unbound
  /\ i # c => /\ bindingDataMap'[i] # Unbound
              /\ bindingDataMap'[i].create = compressedBindings[c].create
              /\ bindingDataMap'[i].deps = bindingDataMap[c].deps
  /\ \A t \in Type \ {i, c} : bindingDataMap'[t] = bindingDataMap[t]
  /\ compressedBindings'[c] = Unbound
  /\ \A t \in Type \ {c} : compressedBindings'[t] = compressedBindings[t]
  /\ IF phase = "undoable"
       THEN /\ undoInfo'[c] # Unbound /\ undoInfo'[c].i_type = i
            /\ undoInfo'[c].i_binding = bindingDataMap[i]
            /\ undoInfo'[c].c_binding = bindingDataMap[c]
       ELSE undoInfo'[c] = undoInfo[c]
  /\ \A t \in Type \ {c} : undoInfo'[t] = undoInfo[t]

(* The assignments of CompressBinding.                                        *)
LEMMA CompressBindingMerges ==
  ASSUME TypeInv, CompressBinding
  PROVE  \E c, i \in Type : MergeStep(c, i)
<1>1. /\ undoInfo \in [Type -> UndoInfo \cup {Unbound}]
      /\ bindingDataMap \in [Type -> Binding \cup {Unbound}]
      /\ compressedBindings \in [Type -> CompressedBinding \cup {Unbound}]
  BY DEF TypeInv, TypeOK, UndoMap, BindingMap, CompressionMap
<1>2. PICK c \in Type :
        LET i == compressedBindings[c].type
        IN /\ compressedBindings[c] # Unbound
           /\ IsBound(bindingDataMap, i) /\ IsBound(bindingDataMap, c)
           /\ undoInfo' = [undoInfo EXCEPT ![c] =
                             IF phase = "undoable"
                               THEN [i_type |-> i, i_binding |-> bindingDataMap[i],
                                     c_binding |-> bindingDataMap[c]]
                               ELSE @]
           /\ bindingDataMap' =
                [bindingDataMap EXCEPT
                   ![i] = [kind |-> bindingDataMap[c].kind, type |-> i,
                           create |-> compressedBindings[c].create,
                           deps |-> bindingDataMap[c].deps],
                   ![c] = Unbound]
           /\ compressedBindings' = [compressedBindings EXCEPT ![c] = Unbound]
  BY DEF CompressBinding
<1>3. PICK i : i = compressedBindings[c].type
  OBVIOUS
<1>4. i \in Type
  BY <1>1, <1>2, <1>3 DEF CompressedBinding
<1>5. ASSUME NEW x, NEW y
      PROVE  [i_type |-> i, i_binding |-> x, c_binding |-> y] # Unbound
  <2>1. DOMAIN [i_type |-> i, i_binding |-> x, c_binding |-> y]
          = {"i_type", "i_binding", "c_binding"}
    OBVIOUS
  <2>2. DOMAIN Unbound = {"kind"}
    BY DEF Unbound
  <2> QED BY <2>1, <2>2
<1>6. ASSUME NEW x, NEW y, NEW z
      PROVE  [kind |-> x, type |-> i, create |-> y, deps |-> z] # Unbound
  <2>1. DOMAIN [kind |-> x, type |-> i, create |-> y, deps |-> z]
          = {"kind", "type", "create", "deps"}
    OBVIOUS
  <2>2. DOMAIN Unbound = {"kind"}
    BY DEF Unbound
  <2> QED BY <2>1, <2>2
<1>7. /\ bindingDataMap'[c] = Unbound
      /\ i # c => bindingDataMap'[i] =
                    [kind |-> bindingDataMap[c].kind, type |-> i,
                     create |-> compressedBindings[c].create,
                     deps |-> bindingDataMap[c].deps]
      /\ \A t \in Type \ {i, c} : bindingDataMap'[t] = bindingDataMap[t]
  BY <1>1, <1>2, <1>3, <1>4
<1>8. /\ compressedBindings'[c] = Unbound
      /\ \A t \in Type \ {c} : compressedBindings'[t] = compressedBindings[t]
  BY <1>1, <1>2
<1>9. /\ undoInfo'[c] = IF phase = "undoable"
                          THEN [i_type |-> i, i_binding |-> bindingDataMap[i],
                                c_binding |-> bindingDataMap[c]]
                          ELSE undoInfo[c]
      /\ \A t \in Type \ {c} : undoInfo'[t] = undoInfo[t]
  BY <1>1, <1>2, <1>3
<1>10. i # c => /\ bindingDataMap'[i] # Unbound
                /\ bindingDataMap'[i].create = compressedBindings[c].create
                /\ bindingDataMap'[i].deps = bindingDataMap[c].deps
  BY <1>6, <1>7
<1>11. IF phase = "undoable"
         THEN /\ undoInfo'[c] # Unbound /\ undoInfo'[c].i_type = i
              /\ undoInfo'[c].i_binding = bindingDataMap[i]
              /\ undoInfo'[c].c_binding = bindingDataMap[c]
         ELSE undoInfo'[c] = undoInfo[c]
  BY <1>5, <1>9
<1>12. MergeStep(c, i)
  BY <1>2, <1>3, <1>7, <1>8, <1>9, <1>10, <1>11 DEF MergeStep, IsBound
<1> QED BY <1>4, <1>12

(* The state of the loop before a pass.                                       *)
Loop == /\ TypeInv /\ PendingInv
        /\ MergedAreFree /\ WaitingAreFree
        /\ MergedAreDeclared /\ UndoneAreDeclared /\ MergedBefore(undoInfo)

(* The pair that a pass merges is declared, and is the only one it merges.    *)
LEMMA OnePairMerged ==
  ASSUME Loop, NEW c \in Type, NEW i \in Type, MergeStep(c, i)
  PROVE  /\ PairDeclared(i, c)
         /\ i # c => Merges(bindingDataMap'[i], c)
         /\ ~Merged(c) /\ ~Merged(i) /\ undoInfo[c] = Unbound
         /\ \A d, t \in Type : Compressed(bindingDataMap', t, d)
              => \/ t = i /\ d = c /\ i # c
                 \/ Compressed(bindingDataMap, t, d) /\ t \notin {i, c} /\ d # c
<1>1. PICK e : e = compressedBindings[c]
  OBVIOUS
<1>2. e \in DeclaredCompressed /\ e.c_type = c /\ e.type = i
  BY <1>1 DEF Loop, PendingInv, MergeStep
<1>3. e.create.fn \in CompressedFn /\ e.create.c = c
  BY <1>2, DeclaredPair DEF Loop
<1>4. PairDeclared(i, c)
  BY <1>2 DEF PairDeclared
<1>5. i # c => Merges(bindingDataMap'[i], c)
  BY <1>1, <1>3 DEF MergeStep, Merges
<1>6. ~Merged(c) /\ ~Merged(i)
  BY DEF Loop, MergedAreFree, MergeStep
<1>7. undoInfo[c] = Unbound
  BY <1>6 DEF Merged
<1>8. ASSUME NEW d \in Type, NEW t \in Type, Compressed(bindingDataMap', t, d)
      PROVE  \/ t = i /\ d = c /\ i # c
             \/ Compressed(bindingDataMap, t, d) /\ t \notin {i, c} /\ d # c
  <2>1. t # c
    BY <1>8 DEF Compressed, IsBound, MergeStep
  <2>2. CASE t = i
    <3>1. Merges(bindingDataMap'[i], c) /\ Merges(bindingDataMap'[i], d)
      BY <1>5, <1>8, <2>1, <2>2 DEF Compressed
    <3> QED BY <2>1, <2>2, <3>1 DEF Merges
  <2>3. CASE t # i
    <3>1. Compressed(bindingDataMap, t, d)
      BY <1>8, <2>1, <2>3 DEF Compressed, IsBound, MergeStep
    <3> QED BY <1>6, <2>1, <2>3, <3>1 DEF Merged
  <2> QED BY <2>2, <2>3
<1> QED BY <1>4, <1>5, <1>6, <1>7, <1>8

(* Nothing but its interface needs the class that this pass merges.           *)
LEMMA WaitingPair ==
  ASSUME Loop, NEW c \in Type, NEW i \in Type, MergeStep(c, i)
  PROVE  /\ Free(c) /\ NotNeeded(bindingDataMap, c, {i})
         /\ NoClassNeeds(undoInfo, c, i) /\ NoInterfaceNeeds(undoInfo, c, i)
BY DEF Loop, WaitingAreFree, MergeStep

(* A class that has been merged stays free: the binding of its interface      *)
(* depends on what the binding of the class depended on.                      *)
LEMMA MergedStayFree ==
  ASSUME Loop, NEW c \in Type, NEW i \in Type, MergeStep(c, i),
         UNCHANGED <<prog, phase>>, Started' = Started
  PROVE  MergedAreFree'
<1>1. \A d : Free(d)' = Free(d)
  BY StartedStays DEF Free, Exposed
<1>2. SUFFICES ASSUME NEW d \in Type, Merged(d)'
               PROVE  /\ ~IsBound(compressedBindings', d) /\ ~IsBound(bindingDataMap', d)
                      /\ Free(d)
                      /\ NotNeeded(bindingDataMap', d, {})
                      /\ NoClassNeeds(undoInfo', d, d)
  BY <1>1 DEF MergedAreFree, IsBound, NotNeeded, NoClassNeeds
<1>3. Merged(d) \/ d = c
  <2>1. undoInfo'[d] # Unbound => undoInfo[d] # Unbound \/ d = c
    BY DEF MergeStep
  <2>2. (\E t \in Type : Compressed(bindingDataMap', t, d))
          => d = c \/ \E t \in Type : Compressed(bindingDataMap, t, d)
    BY OnePairMerged
  <2>3. undoInfo'[d] # Unbound \/ \E t \in Type : Compressed(bindingDataMap', t, d)
    BY <1>2 DEF Merged, Compressed, IsBound
  <2> QED BY <2>1, <2>2, <2>3 DEF Merged
<1>4. CASE Merged(d)
  <2>1. /\ compressedBindings[d] = Unbound /\ bindingDataMap[d] = Unbound /\ Free(d)
        /\ \A x \in Type : bindingDataMap[x] # Unbound => d \notin bindingDataMap[x].deps
        /\ \A x \in Type \ {d} : undoInfo[x] # Unbound
                => d \notin undoInfo[x].c_binding.deps
    BY <1>4 DEF Loop, MergedAreFree, IsBound, NotNeeded, NoClassNeeds
  <2>2. d # c /\ d # i
    BY <1>4, OnePairMerged
  <2>3. \A x \in Type : bindingDataMap'[x] # Unbound => d \notin bindingDataMap'[x].deps
    BY <2>1 DEF MergeStep, IsBound
  <2>4. \A x \in Type \ {d} : undoInfo'[x] # Unbound
             => d \notin undoInfo'[x].c_binding.deps
    BY <2>1 DEF MergeStep, IsBound
  <2> QED BY <2>1, <2>2, <2>3, <2>4 DEF MergeStep, IsBound, NotNeeded, NoClassNeeds
<1>5. CASE d = c
  <2>1. /\ \A x \in Type \ {i} : bindingDataMap[x] # Unbound
                => c \notin bindingDataMap[x].deps
        /\ \A x \in Type \ {i} : undoInfo[x] # Unbound
                => c \notin undoInfo[x].c_binding.deps
    BY WaitingPair DEF NotNeeded, NoClassNeeds, IsBound
  <2>2. undoInfo[i] = Unbound
    BY OnePairMerged DEF Merged
  <2>3. \A x \in Type : bindingDataMap'[x] # Unbound => c \notin bindingDataMap'[x].deps
    BY <2>1 DEF MergeStep, IsBound
  <2>4. \A x \in Type \ {c} : undoInfo'[x] # Unbound
             => c \notin undoInfo'[x].c_binding.deps
    BY <2>1, <2>2 DEF MergeStep, IsBound
  <2> QED BY <1>5, <2>3, <2>4, WaitingPair DEF MergeStep, IsBound, NotNeeded, NoClassNeeds
<1> QED BY <1>3, <1>4, <1>5

(* A class that waits stays needed by its interface alone.                    *)
LEMMA WaitingStayFree ==
  ASSUME Loop, NEW c \in Type, NEW i \in Type, MergeStep(c, i),
         UNCHANGED <<prog, phase>>, Started' = Started
  PROVE  WaitingAreFree'
<1>1. \A d : Free(d)' = Free(d)
  BY StartedStays DEF Free, Exposed
<1>2. SUFFICES ASSUME NEW d \in Type, compressedBindings'[d] # Unbound,
                      NEW j, j = compressedBindings'[d].type
               PROVE  /\ Free(d)
                      /\ bindingDataMap'[j] # Unbound =>
                           /\ NotNeeded(bindingDataMap', d, {j})
                           /\ NoClassNeeds(undoInfo', d, j)
                           /\ NoInterfaceNeeds(undoInfo', d, j)
  BY <1>1 DEF WaitingAreFree, IsBound, NotNeeded, NoClassNeeds, NoInterfaceNeeds
<1>3. d # c /\ compressedBindings[d] # Unbound /\ j = compressedBindings[d].type
  BY <1>2 DEF MergeStep
<1>4. j \in Type
  BY <1>3 DEF Loop, TypeInv, TypeOK, CompressionMap, CompressedBinding
<1>5. Free(d)
  BY <1>3 DEF Loop, WaitingAreFree, IsBound
<1>6. ASSUME bindingDataMap'[j] # Unbound
      PROVE  /\ NotNeeded(bindingDataMap', d, {j})
             /\ NoClassNeeds(undoInfo', d, j)
             /\ NoInterfaceNeeds(undoInfo', d, j)
  <2>1. j # c /\ bindingDataMap[j] # Unbound
    BY <1>4, <1>6 DEF MergeStep, IsBound
  <2>2. /\ NotNeeded(bindingDataMap, d, {j})
        /\ NoClassNeeds(undoInfo, d, j)
        /\ NoInterfaceNeeds(undoInfo, d, j)
    BY <1>3, <2>1 DEF Loop, WaitingAreFree, IsBound
  <2>3. /\ \A x \in Type \ {j} : bindingDataMap[x] # Unbound
                => d \notin bindingDataMap[x].deps
        /\ \A x \in Type \ {j} : undoInfo[x] # Unbound
                => d \notin undoInfo[x].c_binding.deps
        /\ \A x \in Type : undoInfo[x] # Unbound /\ undoInfo[x].i_type # j
                             => d \notin undoInfo[x].i_binding.deps
    BY <2>2 DEF NotNeeded, NoClassNeeds, NoInterfaceNeeds, IsBound
  <2>4. \A x \in Type \ {j} : bindingDataMap'[x] # Unbound
             => d \notin bindingDataMap'[x].deps
    BY <2>1, <2>3 DEF MergeStep, IsBound
  <2>5. \A x \in Type \ {j} : undoInfo'[x] # Unbound
             => d \notin undoInfo'[x].c_binding.deps
    BY <2>1, <2>3 DEF MergeStep, IsBound
  <2>6. \A x \in Type : undoInfo'[x] # Unbound /\ undoInfo'[x].i_type # j
                          => d \notin undoInfo'[x].i_binding.deps
    BY <2>3, OnePairMerged DEF MergeStep, IsBound
  <2> QED BY <2>4, <2>5, <2>6 DEF NotNeeded, NoClassNeeds, NoInterfaceNeeds, IsBound
<1> QED BY <1>5, <1>6

(* What is merged, and what is remembered of it, comes from declared pairs.   *)
LEMMA MergedStayDeclared ==
  ASSUME Loop, NEW c \in Type, NEW i \in Type, MergeStep(c, i),
         UNCHANGED <<prog, phase>>, Started' = Started
  PROVE  /\ MergedAreDeclared'
         /\ UndoneAreDeclared'
         /\ MergedBefore(undoInfo')
<1>1. \A t, d : PairDeclared(t, d)' = PairDeclared(t, d)
  BY StartedStays DEF PairDeclared
<1>2. ASSUME NEW t \in Type, NEW d \in Type, Compressed(bindingDataMap', t, d)
      PROVE  /\ PairDeclared(t, d)
             /\ phase = "undoable" => undoInfo'[d] # Unbound /\ undoInfo'[d].i_type = t
  <2>1. CASE t = i /\ d = c
    BY <2>1, OnePairMerged DEF MergeStep
  <2>2. CASE ~(t = i /\ d = c)
    <3>1. Compressed(bindingDataMap, t, d) /\ d # c
      BY <1>2, <2>2, OnePairMerged
    <3> QED BY <3>1 DEF Loop, MergedAreDeclared, MergeStep
  <2> QED BY <2>1, <2>2
<1>3. MergedAreDeclared'
  BY <1>1, <1>2 DEF MergedAreDeclared, Compressed, IsBound
<1>4. ASSUME NEW d \in Type, undoInfo'[d] # Unbound
      PROVE  /\ PairDeclared(undoInfo'[d].i_type, d)
             /\ NoInterfaceNeeds(undoInfo', d, undoInfo'[d].i_type)
  <2>1. CASE d = c
    <3>1. undoInfo'[c].i_type = i
      BY <1>4, <2>1, OnePairMerged DEF MergeStep
    <3>2. \A x \in Type : undoInfo[x] # Unbound /\ undoInfo[x].i_type # i
                            => c \notin undoInfo[x].i_binding.deps
      BY WaitingPair DEF NoInterfaceNeeds
    <3>3. \A x \in Type : undoInfo'[x] # Unbound /\ undoInfo'[x].i_type # i
                            => c \notin undoInfo'[x].i_binding.deps
      BY <3>1, <3>2 DEF MergeStep
    <3> QED BY <2>1, <3>1, <3>3, OnePairMerged DEF NoInterfaceNeeds
  <2>2. CASE d # c
    <3>1. undoInfo[d] # Unbound /\ undoInfo'[d] = undoInfo[d]
      BY <1>4, <2>2 DEF MergeStep
    <3>2. /\ PairDeclared(undoInfo[d].i_type, d)
          /\ NoInterfaceNeeds(undoInfo, d, undoInfo[d].i_type)
      BY <3>1 DEF Loop, UndoneAreDeclared
    <3>3. Merged(d)
      BY <3>1 DEF Merged
    <3>4. d \notin bindingDataMap[i].deps
      BY <3>3 DEF Loop, MergedAreFree, NotNeeded, MergeStep
    <3>5. \A x \in Type : undoInfo'[x] # Unbound /\ undoInfo'[x].i_type # undoInfo[d].i_type
                            => d \notin undoInfo'[x].i_binding.deps
      <4>1. SUFFICES ASSUME NEW x \in Type, undoInfo'[x] # Unbound,
                            undoInfo'[x].i_type # undoInfo[d].i_type
                     PROVE  d \notin undoInfo'[x].i_binding.deps
        OBVIOUS
      <4>2. CASE x = c
        BY <3>4, <4>1, <4>2, OnePairMerged DEF MergeStep
      <4>3. CASE x # c
        BY <3>2, <4>1, <4>3 DEF MergeStep, NoInterfaceNeeds
      <4> QED BY <4>2, <4>3
    <3> QED BY <3>1, <3>2, <3>5 DEF NoInterfaceNeeds
  <2> QED BY <2>1, <2>2
<1>5. UndoneAreDeclared'
  BY <1>1, <1>4 DEF UndoneAreDeclared, NoInterfaceNeeds
<1>6. ASSUME NEW w \in Type, NEW d \in Type, undoInfo'[w] # Unbound,
             Merges(undoInfo'[w].i_binding, d) \/ Merges(undoInfo'[w].c_binding, d)
      PROVE  /\ undoInfo'[d] # Unbound /\ d # w
             /\ undoInfo'[d].i_type \in {w, undoInfo'[w].i_type}
  <2>1. CASE w = c
    <3>1. /\ phase = "undoable" /\ undoInfo'[w].i_type = i
          /\ undoInfo'[w].i_binding = bindingDataMap[i]
          /\ undoInfo'[w].c_binding = bindingDataMap[c]
      BY <1>6, <2>1, OnePairMerged DEF MergeStep
    <3>2. Compressed(bindingDataMap, i, d) \/ Compressed(bindingDataMap, c, d)
      BY <1>6, <3>1 DEF Compressed, MergeStep
    <3>3. undoInfo[d] # Unbound /\ undoInfo[d].i_type \in {c, i}
      BY <3>1, <3>2 DEF Loop, MergedAreDeclared
    <3>4. d # c /\ undoInfo'[d] = undoInfo[d]
      BY <3>3, OnePairMerged DEF MergeStep
    <3> QED BY <2>1, <3>1, <3>3, <3>4
  <2>2. CASE w # c
    <3>1. undoInfo'[w] = undoInfo[w]
      BY <2>2 DEF MergeStep
    <3>2. /\ undoInfo[d] # Unbound /\ d # w
          /\ undoInfo[d].i_type \in {w, undoInfo[w].i_type}
      BY <1>6, <3>1 DEF Loop, MergedBefore
    <3>3. d # c
      BY <3>2, OnePairMerged
    <3> QED BY <3>1, <3>2, <3>3 DEF MergeStep
  <2> QED BY <2>1, <2>2
<1>7. MergedBefore(undoInfo')
  BY <1>6 DEF MergedBefore
<1> QED BY <1>3, <1>5, <1>7

(* One pass of the loop.                                                      *)
LEMMA PairMerged ==
  ASSUME TypeInv, CompressionInv, CompressBinding
  PROVE  CompressionInv'
<1>1. /\ status = "compressing" /\ status' = "compressing"
      /\ UNCHANGED <<prog, phase, base, stack, inProgress, fullyExpanded,
                     multibindingsVector>>
  BY DEF CompressBinding, expansionVars, storageVars
<1>2. Started' = Started
  BY <1>1 DEF Started
<1>3. /\ Declared' = Declared /\ DeclaredCompressed' = DeclaredCompressed
      /\ DeclaredMultibindings' = DeclaredMultibindings
  BY <1>1, <1>2, StartedStays
<1>4. PICK c \in Type, i \in Type : MergeStep(c, i)
  BY CompressBindingMerges
<1>5. Loop /\ PendingInv /\ StoredInv
  BY <1>1 DEF CompressionInv, MergingInv, Loop
<1>6. MergingInv'
  <2>1. MergedAreFree' /\ WaitingAreFree' /\ MergedAreDeclared' /\ UndoneAreDeclared'
        /\ MergedBefore(undoInfo')
    BY <1>1, <1>2, <1>4, <1>5, MergedStayFree, WaitingStayFree, MergedStayDeclared
  <2>2. MergedBefore(undoInfo)' = MergedBefore(undoInfo')
    BY DEF MergedBefore
  <2> QED BY <2>1, <2>2 DEF MergingInv
<1>7. PendingInv'
  <2>1. phase # "add_to"
    <3>1. compressedBindings[c] # Unbound
      BY <1>4 DEF MergeStep, IsBound
    <3> QED BY <1>5, <3>1 DEF PendingInv, NothingBound
  <2>2. ASSUME NEW d \in Type, IsBound(compressedBindings, d)'
        PROVE  /\ compressedBindings'[d] \in DeclaredCompressed
               /\ compressedBindings'[d].c_type = d
    <3>1. d # c /\ compressedBindings'[d] = compressedBindings[d]
      BY <1>4, <2>2 DEF MergeStep, IsBound
    <3> QED BY <1>5, <2>2, <3>1 DEF PendingInv, IsBound
  <2> QED BY <1>1, <1>3, <1>5, <2>1, <2>2 DEF PendingInv
<1>8. StoredInv'
  <2>1. \A e : Occurs(stack', e) = Occurs(stack, e)
    BY <1>1 DEF Occurs
  <2> QED BY <1>1, <1>2, <1>3, <1>5, <2>1, StoredStays
<1> QED BY <1>1, <1>6, <1>7, <1>8
        DEF CompressionInv, CompressionIsLicensed, InterfaceKeepsItsClass, GraphIsBuilt

-----------------------------------------------------------------------------
(* The graph that the compression leaves.                                     *)
LEMMA MergedGraph ==
  ASSUME TypeInv, BindingInv, CompressionInv, status = "compressing", phase # "add_to",
         UNCHANGED <<prog, phase>>, Started' = Started, graph' = bindingDataMap
  PROVE  (CompressionIsLicensed /\ InterfaceKeepsItsClass)'
<1>1. /\ MergedAreFree /\ MergedAreDeclared /\ AllAgree(Declared)
  BY DEF CompressionInv, MergingInv, BindingInv, CompressingInv
<1>2. /\ Declared' = Declared /\ BindsAreDeclared' = BindsAreDeclared
      /\ DeclaredMultibindings' = DeclaredMultibindings /\ Exposed' = Exposed
  BY StartedStays DEF Exposed
<1>3. \A i, c : IsCompressed(i, c)' <=> Compressed(bindingDataMap, i, c)
  BY DEF IsCompressed, Compressed, Merges, IsBound
<1>4. ASSUME NEW i \in Type, NEW c \in Type, Compressed(bindingDataMap, i, c)
      PROVE  /\ \A x \in Type : IsBound(bindingDataMap, x)
                => c \notin bindingDataMap[x].deps
             /\ ~IsBound(bindingDataMap, c)
             /\ Free(c)
             /\ BindsAreDeclared => OnlyBoundTo(i, c)
  <2>1. Merged(c) /\ PairDeclared(i, c)
    BY <1>1, <1>4 DEF Merged, MergedAreDeclared
  <2> QED BY <1>1, <2>1, PairIsOnlyBound DEF MergedAreFree, NotNeeded
<1>5. CompressionIsLicensed'
  <2>1. DeclaredWhenMerging' = DeclaredMultibindings
    BY <1>2 DEF DeclaredWhenMerging
  <2> QED BY <1>2, <1>3, <1>4, <2>1 DEF CompressionIsLicensed, Free, IsBound
<1>6. ASSUME NEW i \in Type, NEW c \in Type, Compressed(bindingDataMap, i, c),
             BindsAreDeclared
      PROVE  LET binds == {e \in Declared : e.type = i}
             IN binds # {} /\ \A e \in binds : e.create.fn = "bind" /\ e.deps = {c}
  <2>1. OnlyBoundTo(i, c)
    BY <1>4, <1>6
  <2>2. PICK b : b = Bind(i, c)[1]
    OBVIOUS
  <2>3. b \in Declared /\ b.type = i
    BY <2>1, <2>2, BindEntry DEF OnlyBoundTo
  <2> QED BY <2>1, <2>3 DEF OnlyBoundTo, IsBind
<1>7. InterfaceKeepsItsClass'
  BY <1>2, <1>3, <1>6 DEF InterfaceKeepsItsClass, CompressesDeclaredBind
<1> QED BY <1>5, <1>7

(* The storage of an injector that is built on nothing.                       *)
LEMMA PermanentBuilt ==
  ASSUME TypeInv, BindingInv, CompressionInv, FinishPermanent
  PROVE  CompressionInv'
<1>1. /\ status = "compressing" /\ status' = "ready" /\ phase = "permanent"
      /\ compressedBindings = NothingBound /\ graph' = bindingDataMap
      /\ UNCHANGED <<prog, phase, stack, inProgress, fullyExpanded, compressedBindings,
                     multibindingsVector, base>>
  BY DEF FinishPermanent, FinishedCompression, expansionVars
<1>2. Started' = Started
  BY <1>1 DEF Started
<1>3. /\ Declared' = Declared /\ DeclaredCompressed' = DeclaredCompressed
      /\ DeclaredMultibindings' = DeclaredMultibindings
  BY <1>1, <1>2, StartedStays
<1>4. PendingInv'
  BY <1>1, <1>3 DEF CompressionInv, PendingInv, IsBound
<1>5. StoredInv'
  <2>1. \A e : Occurs(stack', e) = Occurs(stack, e)
    BY <1>1 DEF Occurs
  <2> QED BY <1>1, <1>2, <1>3, <2>1, StoredStays DEF CompressionInv
<1>6. (CompressionIsLicensed /\ InterfaceKeepsItsClass)'
  BY <1>1, <1>2, MergedGraph
<1> QED BY <1>1, <1>4, <1>5, <1>6 DEF CompressionInv, MergingInv

(* The normalized component remembers the pairs that were merged.             *)
LEMMA NormalizedBuilt ==
  ASSUME TypeInv, ExpansionInv, BindingInv, CompressionInv, FinishUndoable
  PROVE  CompressionInv'
<1>1. /\ status = "compressing" /\ status' = "ready" /\ phase = "undoable"
      /\ compressedBindings = NothingBound /\ graph' = bindingDataMap
      /\ base'.bindings = bindingDataMap /\ base'.undo = undoInfo
      /\ base'.fullyExpanded = fullyExpanded /\ fullyExpanded' = {}
      /\ base = EmptyStorage /\ stack = <<>>
      /\ UNCHANGED <<prog, phase, stack, inProgress, compressedBindings,
                     multibindingsVector>>
  BY DEF FinishUndoable, FinishedCompression, ExpansionInv, EmptyWhenNotRunning
<1>2. Started' = Started
  BY <1>1 DEF Started, EmptyStorage
<1>3. /\ Declared' = Declared /\ DeclaredCompressed' = DeclaredCompressed
      /\ DeclaredMultibindings' = DeclaredMultibindings
      /\ BindsAreDeclared' = BindsAreDeclared
  BY <1>1, <1>2, StartedStays
<1>4. PendingInv'
  BY <1>1, <1>3 DEF CompressionInv, PendingInv, IsBound
<1>5. /\ MergedAreFree /\ MergedAreDeclared /\ UndoneAreDeclared
      /\ MergedBefore(undoInfo) /\ AllAgree(Declared)
  BY <1>1 DEF CompressionInv, MergingInv, BindingInv, CompressingInv
<1>6. ASSUME NEW c \in Type, undoInfo[c] # Unbound
      PROVE  /\ Free(c)
             /\ NotNeeded(bindingDataMap, c, {})
             /\ NoClassNeeds(undoInfo, c, c)
             /\ NoInterfaceNeeds(undoInfo, c, undoInfo[c].i_type)
             /\ BindsAreDeclared =>
                  OnlyBoundTo(undoInfo[c].i_type, c) /\ IsMade(c)
  <2>1. Merged(c)
    BY <1>6 DEF Merged
  <2>2. PairDeclared(undoInfo[c].i_type, c)
    BY <1>5, <1>6 DEF UndoneAreDeclared
  <2>3. BindsAreDeclared => OnlyBoundTo(undoInfo[c].i_type, c) /\ IsMade(c)
    BY <1>5, <2>2, PairIsOnlyBound
  <2> QED BY <1>5, <1>6, <2>1, <2>3 DEF MergedAreFree, UndoneAreDeclared
<1>7. ASSUME NEW i \in Type, NEW c \in Type, Compressed(bindingDataMap, i, c)
      PROVE  /\ undoInfo[c] # Unbound /\ undoInfo[c].i_type = i
             /\ BindsAreDeclared => OnlyBoundTo(i, c)
  BY <1>1, <1>5, <1>6, <1>7 DEF MergedAreDeclared
<1>8. ASSUME BindsAreDeclared PROVE PairsAreDisjoint'
  <2>1. SUFFICES ASSUME NEW c \in Type, NEW d \in Type,
                        undoInfo[c] # Unbound, undoInfo[d] # Unbound,
                        {c, undoInfo[c].i_type} \cap {d, undoInfo[d].i_type} # {}
                 PROVE  c = d
    BY <1>1 DEF PairsAreDisjoint, Pair
  <2> QED BY <1>6, <1>8, <2>1, PairsShareNothing
<1>9. StoredInv'
  <2>1. \A c \in Type : base'.undo[c] # Unbound =>
          /\ NotNeeded(base.bindings, c, {})'
          /\ NoClassNeeds(base.undo, c, c)'
          /\ NoInterfaceNeeds(base.undo, c, base.undo[c].i_type)'
    BY <1>1, <1>6 DEF NotNeeded, NoClassNeeds, NoInterfaceNeeds, IsBound
  <2>2. \A i, c : Compressed(base.bindings, i, c)' <=> Compressed(bindingDataMap, i, c)
    BY <1>1 DEF Compressed, IsBound
  <2>3. \A i, c \in Type : Compressed(base.bindings, i, c)' =>
          /\ base'.undo[c] # Unbound /\ base'.undo[c].i_type = i
          /\ BindsAreDeclared' =>
               /\ Bind(i, c)[1] \in Declared'
               /\ \A e \in Declared' : e.type = i => Occurs(stack', e) \/ IsBind(e, c)
    BY <1>1, <1>3, <1>7, <2>2 DEF OnlyBoundTo
  <2>4. MergedBefore(base.undo)'
    BY <1>1, <1>5 DEF MergedBefore
  <2>5. ASSUME NEW c \in Type, base'.undo[c] # Unbound
        PROVE  NotNeededInBase(c)'
    <3>1. Free(c) /\ Exposed = prog.baseExposed
      BY <1>1, <1>6, <2>5 DEF Exposed
    <3>2. UNION {MultibindingsOf(d) : d \in fullyExpanded} \subseteq DeclaredMultibindings
      BY DEF DeclaredMultibindings, Started
    <3>3. \A d : MultibindingsOf(d)' = MultibindingsOf(d)
      BY <1>1 DEF MultibindingsOf, Entries
    <3> QED BY <1>1, <3>1, <3>2, <3>3 DEF NotNeededInBase, Free
  <2> QED BY <1>3, <1>8, <2>1, <2>3, <2>4, <2>5 DEF StoredInv
<1>10. (CompressionIsLicensed /\ InterfaceKeepsItsClass)'
  BY <1>1, <1>2, MergedGraph
<1> QED BY <1>1, <1>4, <1>9, <1>10 DEF CompressionInv, MergingInv

(* A merged binding of the injector's graph is one of the normalized          *)
(* component, or one that is brought back and had been merged earlier.        *)
LEMMA MergedIsRemembered ==
  ASSUME TypeInv, BindingInv, StoredInv, status = "running",
         NEW w \in LastUndone, NEW i \in Type, NEW c \in Type,
         MergedBinding(i, w) # Unbound, Merges(MergedBinding(i, w), c)
  PROVE  /\ base.undo[c] # Unbound
         /\ i \notin Undone =>
              Compressed(base.bindings, i, c) /\ ~IsBound(bindingDataMap, i)
         /\ i \in Undone => w[i] # c /\ base.undo[c].i_type \in Pair(w[i])
<1>1. CASE i \in Undone
  <2>1. /\ w[i] \in Type /\ base.undo[w[i]] # Unbound
        /\ \/ MergedBinding(i, w).create = base.undo[w[i]].i_binding.create
           \/ MergedBinding(i, w).create = base.undo[w[i]].c_binding.create
    BY <1>1, BroughtBack DEF TypeInv, TypeOK
  <2>2. Merges(base.undo[w[i]].i_binding, c) \/ Merges(base.undo[w[i]].c_binding, c)
    BY <2>1 DEF Merges
  <2> QED BY <1>1, <2>1, <2>2 DEF StoredInv, MergedBefore, Pair
<1>2. CASE i \notin Undone
  <2>1. IsDeclared(bindingDataMap, i)
    BY DEF BindingInv, HandlingInv
  <2>2. IsBound(bindingDataMap, i) => bindingDataMap[i].create.fn \notin CompressedFn
    BY <2>1, DeclaredNotMerged DEF IsDeclared
  <2>3. IsBound(bindingDataMap, i) => MergedBinding(i, w) = bindingDataMap[i]
    BY <1>2 DEF MergedBinding
  <2>4. ~IsBound(bindingDataMap, i)
    BY <2>2, <2>3 DEF Merges
  <2>5. Compressed(base.bindings, i, c)
    BY <1>2, <2>4 DEF MergedBinding, Compressed, IsBound
  <2> QED BY <1>2, <2>4, <2>5 DEF StoredInv
<1> QED BY <1>1, <1>2

(* When no pairs share a type it is the former, and is not undone.            *)
LEMMA MergedComesFromBase ==
  ASSUME TypeInv, BindingInv, StoredInv, PairsAreDisjoint, status = "running",
         NEW w \in LastUndone, NEW i \in Type, NEW c \in Type,
         MergedBinding(i, w) # Unbound, Merges(MergedBinding(i, w), c)
  PROVE  /\ Compressed(base.bindings, i, c)
         /\ i \notin Undone /\ c \notin CompressionsToUndo
         /\ ~IsBound(bindingDataMap, i)
<1>1. i \notin Undone
  <2>1. SUFFICES ASSUME i \in Undone PROVE FALSE
    OBVIOUS
  <2>2. w[i] # c /\ base.undo[c] # Unbound /\ base.undo[c].i_type \in Pair(w[i])
    BY <2>1, MergedIsRemembered
  <2>3. w[i] \in Type /\ base.undo[w[i]] # Unbound
    BY <2>1, BroughtBack DEF TypeInv, TypeOK
  <2> QED BY <2>2, <2>3 DEF PairsAreDisjoint, Pair
<1>2. Compressed(base.bindings, i, c) /\ ~IsBound(bindingDataMap, i)
  BY <1>1, MergedIsRemembered
<1>3. base.undo[c].i_type = i
  BY <1>2 DEF StoredInv
<1>4. c \notin CompressionsToUndo
  BY <1>1, <1>3 DEF Undone, Pair
<1> QED BY <1>1, <1>2, <1>4

(* Nothing in the graph of that injector needs the class: what does need it   *)
(* would have undone the compression.                                         *)
LEMMA NothingNeedsMerged ==
  ASSUME TypeInv, StoredInv, NEW w \in LastUndone, NEW i \in Type, NEW c \in Type,
         Compressed(base.bindings, i, c), i \notin Undone,
         c \notin CompressionsToUndo, ~IsBound(bindingDataMap, i),
         NEW x \in Type, MergedBinding(x, w) # Unbound
  PROVE  c \notin MergedBinding(x, w).deps
<1>1. /\ base.undo[c] # Unbound /\ base.undo[c].i_type = i
      /\ NotNeeded(base.bindings, c, {})
      /\ NoClassNeeds(base.undo, c, c)
      /\ NoInterfaceNeeds(base.undo, c, i)
  BY DEF StoredInv
<1>2. ~NeededByOther(c, i)
  BY <1>1 DEF CompressionsToUndo
<1>3. CASE x \in Undone
  <2>1. /\ w[x] \in CompressionsToUndo /\ w[x] \in Type /\ base.undo[w[x]] # Unbound
        /\ \/ /\ base.undo[w[x]].i_type = x
              /\ MergedBinding(x, w).deps = base.undo[w[x]].i_binding.deps
           \/ MergedBinding(x, w).deps = base.undo[w[x]].c_binding.deps
    BY <1>3, BroughtBack DEF TypeInv, TypeOK
  <2>2. x # i /\ w[x] # c
    BY <1>3, <2>1
  <2>3. c \notin base.undo[w[x]].c_binding.deps
    BY <1>1, <2>1, <2>2 DEF NoClassNeeds
  <2>4. base.undo[w[x]].i_type = x => c \notin base.undo[w[x]].i_binding.deps
    BY <1>1, <2>1, <2>2 DEF NoInterfaceNeeds
  <2> QED BY <2>1, <2>3, <2>4
<1>4. CASE x \notin Undone /\ IsBound(bindingDataMap, x)
  <2>1. MergedBinding(x, w) = bindingDataMap[x] /\ x # i
    BY <1>4 DEF MergedBinding
  <2> QED BY <1>2, <1>4, <2>1 DEF NeededByOther
<1>5. CASE x \notin Undone /\ ~IsBound(bindingDataMap, x)
  <2>1. MergedBinding(x, w) = base.bindings[x]
    BY <1>5 DEF MergedBinding
  <2> QED BY <1>1, <2>1 DEF NotNeeded, IsBound
<1> QED BY <1>3, <1>4, <1>5

(* The injector built on a normalized component.                              *)
LEMMA InjectorBuilt ==
  ASSUME TypeInv, BindingInv, CompressionInv, FinishAddTo
  PROVE  CompressionInv'
<1>1. /\ status = "running" /\ status' = "ready" /\ phase = "add_to" /\ stack = <<>>
      /\ UNCHANGED <<prog, phase, stack, inProgress, fullyExpanded, base,
                     compressedBindings, multibindingsVector>>
  BY DEF FinishAddTo, expansionVars
<1>2. Started' = Started
  BY <1>1 DEF Started
<1>3. /\ Declared' = Declared /\ DeclaredCompressed' = DeclaredCompressed
      /\ BindsAreDeclared' = BindsAreDeclared
  BY <1>1, <1>2, StartedStays
<1>4. PendingInv /\ StoredInv
  BY DEF CompressionInv
<1>5. PendingInv'
  BY <1>1, <1>3, <1>4 DEF PendingInv, IsBound
<1>6. StoredInv'
  <2>1. \A e : Occurs(stack', e) = Occurs(stack, e)
    BY <1>1 DEF Occurs
  <2> QED BY <1>1, <1>2, <1>3, <1>4, <2>1, StoredStays
<1>7. PICK w \in LastUndone : graph' = [t \in Type |-> MergedBinding(t, w)]
  BY DEF FinishAddTo
<1>8. ASSUME NEW i \in Type, NEW c \in Type, IsCompressed(i, c)', PairsAreDisjoint
      PROVE  /\ Compressed(base.bindings, i, c)
             /\ \A x \in Type : IsBound(graph, x)' => c \notin graph'[x].deps
  <2>1. MergedBinding(i, w) # Unbound /\ Merges(MergedBinding(i, w), c)
    BY <1>7, <1>8 DEF IsCompressed, IsBound, Merges
  <2>2. /\ Compressed(base.bindings, i, c)
        /\ i \notin Undone /\ c \notin CompressionsToUndo
        /\ ~IsBound(bindingDataMap, i)
    BY <1>1, <1>4, <1>8, <2>1, MergedComesFromBase
  <2>3. \A x \in Type : MergedBinding(x, w) # Unbound => c \notin MergedBinding(x, w).deps
    BY <1>4, <2>2, NothingNeedsMerged
  <2> QED BY <1>7, <2>2, <2>3 DEF IsBound
<1>9. PairsAreDisjoint' = PairsAreDisjoint
  BY <1>1 DEF PairsAreDisjoint, Pair
<1>10. CompressionIsLicensed'
  <2>1. ASSUME NEW i \in Type, NEW c \in Type, IsCompressed(i, c)'
        PROVE  NotNeededInBase(c)
    <3>1. MergedBinding(i, w) # Unbound /\ Merges(MergedBinding(i, w), c)
      BY <1>7, <2>1 DEF IsCompressed, IsBound, Merges
    <3>2. base.undo[c] # Unbound
      BY <1>1, <1>4, <3>1, MergedIsRemembered
    <3> QED BY <1>4, <3>2 DEF StoredInv
  <2>2. /\ Exposed' = prog.baseExposed
        /\ DeclaredWhenMerging' = UNION {MultibindingsOf(d) : d \in base.fullyExpanded}
    BY <1>1 DEF Exposed, DeclaredWhenMerging, MultibindingsOf, Entries
  <2> QED BY <1>1, <1>8, <1>9, <2>1, <2>2 DEF CompressionIsLicensed, NotNeededInBase
<1>11. ASSUME BindsAreDeclared, NEW i \in Type, NEW c \in Type, IsCompressed(i, c)'
       PROVE  LET binds == {e \in Declared : e.type = i}
              IN binds # {} /\ \A e \in binds : e.create.fn = "bind" /\ e.deps = {c}
  <2>1. Compressed(base.bindings, i, c)
    BY <1>4, <1>8, <1>11 DEF StoredInv
  <2>2. /\ Bind(i, c)[1] \in Declared
        /\ \A e \in Declared : e.type = i => IsBind(e, c)
    BY <1>1, <1>4, <1>11, <2>1 DEF StoredInv, Occurs
  <2>3. PICK b : b = Bind(i, c)[1]
    OBVIOUS
  <2>4. b \in Declared /\ b.type = i
    BY <2>2, <2>3, BindEntry
  <2> QED BY <2>2, <2>4 DEF IsBind
<1>12. InterfaceKeepsItsClass'
  BY <1>3, <1>11 DEF InterfaceKeepsItsClass, CompressesDeclaredBind
<1> QED BY <1>1, <1>5, <1>6, <1>10, <1>12 DEF CompressionInv, MergingInv

-----------------------------------------------------------------------------
(* Nothing is merged in an empty storage.                                     *)
LEMMA EmptyStored == base = EmptyStorage => StoredInv
BY DEF EmptyStorage, NothingBound, StoredInv, MergedBefore, Compressed, IsBound,
       PairsAreDisjoint

(* The stack of a toplevel component has its one install.                     *)
LEMMA InstalledStack ==
  ASSUME NEW s, NEW c, s = Install(c)
  PROVE  \A k \in DOMAIN s : s[k].kind \notin {"compressed"} \cup BindingKind
<1>1. s = <<[kind |-> "lazy", comp |-> c]>>
  BY DEF Install
<1>2. ASSUME NEW k \in DOMAIN s PROVE s[k].kind = "lazy"
  BY <1>1, <1>2
<1> QED BY <1>2 DEF BindingKind

(* The start of an injector on a normalized component.                        *)
LEMMA AddToStartedCompressing ==
  ASSUME TypeInv, ExpansionInv, CompressionInv, StartAddTo
  PROVE  CompressionInv'
<1>1. /\ status = "ready" /\ status' = "running" /\ phase' = "add_to"
      /\ stack = <<>> /\ stack' = Install(prog.root)
      /\ UNCHANGED <<prog, inProgress, fullyExpanded, base, compressedBindings>>
  BY DEF StartAddTo, storageVars, ExpansionInv, EmptyWhenNotRunning
<1>2. Started' = Started
  BY <1>1 DEF Started
<1>3. Declared' = Declared
  BY <1>1, <1>2, StartedStays
<1>4. PendingInv /\ StoredInv
  BY DEF CompressionInv
<1>5. PendingInv'
  <2>1. compressedBindings' = NothingBound
    BY <1>1, <1>4 DEF PendingInv
  <2>2. \A k \in DOMAIN stack' : stack'[k].kind # "compressed"
    BY <1>1, InstalledStack
  <2> QED BY <1>1, <2>1, <2>2 DEF PendingInv, IsBound, NothingBound
<1>6. StoredInv'
  <2>1. \A e : ~Occurs(stack, e)
    BY <1>1 DEF Occurs
  <2> QED BY <1>1, <1>2, <1>3, <1>4, <2>1, StoredStays
<1> QED BY <1>1, <1>5, <1>6 DEF CompressionInv, MergingInv, CompressionIsLicensed,
                                InterfaceKeepsItsClass, GraphIsBuilt

(* Nothing is declared, and nothing is merged, before the first entry.        *)
LEMMA CompressionInit == Init => CompressionInv
<1> SUFFICES ASSUME Init PROVE CompressionInv
  OBVIOUS
<1>1. /\ status = "running" /\ inProgress = {} /\ fullyExpanded = {}
      /\ base = EmptyStorage /\ compressedBindings = NothingBound
      /\ \E c : stack = Install(c)
  BY DEF Init
<1>2. DeclaredMultibindings = {}
  BY <1>1 DEF DeclaredMultibindings, Started, EmptyStorage
<1>3. \A k \in DOMAIN stack : stack[k].kind # "compressed"
  BY <1>1, InstalledStack
<1>4. PendingInv
  BY <1>1, <1>2, <1>3 DEF PendingInv, IsBound, NothingBound
<1> QED BY <1>1, <1>4, EmptyStored DEF CompressionInv, MergingInv,
                CompressionIsLicensed, InterfaceKeepsItsClass, GraphIsBuilt

(* Every step keeps the invariant.                                            *)
LEMMA CompressionNext ==
  TypeInv /\ ExpansionInv /\ BindingInv /\ CompressionInv /\ [Next]_vars
       => CompressionInv'
<1> SUFFICES ASSUME TypeInv, ExpansionInv, BindingInv, CompressionInv, [Next]_vars
             PROVE  CompressionInv'
  OBVIOUS
<1>1. CASE HandleBinding
  BY <1>1, BindingHandledCompressing
<1>2. CASE HandleInconsistentBinding
  BY <1>2, FailKeepsCompressionInv DEF HandleInconsistentBinding, Handling, Errors
<1>3. CASE HandleCompressedBinding
  BY <1>3, PairHandled
<1>4. CASE HandleMultibinding \/ HandleReplaced \/ HandleReplacedAgain
  BY <1>4, TwoPopped
<1>5. CASE SkipLazyComponent
  <2>1. /\ status = "running" /\ status' = "running" /\ stack # <<>>
        /\ Top.kind = "lazy" /\ stack' = Pop(1)
        /\ UNCHANGED <<prog, phase, base, compressedBindings, multibindingsVector,
                       inProgress, fullyExpanded>>
    BY <1>5 DEF SkipLazyComponent, Handling, bindingVars, storageVars
  <2>2. Started' = Started
    BY <2>1 DEF Started
  <2> QED BY <2>1, <2>2, OthersPopped DEF BindingKind, MultibindingKind
<1>6. CASE PerformComponentReplacement
  <2>1. PICK d : d = [kind |-> "lazy", comp |-> Replacement(Top.comp)]
    OBVIOUS
  <2>2. /\ status = "running" /\ status' = "running" /\ stack # <<>>
        /\ Top.kind = "lazy" /\ stack' = ReplaceTop(d)
        /\ Replacement(Top.comp) # NoComponent
        /\ UNCHANGED <<prog, phase, base, compressedBindings, multibindingsVector,
                       inProgress, fullyExpanded>>
    BY <1>6, <2>1 DEF PerformComponentReplacement, Handling, bindingVars, storageVars
  <2>3. d \in Entry /\ d.kind = "lazy"
    <3>1. Top.comp \in Component
      BY <1>6, HandledEntry DEF PerformComponentReplacement, ComponentKind
    <3>2. Replacement(Top.comp) \in Component
      BY <2>2, <3>1, ReplacementType DEF TypeInv
    <3> QED BY <2>1, <3>2 DEF Entry, ComponentEntry, ComponentKind
  <2>4. Started' = Started
    BY <2>2 DEF Started
  <2> QED BY <2>2, <2>3, <2>4, OthersPopped DEF BindingKind, MultibindingKind
<1>7. CASE HandleEndMarker
  <2>1. /\ status = "running" /\ status' = "running" /\ stack # <<>>
        /\ Top.kind = "end_marker" /\ stack' = Pop(1)
        /\ inProgress' = inProgress \ {Top.comp}
        /\ fullyExpanded' = fullyExpanded \cup {Top.comp}
        /\ UNCHANGED <<prog, phase, base, compressedBindings, multibindingsVector>>
    BY <1>7 DEF HandleEndMarker, Handling, bindingVars, storageVars
  <2>2. stack \in Seq(Entry)
    BY DEF TypeInv, TypeOK
  <2>3. Top.comp \in inProgress
    BY <2>1, <2>2, TopProperties
       DEF ExpansionInv, MarkersMatchInProgress, MarkersMatch, Top
  <2>4. Started' = Started
    BY <2>1, <2>3 DEF Started
  <2> QED BY <2>1, <2>4, OthersPopped DEF BindingKind, MultibindingKind
<1>8. CASE HandleReplacedTooLate
  BY <1>8, FailKeepsCompressionInv DEF HandleReplacedTooLate, Handling, Errors
<1>9. CASE HandleReplacedDifferently
  BY <1>9, FailKeepsCompressionInv DEF HandleReplacedDifferently, Handling, Errors
<1>10. CASE DetectInstallationLoop
  BY <1>10, FailKeepsCompressionInv DEF DetectInstallationLoop, Handling, Errors
<1>11. CASE CompressMissingBinding
  BY <1>11, FailKeepsCompressionInv DEF CompressMissingBinding, Errors
<1>12. CASE ExpandLazyComponent
  BY <1>12, ExpandedCompressing
<1>13. CASE StartCompression
  BY <1>13, MergingStarted
<1>14. CASE CompressBinding
  BY <1>14, PairMerged
<1>15. CASE FinishPermanent
  BY <1>15, PermanentBuilt
<1>16. CASE FinishUndoable
  BY <1>16, NormalizedBuilt
<1>17. CASE FinishAddTo
  BY <1>17, InjectorBuilt
<1>18. CASE StartAddTo
  BY <1>18, AddToStartedCompressing
<1>19. CASE DestroyNormalizedComponent
  <2>1. /\ status = "ready" /\ phase = "add_to" /\ phase' = phase
        /\ status' = "destroyed" /\ stack = <<>> /\ stack' = <<>>
        /\ base' = EmptyStorage /\ compressedBindings' = compressedBindings
    BY <1>19 DEF DestroyNormalizedComponent, expansionVars, bindingVars,
                 ExpansionInv, EmptyWhenNotRunning
  <2>2. PendingInv'
    BY <2>1 DEF CompressionInv, PendingInv, IsBound, NothingBound
  <2>3. StoredInv'
    BY <2>1 DEF EmptyStorage, NothingBound, StoredInv, MergedBefore, Compressed,
                IsBound, PairsAreDisjoint
  <2> QED BY <2>1, <2>2, <2>3 DEF CompressionInv, MergingInv, CompressionIsLicensed,
                                  InterfaceKeepsItsClass, GraphIsBuilt
<1>20. CASE Terminated \/ UNCHANGED vars
  <2>1. UNCHANGED <<prog, phase, status, stack, inProgress, fullyExpanded, graph,
                    bindingDataMap, compressedBindings, undoInfo, base,
                    multibindingsVector>>
    BY <1>20 DEF Terminated, vars, expansionVars, bindingVars, storageVars
  <2>2. Started' = Started
    BY <2>1 DEF Started
  <2>3. /\ Declared' = Declared /\ DeclaredCompressed' = DeclaredCompressed
        /\ DeclaredMultibindings' = DeclaredMultibindings
        /\ BindsAreDeclared' = BindsAreDeclared
    BY <2>1, <2>2, StartedStays
  <2>4. PendingInv'
    BY <2>1, <2>3 DEF CompressionInv, PendingInv, IsBound
  <2>5. StoredInv'
    BY <2>1, <2>2, <2>3, StoredStays DEF CompressionInv
  <2>6. MergingInv'
    <3>1. \A c : Free(c)' = Free(c)
      BY <2>1, <2>3 DEF Free, Exposed
    <3>2. \A i, c : PairDeclared(i, c)' = PairDeclared(i, c)
      BY <2>3 DEF PairDeclared
    <3>3. \A i, c : /\ Compressed(bindingDataMap, i, c)' = Compressed(bindingDataMap, i, c)
                    /\ Merged(c)' = Merged(c)
      BY <2>1 DEF Merged, Compressed, IsBound
    <3>4. /\ MergedAreFree' = MergedAreFree
          /\ WaitingAreFree' = WaitingAreFree
      BY <2>1, <3>1, <3>3 DEF MergedAreFree, WaitingAreFree, IsBound, NotNeeded,
                              NoClassNeeds, NoInterfaceNeeds
    <3>5. /\ MergedAreDeclared' = MergedAreDeclared
          /\ UndoneAreDeclared' = UndoneAreDeclared
          /\ MergedBefore(undoInfo)' = MergedBefore(undoInfo)
      BY <2>1, <3>2, <3>3 DEF MergedAreDeclared, UndoneAreDeclared, MergedBefore,
                              NoInterfaceNeeds
    <3> QED BY <2>1, <3>4, <3>5 DEF CompressionInv, MergingInv
  <2>7. /\ CompressionIsLicensed' = CompressionIsLicensed
        /\ InterfaceKeepsItsClass' = InterfaceKeepsItsClass
    BY <2>1, <2>3 DEF CompressionIsLicensed, InterfaceKeepsItsClass, GraphIsBuilt,
                      IsCompressed, IsBound, PairsAreDisjoint, Pair, Exposed,
                      CompressesDeclaredBind, DeclaredWhenMerging, MultibindingsOf,
                      Entries
  <2> QED BY <2>4, <2>5, <2>6, <2>7 DEF CompressionInv
<1> QED BY <1>1, <1>2, <1>3, <1>4, <1>5, <1>6, <1>7, <1>8, <1>9, <1>10, <1>11, <1>12,
           <1>13, <1>14, <1>15, <1>16, <1>17, <1>18, <1>19, <1>20 DEF Next

(* The invariant holds in every state.                                        *)
LEMMA CompressionInvariant == Spec => []CompressionInv
<1>1. Init => TypeInv /\ ExpansionInv /\ BindingInv /\ CompressionInv
  BY TypeInvInit, ExpansionInvInit, BindingInit, CompressionInit
<1>2. TypeInv /\ ExpansionInv /\ BindingInv /\ CompressionInv /\ [Next]_vars
        => (TypeInv /\ ExpansionInv /\ BindingInv /\ CompressionInv)'
  BY TypeInvNext, ExpansionInvNext, BindingNext, CompressionNext
<1> QED BY <1>1, <1>2, PTL DEF Spec

(* CompressionIsLicensed, for every program: performBindingCompression merges *)
(* the binding of a class into that of its interface only when no other       *)
(* binding, multibinding or exposed type of the components at hand needs the  *)
(* class, in whatever order the unordered map yields the pairs.  In an        *)
(* injector built on a normalized component that still holds of what the      *)
(* normalized component has; and no binding of the whole graph needs a merged *)
(* class, normalizeBindingsAndAddTo having undone the merges that the new     *)
(* bindings object to, if no two pairs share a type.  It says nothing of the  *)
(* later multibindings and exposed types, for which the code undoes nothing.  *)
THEOREM OnlyLicensedCompressions == Spec => []CompressionIsLicensed
<1>1. CompressionInv => CompressionIsLicensed
  BY DEF CompressionInv
<1> QED BY CompressionInvariant, <1>1, PTL

(* InterfaceKeepsItsClass, for every program whose components bind each pair  *)
(* that they can compress: the class whose binding the interface gets is the  *)
(* one that the program bound it to, and this holds in the injector built on  *)
(* a normalized component too.                                                *)
THEOREM InterfacesKeepTheirClass == Spec => []InterfaceKeepsItsClass
<1>1. CompressionInv => InterfaceKeepsItsClass
  BY DEF CompressionInv
<1> QED BY CompressionInvariant, <1>1, PTL

-----------------------------------------------------------------------------
(* The create functions that construct a class in place, and those of         *)
(* providers, by themselves or merged into the binding of an interface.       *)
ConstructorFn == {"constructor", "compressed_constructor"}
ProviderFn == {"provider", "other_provider", "compressed_provider"}
MakingFn == ConstructorFn \cup ProviderFn

(* The classes that the bindings of a map, or those remembered for undoing a  *)
(* compression, make with one of the create functions fns.                    *)
Makes(b, c, fns) == b.create.fn \in fns /\ b.create.c = c
MadeIn(map, undo, fns) ==
  {c \in Type : \E t \in Type :
     \/ IsBound(map, t) /\ Makes(map[t], c, fns)
     \/ /\ undo[t] # Unbound
        /\ Makes(undo[t].i_binding, c, fns) \/ Makes(undo[t].c_binding, c, fns)}

(* The classes of the bindings declared so far and handled.                   *)
Handled(fns) ==
  {c \in Type : \E e \in Declared : Makes(e, c, fns) /\ ~Occurs(stack, e)}

(* What has to be reserved on top of what the normalized component brings.    *)
New(fns) == IF phase = "add_to" THEN MadeIn(bindingDataMap, NothingBound, fns)
            ELSE Handled(fns)

(* The allocator data a has more than b: room for an object of each type in   *)
(* C, a destroy slot for each one in P.                                       *)
One(t, S) == IF t \in S THEN 1 ELSE 0
Reserves(a, b, C, P) ==
  /\ \A t \in Type : a.types[t] >= b.types[t] + One(t, C)
  /\ IsFiniteSet(P)
  /\ a.external >= b.external + Cardinality(P)

(* A binding that is not merged is found under the class that it makes.       *)
InPlace(b, t) == b.create.fn \in MakingFn \ CompressedFn => b.create.c = t
AllInPlace(map, undo) ==
  \A t \in Type :
    /\ IsBound(map, t) => InPlace(map[t], t)
    /\ undo[t] # Unbound => /\ InPlace(undo[t].i_binding, undo[t].i_type)
                            /\ InPlace(undo[t].c_binding, t)

RunningReserved ==
  status \in {"running", "compressing"} =>
    Reserves(allocatorData, base.allocator, New(ConstructorFn), New(ProviderFn))

(* While pairs are merged, no class is made but those of the bindings         *)
(* declared, and none is merged into two interfaces.                          *)
MergedAreMade ==
  status = "compressing" =>
    /\ \A fns \in {ConstructorFn, ProviderFn} :
         MadeIn(bindingDataMap, undoInfo, fns) \subseteq Handled(fns)
    /\ AllInPlace(bindingDataMap, undoInfo)
    /\ \A i, j, c \in Type :
         Compressed(bindingDataMap, i, c) /\ Compressed(bindingDataMap, j, c) => i = j

(* The normalized component has room for what it makes, merged or undone, and *)
(* for its multibindings.                                                     *)
CountOf(s, t) ==
  Cardinality({i \in DOMAIN s : /\ s[i].kind = "multibinding_needs_allocation"
                                /\ s[i].type = t})
Counted(s) == [types |-> [t \in Type |-> CountOf(s, t)], external |-> 0]
StoredReserved ==
  /\ \A c \in Type : base.undo[c] # Unbound => ~IsBound(base.bindings, c)
  /\ AllInPlace(base.bindings, base.undo)
  /\ Reserves(base.allocator, Counted(base.multibindings),
              MadeIn(base.bindings, base.undo, ConstructorFn),
              MadeIn(base.bindings, base.undo, ProviderFn))

ReservationInv ==
  /\ RunningReserved
  /\ MergedAreMade
  /\ StoredReserved
  /\ AllocatorReserved

-----------------------------------------------------------------------------
(* A declared binding makes the class that it is bound to, in the way that    *)
(* its kind says.                                                             *)
LEMMA DeclaredMakes ==
  ASSUME TypeInv, NEW e \in Declared
  PROVE  /\ e.create.fn \notin CompressedFn /\ InPlace(e, e.type)
         /\ e.create.fn \in ConstructorFn => e.kind = "needs_allocation"
         /\ e.create.fn \in ProviderFn => e.kind = "needs_no_allocation"
<1>1. e.kind \in BindingKind /\ prog \in Program
  BY DeclaredEntry DEF TypeInv
<1>2. PICK d \in Component : \E k \in DOMAIN prog.body[d] : prog.body[d][k] = e
  BY DeclaredEntry
<1>3. /\ e.create.fn = "constructor" =>
           e.kind = "needs_allocation" /\ e.create.c = e.type
      /\ e.create.fn \in {"provider", "other_provider"} =>
           e.kind = "needs_no_allocation" /\ e.create.c = e.type
  BY <1>1, <1>2, MadeEntryAssumption
<1>4. e.create.fn \notin CompressedFn
  BY DeclaredNotMerged
<1> QED BY <1>3, <1>4 DEF InPlace, MakingFn, ConstructorFn, ProviderFn, CompressedFn

(* Less has to be reserved for less.                                          *)
LEMMA ReservesLess ==
  ASSUME NEW a \in AllocatorData, NEW b \in AllocatorData, NEW C, NEW P,
         Reserves(a, b, C, P), NEW D, D \subseteq C, NEW Q, Q \subseteq P
  PROVE  Reserves(a, b, D, Q)
<1>1. \A t : One(t, C) \in {0, 1} /\ One(t, D) \in {0, 1} /\ One(t, D) <= One(t, C)
  BY DEF One
<1>2. ASSUME NEW t \in Type PROVE a.types[t] >= b.types[t] + One(t, D)
  <2>1. a.types[t] \in Nat /\ b.types[t] \in Nat
    BY DEF AllocatorData
  <2>2. a.types[t] >= b.types[t] + One(t, C)
    BY DEF Reserves
  <2> QED BY <1>1, <2>1, <2>2
<1>3. IsFiniteSet(P) /\ a.external >= b.external + Cardinality(P)
  BY DEF Reserves
<1>4. /\ IsFiniteSet(Q) /\ Cardinality(Q) <= Cardinality(P)
      /\ Cardinality(Q) \in Nat /\ Cardinality(P) \in Nat
  BY <1>3, FS_Subset, FS_CardinalityType
<1>5. a.external \in Nat /\ b.external \in Nat
  BY DEF AllocatorData
<1> QED BY <1>2, <1>3, <1>4, <1>5 DEF Reserves

(* What handleBinding reserves for an entry of the kind k and the type t.     *)
LEMMA ReservesMore ==
  ASSUME NEW a \in AllocatorData, NEW b \in AllocatorData, NEW C, NEW P,
         Reserves(a, b, C, P), NEW t \in Type
  PROVE  /\ Reserves(AddType(a, t), b, C \cup {t}, P)
         /\ Reserves(AddExternallyAllocatedType(a), b, C, P \cup {t})
<1>1. /\ \A u \in Type : a.types[u] >= b.types[u] + One(u, C)
      /\ IsFiniteSet(P) /\ a.external >= b.external + Cardinality(P)
  BY DEF Reserves
<1>2. /\ a.external \in Nat /\ b.external \in Nat
      /\ \A u \in Type : a.types[u] \in Nat /\ b.types[u] \in Nat
  BY DEF AllocatorData
<1>3. /\ IsFiniteSet(P \cup {t}) /\ Cardinality(P) \in Nat
      /\ Cardinality(P \cup {t}) \in Nat
      /\ Cardinality(P \cup {t}) <= Cardinality(P) + 1
  <2>1. /\ IsFiniteSet(P \cup {t})
        /\ Cardinality(P \cup {t})
             = IF t \in P THEN Cardinality(P) ELSE Cardinality(P) + 1
    BY <1>1, FS_AddElement
  <2>2. Cardinality(P) \in Nat
    BY <1>1, FS_CardinalityType
  <2> QED BY <2>1, <2>2
<1>4. /\ AddType(a, t).external = a.external
      /\ \A u \in Type : AddType(a, t).types[u] = IF u = t THEN a.types[u] + 1 ELSE a.types[u]
      /\ AddExternallyAllocatedType(a).external = a.external + 1
      /\ AddExternallyAllocatedType(a).types = a.types
  BY DEF AddType, AddExternallyAllocatedType, AllocatorData
<1>5. ASSUME NEW u \in Type
      PROVE  AddType(a, t).types[u] >= b.types[u] + One(u, C \cup {t})
  <2>1. /\ One(u, C) \in {0, 1} /\ One(u, C \cup {t}) \in {0, 1}
        /\ u # t => One(u, C \cup {t}) = One(u, C)
    BY DEF One
  <2> QED BY <1>1, <1>2, <1>4, <2>1
<1>6. Reserves(AddType(a, t), b, C \cup {t}, P)
  BY <1>1, <1>4, <1>5 DEF Reserves
<1>7. Reserves(AddExternallyAllocatedType(a), b, C, P \cup {t})
  <2>1. AddExternallyAllocatedType(a).external >= b.external + Cardinality(P \cup {t})
    BY <1>1, <1>2, <1>3, <1>4
  <2> QED BY <1>1, <1>3, <1>4, <2>1 DEF Reserves
<1> QED BY <1>6, <1>7

(* The allocator data of the state, and of the storage.                       *)
LEMMA AllocatorTypes ==
  ASSUME TypeInv
  PROVE  allocatorData \in AllocatorData /\ base.allocator \in AllocatorData
BY DEF TypeInv, TypeOK, NormalizedComponentStorage

-----------------------------------------------------------------------------
(* The handlers of entries other than bindings, and the errors: no declared   *)
(* binding leaves the stack.                                                  *)
LEMMA HandledStays ==
  ASSUME prog' = prog,
         \A e \in Declared' : \/ Occurs(stack', e)
                              \/ e \in Declared /\ ~Occurs(stack, e)
  PROVE  \A fns : Handled(fns)' \subseteq Handled(fns)
BY DEF Handled, Makes

(* Where the graph is not there yet, nothing is said of it.                   *)
LEMMA NothingBuilt ==
  ASSUME status # "ready" PROVE AllocatorReserved
BY DEF AllocatorReserved, GraphIsBuilt

(* What is known of the storage depends on the storage only.                  *)
LEMMA StoredReservedStays ==
  ASSUME StoredReserved, base' = base
  PROVE  StoredReserved'
BY DEF StoredReserved, IsBound, AllInPlace, Reserves, Counted, MadeIn

LEMMA OtherHandled ==
  ASSUME TypeInv, ReservationInv, status \in {"running", "compressing"},
         status' \in {"running"} \cup Errors,
         UNCHANGED <<prog, phase, base, allocatorData, bindingDataMap>>,
         \A e \in Declared' : \/ Occurs(stack', e)
                              \/ e \in Declared /\ ~Occurs(stack, e)
  PROVE  ReservationInv'
<1>1. status' \notin {"ready", "compressing"}
  BY DEF Errors
<1>2. /\ New(ConstructorFn)' \subseteq New(ConstructorFn)
      /\ New(ProviderFn)' \subseteq New(ProviderFn)
  <2>1. \A fns : Handled(fns)' \subseteq Handled(fns)
    BY HandledStays
  <2>2. \A fns : MadeIn(bindingDataMap, NothingBound, fns)'
                   = MadeIn(bindingDataMap, NothingBound, fns)
    BY DEF MadeIn, IsBound
  <2> QED BY <2>1, <2>2 DEF New
<1>3. RunningReserved'
  <2>1. Reserves(allocatorData, base.allocator, New(ConstructorFn), New(ProviderFn))
    BY DEF ReservationInv, RunningReserved
  <2>2. Reserves(allocatorData, base.allocator, New(ConstructorFn)', New(ProviderFn)')
    BY <1>2, <2>1, AllocatorTypes, ReservesLess
  <2> QED BY <2>2 DEF RunningReserved, Reserves
<1>4. StoredReserved'
  BY StoredReservedStays DEF ReservationInv
<1>5. AllocatorReserved'
  BY <1>1 DEF AllocatorReserved, GraphIsBuilt
<1> QED BY <1>1, <1>3, <1>4, <1>5 DEF ReservationInv, MergedAreMade

(* The declared bindings that wait on the stack are the same, when what is    *)
(* popped or replaced is not a binding.                                       *)
LEMMA BindingsWait ==
  ASSUME TypeInv, prog' = prog, Started' = Started,
         \A e : e.kind \in BindingKind /\ Occurs(stack, e) => Occurs(stack', e),
         \A e : e.kind \in BindingKind /\ Occurs(stack', e) => Occurs(stack, e)
  PROVE  \A e \in Declared' : \/ Occurs(stack', e)
                              \/ e \in Declared /\ ~Occurs(stack, e)
<1>1. Declared' = Declared
  BY StartedStays
<1>2. \A e \in Declared : e.kind \in BindingKind
  BY DeclaredEntry
<1> QED BY <1>1, <1>2

(* The handlers of the other entries.                                         *)
LEMMA OtherSteps ==
  ASSUME TypeInv, ExpansionInv, ReservationInv,
         \/ HandleCompressedBinding \/ SkipLazyComponent \/ HandleEndMarker
         \/ HandleMultibinding \/ HandleReplaced \/ HandleReplacedAgain
         \/ PerformComponentReplacement \/ ExpandLazyComponent
  PROVE  ReservationInv'
<1>1. stack \in Seq(Entry) /\ WellPaired(stack)
  BY DEF TypeInv, TypeOK
<1>2. CASE HandleCompressedBinding \/ SkipLazyComponent \/ HandleEndMarker
  <2>1. /\ status = "running" /\ status' = "running" /\ stack # <<>>
        /\ Top.kind \notin BindingKind /\ stack' = Pop(1)
        /\ UNCHANGED <<prog, phase, base, allocatorData, bindingDataMap>>
    BY <1>2 DEF HandleCompressedBinding, SkipLazyComponent, HandleEndMarker, Handling,
                bindingVars, storageVars, BindingKind
  <2>2. Started' = Started
    <3>1. CASE HandleEndMarker
      <4>1. Top.kind = "end_marker" /\ inProgress' = inProgress \ {Top.comp}
            /\ fullyExpanded' = fullyExpanded \cup {Top.comp}
        BY <3>1 DEF HandleEndMarker, Handling
      <4>2. Top.comp \in inProgress
        BY <1>1, <2>1, <4>1, TopProperties
           DEF ExpansionInv, MarkersMatchInProgress, MarkersMatch, Top
      <4> QED BY <2>1, <4>1, <4>2 DEF Started
    <3>2. CASE ~HandleEndMarker
      BY <1>2, <2>1, <3>2 DEF HandleCompressedBinding, SkipLazyComponent, Started
    <3> QED BY <3>1, <3>2
  <2>3. \A e : e.kind \in BindingKind => (Occurs(stack', e) <=> Occurs(stack, e))
    BY <1>1, <2>1, OccursPopped
  <2>4. \A e \in Declared' : Occurs(stack', e) \/ (e \in Declared /\ ~Occurs(stack, e))
    BY <2>1, <2>2, <2>3, BindingsWait
  <2> QED BY <2>1, <2>4, OtherHandled
<1>3. CASE HandleMultibinding \/ HandleReplaced \/ HandleReplacedAgain
  <2>1. /\ status = "running" /\ status' = "running" /\ stack # <<>>
        /\ Top.kind \in {"replaced", "multibinding_vector_creator"} /\ stack' = Pop(2)
        /\ UNCHANGED <<prog, phase, base, allocatorData, bindingDataMap, inProgress,
                       fullyExpanded>>
    BY <1>3 DEF HandleMultibinding, HandleReplaced, HandleReplacedAgain, Handling,
                bindingVars, storageVars
  <2>2. Started' = Started
    BY <2>1 DEF Started
  <2>3. /\ Len(stack) > 1
        /\ Top.kind \notin BindingKind /\ Under.kind \notin BindingKind
    BY <1>1, <2>1, UnderProperties DEF BindingKind, MultibindingKind
  <2>4. \A e : e.kind \in BindingKind => (Occurs(stack', e) <=> Occurs(stack, e))
    BY <1>1, <2>1, <2>3, OccursPopped
  <2>5. \A e \in Declared' : Occurs(stack', e) \/ (e \in Declared /\ ~Occurs(stack, e))
    BY <2>1, <2>2, <2>4, BindingsWait
  <2> QED BY <2>1, <2>5, OtherHandled
<1>4. CASE PerformComponentReplacement
  <2>1. PICK d : d = [kind |-> "lazy", comp |-> Replacement(Top.comp)]
    OBVIOUS
  <2>2. /\ status = "running" /\ status' = "running" /\ stack # <<>>
        /\ Top.kind \notin BindingKind /\ stack' = ReplaceTop(d)
        /\ Replacement(Top.comp) # NoComponent
        /\ UNCHANGED <<prog, phase, base, allocatorData, bindingDataMap, inProgress,
                       fullyExpanded>>
    BY <1>4, <2>1 DEF PerformComponentReplacement, Handling, bindingVars, storageVars,
                      BindingKind
  <2>3. d \in Entry /\ d.kind \notin BindingKind
    <3>1. Top.comp \in Component
      BY <1>4, HandledEntry DEF PerformComponentReplacement, ComponentKind
    <3>2. Replacement(Top.comp) \in Component
      BY <2>2, <3>1, ReplacementType DEF TypeInv
    <3> QED BY <2>1, <3>2 DEF Entry, ComponentEntry, ComponentKind, BindingKind
  <2>4. Started' = Started
    BY <2>2 DEF Started
  <2>5. \A e : e.kind \in BindingKind => (Occurs(stack', e) <=> Occurs(stack, e))
    BY <1>1, <2>2, <2>3, OccursPopped, OccursReplaced
  <2>6. \A e \in Declared' : Occurs(stack', e) \/ (e \in Declared /\ ~Occurs(stack, e))
    BY <2>2, <2>4, <2>5, BindingsWait
  <2> QED BY <2>2, <2>6, OtherHandled
<1>5. CASE ExpandLazyComponent
  <2>0. PICK c : c = Top.comp
    OBVIOUS
  <2> DEFINE d == [kind |-> "end_marker", comp |-> c]
             body == prog.body[c]
  <2>1. /\ status = "running" /\ status' = "running" /\ stack # <<>> /\ Top.kind = "lazy"
        /\ stack' = ReplaceTop(d) \o body
        /\ inProgress' = inProgress \cup {c}
        /\ UNCHANGED <<prog, phase, base, allocatorData, bindingDataMap, fullyExpanded>>
    BY <1>5, <2>0 DEF ExpandLazyComponent, Handling, storageVars, bindingVars
  <2>2. c \in Component
    BY <1>5, <2>0, HandledEntry DEF ExpandLazyComponent, ComponentKind
  <2>3. d \in Entry /\ body \in Seq(Entry) /\ d.kind = "end_marker"
    BY <2>2, ProgramType DEF TypeInv, Entry, ComponentEntry, ComponentKind
  <2>4. ReplaceTop(d) \in Seq(Entry)
    BY <1>1, <2>1, <2>3, ReplaceTopProperties
  <2>5. \A e : e \in BindingsOf(c) => e.kind \in BindingKind /\ Occurs(body, e)
    BY DEF BindingsOf, Entries, Occurs
  <2> HIDE DEF d, body
  <2>6. ASSUME NEW e, e.kind \in BindingKind
        PROVE  Occurs(stack', e) <=> Occurs(stack, e) \/ Occurs(body, e)
    <3>1. Occurs(stack', e) <=> Occurs(ReplaceTop(d), e) \/ Occurs(body, e)
      BY <2>1, <2>3, <2>4, OccursPushed
    <3>2. Occurs(ReplaceTop(d), e) <=> Occurs(Pop(1), e)
      BY <1>1, <2>1, <2>3, <2>6, OccursReplaced DEF BindingKind
    <3>3. Occurs(Pop(1), e) <=> Occurs(stack, e)
      BY <1>1, <2>1, <2>6, OccursPopped DEF BindingKind
    <3> QED BY <3>1, <3>2, <3>3
  <2>7. Started' = Started \cup {c}
    BY <2>1 DEF Started
  <2>8. Declared' = Declared \cup BindingsOf(c)
    BY <2>1, <2>7, DeclaredGrows
  <2>9. ASSUME NEW e \in Declared'
        PROVE  Occurs(stack', e) \/ (e \in Declared /\ ~Occurs(stack, e))
    <3>1. CASE e \in BindingsOf(c)
      BY <2>5, <2>6, <3>1
    <3>2. CASE e \in Declared
      <4>1. e.kind \in BindingKind
        BY <3>2, DeclaredEntry
      <4> QED BY <2>6, <3>2, <4>1
    <3> QED BY <2>8, <3>1, <3>2
  <2> QED BY <2>1, <2>9, OtherHandled
<1> QED BY <1>2, <1>3, <1>4, <1>5

(* An error message.                                                          *)
LEMMA FailKeepsReserved ==
  ASSUME TypeInv, ReservationInv, status \in {"running", "compressing"},
         NEW error \in Errors, Fail(error)
  PROVE  ReservationInv'
<1>1. /\ status' = error
      /\ UNCHANGED <<prog, phase, base, stack, inProgress, fullyExpanded,
                     bindingDataMap, allocatorData>>
  BY DEF Fail, expansionVars, storageVars, bindingVars
<1>2. Started' = Started
  BY <1>1 DEF Started
<1>3. \A e \in Declared' : Occurs(stack', e) \/ (e \in Declared /\ ~Occurs(stack, e))
  BY <1>1, <1>2, BindingsWait
<1> QED BY <1>1, <1>3, OtherHandled

-----------------------------------------------------------------------------
(* The handler of a binding adds at most its own class to what is made, and   *)
(* reserves for it, unless the class is there already.                        *)
LEMMA BindingReserved ==
  ASSUME TypeInv, ExpansionInv, BindingInv, ReservationInv, HandleBinding
  PROVE  ReservationInv'
<1>0. PICK e : e = Top
  OBVIOUS
<1>1. /\ status = "running" /\ status' = "running" /\ stack # <<>>
      /\ stack' = Pop(1) /\ e.kind \in BindingKind
      /\ e.kind \in {"constructed_object", "needs_allocation", "needs_no_allocation"}
      /\ allocatorData' = IF ~IsBound(base.bindings, e.type)
                            THEN Reserve(e) ELSE allocatorData
      /\ bindingDataMap' =
           IF ~IsBound(base.bindings, e.type) /\ ~IsBound(bindingDataMap, e.type)
             THEN [bindingDataMap EXCEPT ![e.type] = e] ELSE bindingDataMap
      /\ UNCHANGED <<prog, phase, base, inProgress, fullyExpanded>>
  BY <1>0 DEF HandleBinding, Handling, storageVars, BindingKind
<1>2. stack \in Seq(Entry) /\ bindingDataMap \in [Type -> Binding \cup {Unbound}]
  BY DEF TypeInv, TypeOK, BindingMap
<1>3. e \in Declared
  <2>1. Len(stack) \in DOMAIN stack
    BY <1>1, <1>2, TopProperties
  <2> QED BY <1>0, <1>1, <2>1 DEF BindingInv, StackIsDeclared, Top
<1>4. Declared' = Declared
  <2>1. Started' = Started
    BY <1>1 DEF Started
  <2> QED BY <1>1, <2>1, StartedStays
<1>5. e.type \in Type
  BY <1>3, DeclaredEntry
<1> DEFINE Added(fns) == IF e.create.fn \in fns /\ ~IsBound(base.bindings, e.type)
                           THEN {e.type} ELSE {}
<1>6. ASSUME NEW fns \in {ConstructorFn, ProviderFn}
      PROVE  New(fns)' \subseteq New(fns) \cup Added(fns)
  <2>1. e.create.fn \in fns => e.create.c = e.type
    BY <1>3, DeclaredMakes DEF InPlace, MakingFn
  <2>2. CASE phase = "add_to"
    <3>1. SUFFICES ASSUME NEW c \in MadeIn(bindingDataMap', NothingBound, fns)
                   PROVE  c \in MadeIn(bindingDataMap, NothingBound, fns) \cup Added(fns)
      <4>1. New(fns)' = MadeIn(bindingDataMap', NothingBound, fns)
        BY <1>1, <2>2 DEF New, MadeIn, IsBound
      <4> QED BY <2>2, <3>1, <4>1 DEF New
    <3>2. PICK t \in Type : IsBound(bindingDataMap', t) /\ Makes(bindingDataMap'[t], c, fns)
      BY <3>1 DEF MadeIn, NothingBound
    <3>3. CASE bindingDataMap'[t] = bindingDataMap[t]
      BY <3>1, <3>2, <3>3 DEF MadeIn, IsBound
    <3>4. CASE bindingDataMap'[t] # bindingDataMap[t]
      <4>1. ~IsBound(base.bindings, e.type) /\ bindingDataMap'[t] = e
        BY <1>1, <1>2, <1>5, <3>4
      <4> QED BY <2>1, <3>2, <4>1 DEF Makes
    <3> QED BY <3>3, <3>4
  <2>3. CASE phase # "add_to"
    <3>1. SUFFICES ASSUME NEW c \in Handled(fns)'
                   PROVE  c \in Handled(fns) \cup Added(fns)
      BY <1>1, <2>3 DEF New
    <3>2. PICK f \in Declared : Makes(f, c, fns) /\ ~Occurs(stack', f) /\ c \in Type
      BY <1>4, <3>1 DEF Handled
    <3>3. Occurs(stack, f) => f = e
      BY <1>0, <1>1, <1>2, <3>2, OccursPopped
    <3>4. CASE ~Occurs(stack, f)
      BY <3>2, <3>4 DEF Handled
    <3>5. CASE f = e
      <4>1. base = EmptyStorage
        BY <1>1, <2>3 DEF TypeInv, TypeOK, ExpansionInv, EmptyWhenNotRunning
      <4>2. ~IsBound(base.bindings, e.type)
        BY <1>5, <4>1 DEF EmptyStorage, NothingBound, IsBound
      <4> QED BY <2>1, <3>2, <3>5, <4>2 DEF Makes
    <3> QED BY <3>3, <3>4, <3>5
  <2> QED BY <2>2, <2>3
<1>7. Reserves(allocatorData', base.allocator,
               New(ConstructorFn) \cup Added(ConstructorFn),
               New(ProviderFn) \cup Added(ProviderFn))
  <2>1. Reserves(allocatorData, base.allocator, New(ConstructorFn), New(ProviderFn))
    BY <1>1 DEF ReservationInv, RunningReserved
  <2>2. /\ e.create.fn \in ConstructorFn => e.kind = "needs_allocation"
        /\ e.create.fn \in ProviderFn => e.kind = "needs_no_allocation"
    BY <1>3, DeclaredMakes
  <2>3. allocatorData \in AllocatorData /\ base.allocator \in AllocatorData
    BY AllocatorTypes
  <2>4. CASE IsBound(base.bindings, e.type)
    <3>1. Added(ConstructorFn) = {} /\ Added(ProviderFn) = {}
      BY <2>4
    <3> QED BY <1>1, <2>1, <2>4, <3>1, <2>3, ReservesLess
  <2>5. CASE ~IsBound(base.bindings, e.type) /\ e.kind = "needs_allocation"
    <3>1. Added(ConstructorFn) \subseteq {e.type} /\ Added(ProviderFn) = {}
      BY <2>2, <2>5
    <3>2. allocatorData' = AddType(allocatorData, e.type)
      BY <1>1, <2>5 DEF Reserve
    <3>3. AddType(allocatorData, e.type) \in AllocatorData
      BY <1>5, <2>3 DEF AddType, AllocatorData
    <3>4. Reserves(AddType(allocatorData, e.type), base.allocator,
                   New(ConstructorFn) \cup {e.type}, New(ProviderFn))
      BY <1>5, <2>1, <2>3, ReservesMore
    <3> HIDE DEF Added
    <3> QED BY <2>3, <3>1, <3>2, <3>3, <3>4, ReservesLess
  <2>6. CASE ~IsBound(base.bindings, e.type) /\ e.kind = "needs_no_allocation"
    <3>1. Added(ProviderFn) \subseteq {e.type} /\ Added(ConstructorFn) = {}
      BY <2>2, <2>6
    <3>2. allocatorData' = AddExternallyAllocatedType(allocatorData)
      BY <1>1, <2>6 DEF Reserve
    <3>3. AddExternallyAllocatedType(allocatorData) \in AllocatorData
      BY <2>3 DEF AddExternallyAllocatedType, AllocatorData
    <3>4. Reserves(AddExternallyAllocatedType(allocatorData), base.allocator,
                   New(ConstructorFn), New(ProviderFn) \cup {e.type})
      BY <1>5, <2>1, <2>3, ReservesMore
    <3> HIDE DEF Added
    <3> QED BY <2>3, <3>1, <3>2, <3>3, <3>4, ReservesLess
  <2>7. CASE ~IsBound(base.bindings, e.type) /\ e.kind = "constructed_object"
    <3>1. Added(ConstructorFn) = {} /\ Added(ProviderFn) = {}
      BY <2>2, <2>7
    <3>2. allocatorData' = allocatorData
      BY <1>1, <2>7 DEF Reserve
    <3> QED BY <2>1, <3>1, <3>2, <2>3, ReservesLess
  <2> QED BY <1>1, <2>4, <2>5, <2>6, <2>7
<1> HIDE DEF Added
<1>8. allocatorData' \in AllocatorData /\ base.allocator \in AllocatorData
  <2>1. Reserve(e) \in AllocatorData
    BY <1>5, AllocatorTypes, ReserveType
  <2> QED BY <1>1, <2>1, AllocatorTypes
<1>9. RunningReserved'
  <2>1. Reserves(allocatorData', base.allocator, New(ConstructorFn)', New(ProviderFn)')
    BY <1>6, <1>7, <1>8, ReservesLess
  <2> QED BY <1>1, <2>1 DEF RunningReserved, Reserves
<1>10. StoredReserved'
  BY <1>1, StoredReservedStays DEF ReservationInv
<1> QED BY <1>1, <1>9, <1>10
        DEF ReservationInv, MergedAreMade, AllocatorReserved, GraphIsBuilt

-----------------------------------------------------------------------------
(* The types among S whose binding in g makes a class with a create function  *)
(* in fns; there is one for a class.                                          *)
MadeAt(g, S, fns) == {t \in S : IsBound(g, t) /\ g[t].create.fn \in fns}
ClassMadeAt(g, S, c) == {t \in MadeAt(g, S, ConstructorFn) : g[t].create.c = c}
OneEach(g, S) ==
  \A t, u \in MadeAt(g, S, MakingFn) : g[t].create.c = g[u].create.c => t = u

(* What is reserved by class is enough for bindings that make different ones: *)
(* the class that a binding makes is an injection.                            *)
LEMMA EnoughForEach ==
  ASSUME NEW g \in BindingMap, NEW S \in SUBSET Type, OneEach(g, S),
         NEW a \in AllocatorData, NEW b \in AllocatorData, NEW C, NEW P,
         Reserves(a, b, C, P),
         \A t \in MadeAt(g, S, ConstructorFn) : g[t].create.c \in C,
         \A t \in MadeAt(g, S, ProviderFn) : g[t].create.c \in P
  PROVE  /\ \A c \in Type :
              /\ IsFiniteSet(ClassMadeAt(g, S, c))
              /\ a.types[c] >= b.types[c] + Cardinality(ClassMadeAt(g, S, c))
         /\ IsFiniteSet(MadeAt(g, S, ProviderFn))
         /\ a.external >= b.external + Cardinality(MadeAt(g, S, ProviderFn))
<1>1. ConstructorFn \subseteq MakingFn /\ ProviderFn \subseteq MakingFn
  BY DEF MakingFn
<1>2. ASSUME NEW c \in Type
      PROVE  /\ IsFiniteSet(ClassMadeAt(g, S, c))
             /\ a.types[c] >= b.types[c] + Cardinality(ClassMadeAt(g, S, c))
  <2>1. a.types[c] \in Nat /\ b.types[c] \in Nat
    BY DEF AllocatorData
  <2>2. a.types[c] >= b.types[c] + One(c, C)
    BY DEF Reserves
  <2>3. CASE ClassMadeAt(g, S, c) = {}
    <3>1. IsFiniteSet(ClassMadeAt(g, S, c)) /\ Cardinality(ClassMadeAt(g, S, c)) = 0
      BY <2>3, FS_EmptySet
    <3> QED BY <2>1, <2>2, <3>1 DEF One
  <2>4. CASE ClassMadeAt(g, S, c) # {}
    <3>1. PICK t : t \in ClassMadeAt(g, S, c)
      BY <2>4
    <3>2. \A u \in ClassMadeAt(g, S, c) : u = t
      BY <1>1, <3>1 DEF ClassMadeAt, MadeAt, OneEach
    <3>3. ClassMadeAt(g, S, c) = {t}
      BY <3>1, <3>2
    <3>4. IsFiniteSet(ClassMadeAt(g, S, c)) /\ Cardinality(ClassMadeAt(g, S, c)) = 1
      BY <3>3, FS_Singleton
    <3>5. c \in C
      BY <3>1 DEF ClassMadeAt
    <3> QED BY <2>1, <2>2, <3>4, <3>5 DEF One
  <2> QED BY <2>3, <2>4
<1> DEFINE T == MadeAt(g, S, ProviderFn)
           f == [t \in T |-> g[t].create.c]
<1>3. IsFiniteSet(P) /\ a.external >= b.external + Cardinality(P)
  BY DEF Reserves
<1>4. f \in Injection(T, P)
  <2>1. f \in [T -> P]
    OBVIOUS
  <2>2. \A t, u \in T : f[t] = f[u] => t = u
    BY <1>1 DEF OneEach, MadeAt
  <2> HIDE DEF f, T
  <2> QED BY <2>1, <2>2 DEF Injection, IsInjective
<1>5. IsFiniteSet(T) /\ Cardinality(T) <= Cardinality(P)
  <2> HIDE DEF f, T
  <2>1. \E h : h \in Injection(T, P)
    BY <1>4
  <2> QED BY <1>3, <1>4, FS_Injection
<1>6. /\ Cardinality(T) \in Nat /\ Cardinality(P) \in Nat
  <2> HIDE DEF T
  <2> QED BY <1>3, <1>5, FS_CardinalityType
<1>7. a.external \in Nat /\ b.external \in Nat
  BY DEF AllocatorData
<1> HIDE DEF f, T
<1>8. a.external >= b.external + Cardinality(T)
  BY <1>3, <1>5, <1>6, <1>7
<1> QED BY <1>2, <1>5, <1>8 DEF T

-----------------------------------------------------------------------------
(* When the stack is empty, the map has nothing but declared bindings.        *)
LEMMA MergingReserved ==
  ASSUME TypeInv, BindingInv, ReservationInv, StartCompression
  PROVE  ReservationInv'
<1>1. /\ status = "running" /\ status' = "compressing" /\ stack = <<>>
      /\ phase # "add_to"
      /\ UNCHANGED <<prog, phase, base, stack, undoInfo, bindingDataMap, inProgress,
                     fullyExpanded, allocatorData>>
  BY DEF StartCompression, expansionVars, storageVars
<1>2. Started' = Started
  BY <1>1 DEF Started
<1>3. Declared' = Declared
  BY <1>1, <1>2, StartedStays
<1>4. \A fns : Handled(fns)' = Handled(fns)
  BY <1>1, <1>3 DEF Handled, Occurs
<1>5. RunningReserved'
  BY <1>1, <1>4 DEF ReservationInv, RunningReserved, Reserves, New
<1>6. ASSUME NEW t \in Type
      PROVE  /\ undoInfo[t] = Unbound
             /\ IsBound(bindingDataMap, t) =>
                  /\ bindingDataMap[t] \in Declared /\ InPlace(bindingDataMap[t], t)
                  /\ \A c : ~Compressed(bindingDataMap, t, c)
  <2>1. undoInfo = NothingBound /\ IsDeclared(bindingDataMap, t)
    BY <1>1 DEF BindingInv, HandlingInv
  <2> QED BY <2>1, DeclaredMakes
          DEF NothingBound, IsDeclared, Compressed, Merges
<1>7. \A fns : MadeIn(bindingDataMap, undoInfo, fns) \subseteq Handled(fns)
  BY <1>1, <1>6 DEF MadeIn, Handled, Occurs
<1>8. MergedAreMade'
  <2>1. \A fns \in {ConstructorFn, ProviderFn} :
          MadeIn(bindingDataMap', undoInfo', fns) \subseteq Handled(fns)'
    BY <1>1, <1>4, <1>7
  <2>2. AllInPlace(bindingDataMap', undoInfo')
    BY <1>1, <1>6 DEF AllInPlace
  <2>3. \A i, j, c \in Type : ~Compressed(bindingDataMap', i, c)
    BY <1>1, <1>6 DEF Compressed
  <2> QED BY <2>1, <2>2, <2>3 DEF MergedAreMade, MadeIn, AllInPlace, Compressed, IsBound
<1>9. StoredReserved'
  BY <1>1, StoredReservedStays DEF ReservationInv
<1> QED BY <1>1, <1>5, <1>8, <1>9 DEF ReservationInv, AllocatorReserved, GraphIsBuilt

(* One pass of the loop: the merged binding makes the class that the binding  *)
(* declared for it makes, and what undoInfo remembers was in the map.         *)
LEMMA PairReserved ==
  ASSUME TypeInv, ExpansionInv, CompressionInv, ReservationInv, CompressBinding
  PROVE  ReservationInv'
<1>1. /\ status = "compressing" /\ status' = "compressing" /\ stack = <<>>
      /\ UNCHANGED <<prog, phase, base, stack, inProgress, fullyExpanded, allocatorData>>
  BY DEF CompressBinding, expansionVars, storageVars, ExpansionInv, EmptyWhenNotRunning
<1>2. Started' = Started
  BY <1>1 DEF Started
<1>3. Declared' = Declared
  BY <1>1, <1>2, StartedStays
<1>4. \A fns : Handled(fns)' = Handled(fns)
  BY <1>1, <1>3 DEF Handled, Occurs
<1>5. PICK c \in Type, i \in Type : MergeStep(c, i)
  BY CompressBindingMerges
<1>6. Loop /\ phase # "add_to"
  <2>1. Loop
    BY <1>1 DEF CompressionInv, MergingInv, Loop
  <2>2. compressedBindings[c] # Unbound
    BY <1>5 DEF MergeStep, IsBound
  <2> QED BY <2>1, <2>2 DEF Loop, PendingInv, NothingBound
<1>7. RunningReserved'
  BY <1>1, <1>4, <1>6 DEF ReservationInv, RunningReserved, Reserves, New
<1>8. PICK e : e = compressedBindings[c]
  OBVIOUS
<1>9. e \in DeclaredCompressed /\ e.c_type = c
  BY <1>5, <1>6, <1>8 DEF Loop, PendingInv, MergeStep
<1>10. e.create.fn \in CompressedFn /\ e.create.c = c /\ IsMadeBy(c, Source(e.create.fn))
  BY <1>9, DeclaredPair
<1>11. ASSUME NEW fns \in {ConstructorFn, ProviderFn}, e.create.fn \in fns
       PROVE  c \in Handled(fns)
  <2>1. PICK f \in Declared : f.type = c /\ f.create.fn = Source(e.create.fn)
    BY <1>10 DEF IsMadeBy
  <2>2. Source(e.create.fn) \in fns /\ Source(e.create.fn) \in MakingFn \ CompressedFn
    BY <1>10, <1>11 DEF Source, ConstructorFn, ProviderFn, CompressedFn, MakingFn
  <2>3. f.create.c = c
    BY <2>1, <2>2, DeclaredMakes DEF InPlace
  <2> QED BY <1>1, <2>1, <2>2, <2>3 DEF Handled, Makes, Occurs
<1>12. /\ \A fns \in {ConstructorFn, ProviderFn} :
            MadeIn(bindingDataMap, undoInfo, fns) \subseteq Handled(fns)
       /\ AllInPlace(bindingDataMap, undoInfo)
       /\ \A j, k, d \in Type :
            Compressed(bindingDataMap, j, d) /\ Compressed(bindingDataMap, k, d) => j = k
  BY <1>1 DEF ReservationInv, MergedAreMade
<1>13. ASSUME NEW t \in Type
       PROVE  /\ IsBound(bindingDataMap', t) =>
                   \/ bindingDataMap'[t].create = e.create
                   \/ IsBound(bindingDataMap, t) /\ bindingDataMap'[t] = bindingDataMap[t]
              /\ undoInfo'[t] # Unbound =>
                   \/ undoInfo[t] # Unbound /\ undoInfo'[t] = undoInfo[t]
                   \/ /\ t = c /\ undoInfo'[t].i_type = i
                      /\ undoInfo'[t].i_binding = bindingDataMap[i]
                      /\ undoInfo'[t].c_binding = bindingDataMap[c]
                      /\ IsBound(bindingDataMap, i) /\ IsBound(bindingDataMap, c)
  BY <1>5, <1>8 DEF MergeStep, IsBound
<1>14. ASSUME NEW fns \in {ConstructorFn, ProviderFn}, NEW x,
              x \in MadeIn(bindingDataMap', undoInfo', fns)
       PROVE  x \in Handled(fns)
  <2>1. PICK t \in Type :
          \/ IsBound(bindingDataMap', t) /\ Makes(bindingDataMap'[t], x, fns)
          \/ /\ undoInfo'[t] # Unbound
             /\ \/ Makes(undoInfo'[t].i_binding, x, fns)
                \/ Makes(undoInfo'[t].c_binding, x, fns)
    BY <1>14 DEF MadeIn
  <2>2. x \in MadeIn(bindingDataMap, undoInfo, fns) => x \in Handled(fns)
    BY <1>12
  <2>3. x \in Type
    BY <1>14 DEF MadeIn
  <2>4. CASE IsBound(bindingDataMap', t) /\ Makes(bindingDataMap'[t], x, fns)
    <3>1. CASE bindingDataMap'[t].create = e.create
      BY <1>10, <1>11, <2>4, <3>1 DEF Makes
    <3>2. CASE IsBound(bindingDataMap, t) /\ bindingDataMap'[t] = bindingDataMap[t]
      BY <2>2, <2>3, <2>4, <3>2 DEF MadeIn
    <3> QED BY <1>13, <2>4, <3>1, <3>2
  <2>5. CASE /\ undoInfo'[t] # Unbound
             /\ \/ Makes(undoInfo'[t].i_binding, x, fns)
                \/ Makes(undoInfo'[t].c_binding, x, fns)
    <3>1. CASE undoInfo[t] # Unbound /\ undoInfo'[t] = undoInfo[t]
      BY <2>2, <2>3, <2>5, <3>1 DEF MadeIn
    <3>2. CASE /\ undoInfo'[t].i_binding = bindingDataMap[i]
               /\ undoInfo'[t].c_binding = bindingDataMap[c]
               /\ IsBound(bindingDataMap, i) /\ IsBound(bindingDataMap, c)
      BY <2>2, <2>3, <2>5, <3>2 DEF MadeIn
    <3> QED BY <1>13, <2>5, <3>1, <3>2
  <2> QED BY <2>1, <2>4, <2>5
<1>15. AllInPlace(bindingDataMap', undoInfo')
  BY <1>10, <1>12, <1>13 DEF AllInPlace, InPlace
<1>16. \A j, k, d \in Type :
         Compressed(bindingDataMap', j, d) /\ Compressed(bindingDataMap', k, d) => j = k
  <2>1. \A d, t \in Type : Compressed(bindingDataMap', t, d)
              => \/ t = i /\ d = c /\ i # c
                 \/ Compressed(bindingDataMap, t, d) /\ t \notin {i, c} /\ d # c
    BY <1>5, <1>6, OnePairMerged
  <2> QED BY <1>12, <2>1
<1>17. MergedAreMade'
  <2>1. \A fns \in {ConstructorFn, ProviderFn} :
          MadeIn(bindingDataMap', undoInfo', fns) \subseteq Handled(fns)'
    BY <1>4, <1>14
  <2> QED BY <1>15, <1>16, <2>1
          DEF MergedAreMade, MadeIn, AllInPlace, Compressed, IsBound
<1>18. StoredReserved'
  BY <1>1, StoredReservedStays DEF ReservationInv
<1> QED BY <1>1, <1>7, <1>17, <1>18 DEF ReservationInv, AllocatorReserved, GraphIsBuilt

-----------------------------------------------------------------------------
(* The number of multibindings that need space.                               *)
LEMMA CountType ==
  ASSUME NEW s \in Seq(Multibinding)
  PROVE  /\ Counted(s) \in AllocatorData
         /\ \A t \in Type : Counted(s).types[t] = CountOf(s, t)
<1>1. ASSUME NEW t \in Type PROVE CountOf(s, t) \in Nat
  <2>1. {i \in DOMAIN s : s[i].kind = "multibinding_needs_allocation" /\ s[i].type = t}
          \in SUBSET DOMAIN s
    OBVIOUS
  <2> QED BY <2>1, IndicesAreCounted DEF CountOf
<1> QED BY <1>1 DEF Counted, AllocatorData

(* What addMultibindings adds.                                                *)
LEMMA MultibindingsAdded ==
  ASSUME TypeInv, AddMultibindings
  PROVE  /\ allocatorData' \in AllocatorData
         /\ \A t \in Type : allocatorData'.types[t] =
                              allocatorData.types[t] + CountOf(multibindingsVector, t)
         /\ allocatorData'.external >= allocatorData.external
<1>1. multibindingsVector \in Seq(Multibinding) /\ allocatorData \in AllocatorData
  BY DEF TypeInv, TypeOK
<1>2. PICK n : n = Cardinality({i \in DOMAIN multibindingsVector :
                 multibindingsVector[i].kind = "multibinding_needs_no_allocation"})
  OBVIOUS
<1>3. n \in Nat
  <2>1. {i \in DOMAIN multibindingsVector :
            multibindingsVector[i].kind = "multibinding_needs_no_allocation"}
          \in SUBSET DOMAIN multibindingsVector
    OBVIOUS
  <2> QED BY <1>1, <1>2, <2>1, IndicesAreCounted
<1>4. allocatorData' =
        [types |-> [t \in Type |-> allocatorData.types[t]
                                     + CountOf(multibindingsVector, t)],
         external |-> allocatorData.external + n]
  BY <1>2 DEF AddMultibindings, CountMultibindings, CountOf
<1>5. \A t \in Type : CountOf(multibindingsVector, t) \in Nat
  BY <1>1, CountType DEF AllocatorData
<1>6. allocatorData.external \in Nat /\ \A t \in Type : allocatorData.types[t] \in Nat
  BY <1>1 DEF AllocatorData
<1> QED BY <1>3, <1>4, <1>5, <1>6 DEF AllocatorData

(* While pairs are merged, no two bindings of the map make the same class, and *)
(* what they make has been reserved.                                          *)
LEMMA MapMakesOneEach ==
  ASSUME TypeInv, CompressionInv, ReservationInv, status = "compressing"
  PROVE  /\ OneEach(bindingDataMap, Type)
         /\ \A fns \in {ConstructorFn, ProviderFn} :
              \A t \in MadeAt(bindingDataMap, Type, fns) :
                bindingDataMap[t].create.c \in Handled(fns)
<1>1. bindingDataMap \in [Type -> Binding \cup {Unbound}]
  BY DEF TypeInv, TypeOK, BindingMap
<1>2. \A t \in Type : IsBound(bindingDataMap, t) => bindingDataMap[t].create.c \in Type
  BY <1>1 DEF IsBound, Binding, CreateFunction
<1>3. /\ MergedAreFree /\ AllInPlace(bindingDataMap, undoInfo)
      /\ \A i, j, c \in Type :
           Compressed(bindingDataMap, i, c) /\ Compressed(bindingDataMap, j, c) => i = j
      /\ \A fns \in {ConstructorFn, ProviderFn} :
           MadeIn(bindingDataMap, undoInfo, fns) \subseteq Handled(fns)
  BY DEF CompressionInv, MergingInv, ReservationInv, MergedAreMade
<1>4. ASSUME NEW t \in MadeAt(bindingDataMap, Type, MakingFn)
      PROVE  LET c == bindingDataMap[t].create.c
             IN  t = c \/ (Compressed(bindingDataMap, t, c) /\ ~IsBound(bindingDataMap, c))
  <2>1. t \in Type /\ IsBound(bindingDataMap, t) /\ bindingDataMap[t].create.fn \in MakingFn
    BY DEF MadeAt
  <2>2. CASE bindingDataMap[t].create.fn \in CompressedFn
    <3>1. PICK c \in Type : c = bindingDataMap[t].create.c
      BY <1>2, <2>1
    <3>2. Compressed(bindingDataMap, t, c)
      BY <2>1, <2>2, <3>1 DEF Compressed, Merges
    <3>3. ~IsBound(bindingDataMap, c)
      BY <1>3, <2>1, <3>2 DEF MergedAreFree, Merged
    <3> QED BY <3>1, <3>2, <3>3
  <2>3. CASE bindingDataMap[t].create.fn \notin CompressedFn
    BY <1>3, <2>1, <2>3 DEF AllInPlace, InPlace
  <2> QED BY <2>2, <2>3
<1>5. OneEach(bindingDataMap, Type)
  <2>1. SUFFICES ASSUME NEW t \in MadeAt(bindingDataMap, Type, MakingFn),
                        NEW u \in MadeAt(bindingDataMap, Type, MakingFn),
                        bindingDataMap[t].create.c = bindingDataMap[u].create.c
                 PROVE  t = u
    BY DEF OneEach
  <2>2. /\ t \in Type /\ IsBound(bindingDataMap, t)
        /\ u \in Type /\ IsBound(bindingDataMap, u)
    BY DEF MadeAt
  <2>3. PICK c \in Type : c = bindingDataMap[t].create.c /\ c = bindingDataMap[u].create.c
    BY <1>2, <2>1, <2>2
  <2>4. /\ t = c \/ (Compressed(bindingDataMap, t, c) /\ ~IsBound(bindingDataMap, c))
        /\ u = c \/ (Compressed(bindingDataMap, u, c) /\ ~IsBound(bindingDataMap, c))
    BY <1>4, <2>3
  <2> QED BY <1>3, <2>2, <2>4
<1>6. ASSUME NEW fns \in {ConstructorFn, ProviderFn},
             NEW t \in MadeAt(bindingDataMap, Type, fns)
      PROVE  bindingDataMap[t].create.c \in Handled(fns)
  <2>1. bindingDataMap[t].create.c \in MadeIn(bindingDataMap, undoInfo, fns)
    BY <1>2 DEF MadeIn, MadeAt, Makes
  <2> QED BY <1>3, <2>1
<1> QED BY <1>5, <1>6

-----------------------------------------------------------------------------
(* The graph that the compression leaves, and what is reserved for it.        *)
LEMMA BuiltReserved ==
  ASSUME TypeInv, ExpansionInv, CompressionInv, ReservationInv,
         FinishedCompression, phase # "add_to", AddMultibindings,
         UNCHANGED <<phase, multibindingsVector>>, graph' = bindingDataMap
  PROVE  /\ AllocatorReserved'
         /\ Reserves(allocatorData', Counted(multibindingsVector),
                     Handled(ConstructorFn), Handled(ProviderFn))
<1>1. status = "compressing" /\ base.allocator = NothingAllocated
  <2>1. phase \in {"permanent", "undoable"}
    BY DEF TypeInv, TypeOK
  <2> QED BY <2>1 DEF FinishedCompression, ExpansionInv, EmptyWhenNotRunning, EmptyStorage
<1>2. PICK a \in AllocatorData, m \in Seq(Multibinding) :
        a = allocatorData' /\ m = multibindingsVector
  BY MultibindingsAdded DEF TypeInv, TypeOK
<1>3. Reserves(a, Counted(m), Handled(ConstructorFn), Handled(ProviderFn))
  <2>1. /\ \A t \in Type : allocatorData.types[t] >= 0 + One(t, Handled(ConstructorFn))
        /\ IsFiniteSet(Handled(ProviderFn))
        /\ allocatorData.external >= 0 + Cardinality(Handled(ProviderFn))
    BY <1>1 DEF ReservationInv, RunningReserved, Reserves, New, NothingAllocated
  <2>2. /\ allocatorData.external \in Nat /\ a.external \in Nat
        /\ Counted(m).external = 0 /\ a.external >= allocatorData.external
    BY <1>2, AllocatorTypes, MultibindingsAdded DEF AllocatorData, Counted
  <2>3. ASSUME NEW t \in Type
        PROVE  a.types[t] >= Counted(m).types[t] + One(t, Handled(ConstructorFn))
    <3>1. /\ a.types[t] = allocatorData.types[t] + CountOf(m, t)
          /\ Counted(m).types[t] = CountOf(m, t) /\ CountOf(m, t) \in Nat
      BY <1>2, MultibindingsAdded, CountType DEF AllocatorData
    <3>2. allocatorData.types[t] \in Nat /\ One(t, Handled(ConstructorFn)) \in {0, 1}
      BY AllocatorTypes DEF AllocatorData, One
    <3> QED BY <2>1, <3>1, <3>2
  <2>4. Cardinality(Handled(ProviderFn)) \in Nat
    BY <2>1, FS_CardinalityType
  <2>5. a.external >= Counted(m).external + Cardinality(Handled(ProviderFn))
    BY <2>1, <2>2, <2>4
  <2> QED BY <2>1, <2>3, <2>5 DEF Reserves
<1>4. PICK g \in BindingMap : g = bindingDataMap
  BY DEF TypeInv, TypeOK
<1>5. /\ OneEach(g, Type)
      /\ \A t \in MadeAt(g, Type, ConstructorFn) : g[t].create.c \in Handled(ConstructorFn)
      /\ \A t \in MadeAt(g, Type, ProviderFn) : g[t].create.c \in Handled(ProviderFn)
  BY <1>1, <1>4, MapMakesOneEach
<1>6. Counted(m) \in AllocatorData /\ \A t \in Type : Counted(m).types[t] = CountOf(m, t)
  BY CountType
<1>7. /\ \A c \in Type :
           a.types[c] >= Counted(m).types[c] + Cardinality(ClassMadeAt(g, Type, c))
      /\ \A c \in Type : IsFiniteSet(ClassMadeAt(g, Type, c))
      /\ a.external >= 0 + Cardinality(MadeAt(g, Type, ProviderFn))
      /\ IsFiniteSet(MadeAt(g, Type, ProviderFn))
  <2>1. Type \in SUBSET Type
    OBVIOUS
  <2>2. Counted(m).external = 0
    BY DEF Counted
  <2>3. PICK b \in AllocatorData : b = Counted(m)
    BY <1>6
  <2>4. PICK C, P : C = Handled(ConstructorFn) /\ P = Handled(ProviderFn)
    OBVIOUS
  <2>5. /\ \A c \in Type :
             /\ IsFiniteSet(ClassMadeAt(g, Type, c))
             /\ a.types[c] >= b.types[c] + Cardinality(ClassMadeAt(g, Type, c))
        /\ IsFiniteSet(MadeAt(g, Type, ProviderFn))
        /\ a.external >= b.external + Cardinality(MadeAt(g, Type, ProviderFn))
    <3>1. /\ Reserves(a, b, C, P)
          /\ \A t \in MadeAt(g, Type, ConstructorFn) : g[t].create.c \in C
          /\ \A t \in MadeAt(g, Type, ProviderFn) : g[t].create.c \in P
      BY <1>3, <1>5, <2>3, <2>4
    <3> QED BY <1>5, <2>1, <3>1, EnoughForEach
  <2> QED BY <2>2, <2>3, <2>5
<1>8. AllocatorReserved'
  <2>1. graph' = g /\ allocatorData' = a /\ multibindingsVector' = m /\ phase' # "add_to"
    BY <1>2, <1>4
  <2>2. Provided' = MadeAt(g, Type, ProviderFn)
    BY <2>1 DEF Provided, MadeAt, ProviderFn, IsBound
  <2>3. a.external >= Cardinality(Provided)'
    <3>1. Cardinality(MadeAt(g, Type, ProviderFn)) \in Nat
      BY <1>7, FS_CardinalityType
    <3>2. a.external >= Cardinality(MadeAt(g, Type, ProviderFn))
      BY <1>7, <3>1
    <3> QED BY <2>2, <3>2
  <2>4. ASSUME NEW c \in Type
        PROVE  a.types[c] >= Cardinality(Constructs(c))' + MultibindingsAllocated(c)'
    <3>1. Constructs(c)' = ClassMadeAt(g, Type, c)
      BY <2>1 DEF Constructs, ClassMadeAt, MadeAt, ConstructorFn, IsBound
    <3>2. MultibindingsAllocated(c)' = CountOf(m, c)
      BY <2>1 DEF MultibindingsAllocated, AllMultibindings, CountOf
    <3>3. /\ Cardinality(ClassMadeAt(g, Type, c)) \in Nat
          /\ CountOf(m, c) \in Nat /\ Counted(m).types[c] = CountOf(m, c)
      BY <1>6, <1>7, FS_CardinalityType DEF AllocatorData
    <3>4. a.types[c] >= Cardinality(ClassMadeAt(g, Type, c)) + CountOf(m, c)
      BY <1>7, <3>3
    <3> QED BY <3>1, <3>2, <3>4
  <2> QED BY <2>1, <2>3, <2>4 DEF AllocatorReserved
<1> QED BY <1>2, <1>3, <1>8

(* The storage of an injector that is built on nothing.                       *)
LEMMA PermanentReserved ==
  ASSUME TypeInv, ExpansionInv, CompressionInv, ReservationInv, FinishPermanent
  PROVE  ReservationInv'
<1>1. /\ status' = "ready" /\ phase = "permanent" /\ FinishedCompression
      /\ graph' = bindingDataMap /\ AddMultibindings
      /\ UNCHANGED <<phase, multibindingsVector, base>>
  BY DEF FinishPermanent
<1>2. AllocatorReserved'
  BY <1>1, BuiltReserved
<1>3. StoredReserved'
  BY <1>1, StoredReservedStays DEF ReservationInv
<1> QED BY <1>1, <1>2, <1>3 DEF ReservationInv, RunningReserved, MergedAreMade

(* The normalized component has room for both bindings of a pair, the merged  *)
(* one and the two that undoing it brings back.                               *)
LEMMA NormalizedReserved ==
  ASSUME TypeInv, ExpansionInv, CompressionInv, ReservationInv, FinishUndoable
  PROVE  ReservationInv'
<1>1. /\ status = "compressing" /\ status' = "ready" /\ phase = "undoable"
      /\ FinishedCompression
      /\ graph' = bindingDataMap /\ AddMultibindings
      /\ UNCHANGED <<phase, multibindingsVector>>
      /\ base'.bindings = bindingDataMap /\ base'.undo = undoInfo
      /\ base'.multibindings = multibindingsVector /\ base'.allocator = allocatorData'
  BY DEF FinishUndoable, FinishedCompression
<1>2. AllocatorReserved'
  BY <1>1, BuiltReserved
<1>3. Reserves(allocatorData', Counted(multibindingsVector),
               Handled(ConstructorFn), Handled(ProviderFn))
  BY <1>1, BuiltReserved
<1>4. /\ MadeIn(bindingDataMap, undoInfo, ConstructorFn) \subseteq Handled(ConstructorFn)
      /\ MadeIn(bindingDataMap, undoInfo, ProviderFn) \subseteq Handled(ProviderFn)
      /\ AllInPlace(bindingDataMap, undoInfo)
  BY <1>1 DEF ReservationInv, MergedAreMade
<1>5. Reserves(allocatorData', Counted(multibindingsVector),
               MadeIn(bindingDataMap, undoInfo, ConstructorFn),
               MadeIn(bindingDataMap, undoInfo, ProviderFn))
  <2>1. allocatorData' \in AllocatorData
    BY <1>1, MultibindingsAdded
  <2>2. Counted(multibindingsVector) \in AllocatorData
    BY CountType DEF TypeInv, TypeOK
  <2> QED BY <1>3, <1>4, <2>1, <2>2, ReservesLess
<1>6. \A c \in Type : undoInfo[c] # Unbound => ~IsBound(bindingDataMap, c)
  BY <1>1 DEF CompressionInv, MergingInv, MergedAreFree, Merged
<1>7. StoredReserved'
  <2>1. /\ MadeIn(base.bindings, base.undo, ConstructorFn)'
             = MadeIn(bindingDataMap, undoInfo, ConstructorFn)
        /\ MadeIn(base.bindings, base.undo, ProviderFn)'
             = MadeIn(bindingDataMap, undoInfo, ProviderFn)
        /\ AllInPlace(base.bindings, base.undo)' = AllInPlace(bindingDataMap, undoInfo)
        /\ \A c \in Type : IsBound(base.bindings, c)' = IsBound(bindingDataMap, c)
        /\ Counted(base.multibindings)' = Counted(multibindingsVector)
    BY <1>1 DEF MadeIn, AllInPlace, IsBound, Counted
  <2>2. Reserves(base'.allocator, Counted(base.multibindings)',
                 MadeIn(base.bindings, base.undo, ConstructorFn)',
                 MadeIn(base.bindings, base.undo, ProviderFn)')
    BY <1>1, <1>5, <2>1
  <2> QED BY <1>1, <1>4, <1>6, <2>1, <2>2 DEF StoredReserved, Reserves
<1> QED BY <1>1, <1>2, <1>7 DEF ReservationInv, RunningReserved, MergedAreMade

-----------------------------------------------------------------------------
(* The space that two sequences of multibindings need.                        *)
LEMMA CountConcatenated ==
  ASSUME NEW r \in Seq(Multibinding), NEW s \in Seq(Multibinding), NEW t
  PROVE  CountOf(r \o s, t) = CountOf(r, t) + CountOf(s, t)
<1> DEFINE A == {m \in Multibinding : /\ m.kind = "multibinding_needs_allocation"
                                      /\ m.type = t}
<1>1. ASSUME NEW q \in Seq(Multibinding) PROVE CountOf(q, t) = Cardinality(Places(q, A))
  <2>1. \A i \in DOMAIN q : q[i] \in Multibinding
    BY LenProperties, ElementOfSeq
  <2>2. {i \in DOMAIN q : q[i].kind = "multibinding_needs_allocation" /\ q[i].type = t}
          = Places(q, A)
    BY <2>1 DEF Places
  <2> QED BY <2>2 DEF CountOf
<1>2. r \o s \in Seq(Multibinding)
  BY ConcatProperties
<1> HIDE DEF A
<1>3. Cardinality(Places(r \o s, A)) = Cardinality(Places(r, A)) + Cardinality(Places(s, A))
  BY PlacesConcatenated
<1> QED BY <1>1, <1>2, <1>3

-----------------------------------------------------------------------------
(* The types of the injector's graph whose binding is one that the second     *)
(* component brought; the others have one of the normalized component.        *)
FromNew == {t \in Type \ Undone : IsBound(bindingDataMap, t)}
FromBase == Type \ FromNew

(* The new bindings make each their own class, and it was reserved for them.  *)
LEMMA NewReserved ==
  ASSUME TypeInv, BindingInv, status = "running", phase = "add_to",
         NEW w \in LastUndone, NEW g, g = [t \in Type |-> MergedBinding(t, w)]
  PROVE  /\ OneEach(g, FromNew)
         /\ \A fns \in {ConstructorFn, ProviderFn} :
              \A t \in MadeAt(g, FromNew, fns) : g[t].create.c \in New(fns)
<1>1. ASSUME NEW t \in FromNew
      PROVE  /\ t \in Type /\ IsBound(bindingDataMap, t) /\ g[t] = bindingDataMap[t]
             /\ g[t].create.fn \in MakingFn => g[t].create.c = t
  <2>1. t \in Type /\ IsBound(bindingDataMap, t) /\ g[t] = bindingDataMap[t]
    BY DEF FromNew, MergedBinding
  <2>2. bindingDataMap[t] \in Declared /\ bindingDataMap[t].type = t
    BY <2>1 DEF BindingInv, HandlingInv, IsDeclared
  <2>3. g[t].create.fn \in MakingFn => g[t].create.c = t
    BY <2>1, <2>2, DeclaredMakes DEF InPlace
  <2> QED BY <2>1, <2>3
<1>2. OneEach(g, FromNew)
  BY <1>1 DEF OneEach, MadeAt
<1>3. ASSUME NEW fns \in {ConstructorFn, ProviderFn}, NEW t \in MadeAt(g, FromNew, fns)
      PROVE  g[t].create.c \in New(fns)
  <2>1. t \in FromNew /\ g[t].create.fn \in fns /\ g[t].create.fn \in MakingFn
    BY DEF MadeAt, MakingFn
  <2>2. g[t].create.c = t
    BY <1>1, <2>1
  <2> QED BY <1>1, <2>1, <2>2 DEF New, MadeIn, Makes
<1> QED BY <1>2, <1>3

(* What a type gets from the normalized component: its own binding there, or  *)
(* one that an undone compression brings back.                                *)
LEMMA BaseBinding ==
  ASSUME TypeInv, NEW w \in LastUndone, NEW g, g = [t \in Type |-> MergedBinding(t, w)],
         NEW t \in FromBase, IsBound(g, t)
  PROVE  \/ \E x \in CompressionsToUndo :
              /\ x \in Type /\ base.undo[x] # Unbound /\ base.undo[x].i_type = t
              /\ g[t].create = base.undo[x].i_binding.create
         \/ /\ t \in CompressionsToUndo /\ base.undo[t] # Unbound
            /\ g[t].create = base.undo[t].c_binding.create
         \/ /\ t \notin Undone /\ IsBound(base.bindings, t)
            /\ g[t] = base.bindings[t]
<1>1. t \in Type /\ g[t] = MergedBinding(t, w)
  BY DEF FromBase
<1>2. CASE t \in Undone
  BY <1>1, <1>2, BroughtBack DEF TypeInv, TypeOK
<1>3. CASE t \notin Undone
  <2>1. g[t] = base.bindings[t]
    BY <1>1, <1>3 DEF MergedBinding, FromBase, FromNew
  <2> QED BY <1>3, <2>1 DEF IsBound
<1> QED BY <1>2, <1>3

(* Those bindings make each another class as well, when the pairs share no    *)
(* type: a merged class has no binding of its own next to that of its         *)
(* interface, and one that is undone is not merged any more.                  *)
LEMMA BaseReserved ==
  ASSUME TypeInv, BindingInv, StoredInv, StoredReserved, PairsAreDisjoint,
         status = "running",
         NEW w \in LastUndone, NEW g, g = [t \in Type |-> MergedBinding(t, w)],
         g \in BindingMap
  PROVE  /\ OneEach(g, FromBase)
         /\ \A fns \in {ConstructorFn, ProviderFn} :
              \A t \in MadeAt(g, FromBase, fns) :
                g[t].create.c \in MadeIn(base.bindings, base.undo, fns)
<1>1. \A t \in Type : IsBound(g, t) => g[t].create.c \in Type
  BY DEF BindingMap, IsBound, Binding, CreateFunction
<1>2. FromBase \subseteq Type
  BY DEF FromBase
<1>3. ASSUME NEW t \in MadeAt(g, FromBase, MakingFn)
      PROVE  /\ t \in Type /\ IsBound(g, t) /\ t \in FromBase
             /\ g[t].create.fn \in MakingFn
             /\ \/ \E x \in CompressionsToUndo :
                     /\ x \in Type /\ base.undo[x] # Unbound /\ base.undo[x].i_type = t
                     /\ g[t].create = base.undo[x].i_binding.create
                \/ /\ t \in CompressionsToUndo /\ base.undo[t] # Unbound
                   /\ g[t].create = base.undo[t].c_binding.create
                \/ /\ t \notin Undone /\ IsBound(base.bindings, t)
                   /\ g[t] = base.bindings[t]
  <2>1. t \in FromBase /\ IsBound(g, t) /\ g[t].create.fn \in MakingFn
    BY DEF MadeAt
  <2> QED BY <1>2, <2>1, BaseBinding
<1>4. ASSUME NEW t \in MadeAt(g, FromBase, MakingFn), NEW c, c = g[t].create.c
      PROVE  \/ t = c /\ g[t].create.fn \notin CompressedFn
             \/ /\ c \in Type /\ base.undo[c] # Unbound /\ base.undo[c].i_type = t
                /\ ~IsBound(base.bindings, c) /\ c \notin CompressionsToUndo
  <2>1. CASE g[t].create.fn \in CompressedFn
    <3>1. c \in Type /\ Merges(g[t], c)
      BY <1>1, <1>3, <1>4, <2>1 DEF Merges
    <3>2. MergedBinding(t, w) = g[t] /\ g[t] # Unbound /\ t \in Type
      BY <1>3 DEF IsBound
    <3>3. Compressed(base.bindings, t, c) /\ c \notin CompressionsToUndo
      BY <3>1, <3>2, MergedComesFromBase
    <3>4. base.undo[c] # Unbound /\ base.undo[c].i_type = t
      BY <1>3, <3>1, <3>3 DEF StoredInv
    <3> QED BY <3>1, <3>3, <3>4 DEF StoredReserved
  <2>2. CASE g[t].create.fn \notin CompressedFn
    <3>1. AllInPlace(base.bindings, base.undo)
      BY DEF StoredReserved
    <3>2. c = t
      BY <1>3, <1>4, <2>2, <3>1 DEF AllInPlace, InPlace
    <3> QED BY <2>2, <3>2
  <2> QED BY <2>1, <2>2
<1>5. ASSUME NEW t \in MadeAt(g, FromBase, MakingFn), base.undo[t] # Unbound,
             ~IsBound(base.bindings, t), t \notin CompressionsToUndo
      PROVE  FALSE
  <2>1. PICK x \in CompressionsToUndo :
          x \in Type /\ base.undo[x] # Unbound /\ base.undo[x].i_type = t
    BY <1>3, <1>5
  <2>2. Pair(x) \cap Pair(t) # {} /\ t \in Type
    BY <1>3, <2>1 DEF Pair
  <2> QED BY <1>5, <2>1, <2>2 DEF PairsAreDisjoint
<1>6. OneEach(g, FromBase)
  <2>1. SUFFICES ASSUME NEW t \in MadeAt(g, FromBase, MakingFn),
                        NEW u \in MadeAt(g, FromBase, MakingFn),
                        g[t].create.c = g[u].create.c
                 PROVE  t = u
    BY DEF OneEach
  <2>2. PICK c : c = g[t].create.c /\ c = g[u].create.c
    BY <2>1
  <2>3. /\ \/ t = c
           \/ /\ base.undo[c] # Unbound /\ base.undo[c].i_type = t
              /\ ~IsBound(base.bindings, c) /\ c \notin CompressionsToUndo
        /\ \/ u = c
           \/ /\ base.undo[c] # Unbound /\ base.undo[c].i_type = u
              /\ ~IsBound(base.bindings, c) /\ c \notin CompressionsToUndo
    BY <1>4, <2>2
  <2> QED BY <1>5, <2>3
<1>7. ASSUME NEW fns \in {ConstructorFn, ProviderFn}, NEW t \in MadeAt(g, FromBase, fns)
      PROVE  g[t].create.c \in MadeIn(base.bindings, base.undo, fns)
  <2>1. t \in MadeAt(g, FromBase, MakingFn) /\ g[t].create.fn \in fns
    BY DEF MadeAt, MakingFn
  <2>2. g[t].create.c \in Type
    BY <1>1, <1>3, <2>1
  <2> QED BY <1>3, <2>1, <2>2 DEF MadeIn, Makes
<1> QED BY <1>6, <1>7

(* Two reservations, one on top of the other.                                 *)
LEMMA SplitCount ==
  ASSUME NEW S, NEW T, IsFiniteSet(S), IsFiniteSet(T)
  PROVE  /\ IsFiniteSet(S \cup T) /\ Cardinality(S \cup T) \in Nat
         /\ Cardinality(S) \in Nat /\ Cardinality(T) \in Nat
         /\ Cardinality(S \cup T) <= Cardinality(S) + Cardinality(T)
<1>1. /\ IsFiniteSet(S \cup T)
      /\ Cardinality(S \cup T) = Cardinality(S) + Cardinality(T) - Cardinality(S \cap T)
  BY FS_Union
<1>2. IsFiniteSet(S \cap T)
  BY FS_Intersection
<1>3. /\ Cardinality(S) \in Nat /\ Cardinality(T) \in Nat
      /\ Cardinality(S \cap T) \in Nat /\ Cardinality(S \cup T) \in Nat
  BY <1>1, <1>2, FS_CardinalityType
<1> QED BY <1>1, <1>3

(* The injector built on a normalized component has what both have reserved.  *)
LEMMA InjectorReserved ==
  ASSUME TypeInv, TypeInv', BindingInv, CompressionInv, ReservationInv, FinishAddTo
  PROVE  ReservationInv'
<1>1. /\ status = "running" /\ status' = "ready" /\ phase = "add_to" /\ AddMultibindings
      /\ UNCHANGED <<phase, base, multibindingsVector>>
  BY DEF FinishAddTo
<1>2. PICK w \in LastUndone : graph' = [t \in Type |-> MergedBinding(t, w)]
  BY DEF FinishAddTo
<1>3. PICK g \in BindingMap : g = graph'
  BY DEF TypeInv, TypeOK
<1>4. g = [t \in Type |-> MergedBinding(t, w)]
  BY <1>2, <1>3
<1>5. StoredReserved' /\ StoredReserved /\ StoredInv
  BY <1>1, StoredReservedStays DEF ReservationInv, CompressionInv
<1>6. SUFFICES AllocatorReserved'
  BY <1>1, <1>5 DEF ReservationInv, RunningReserved, MergedAreMade
<1>7. PairsAreDisjoint' = PairsAreDisjoint
  BY <1>1 DEF PairsAreDisjoint, Pair
<1>8. SUFFICES ASSUME PairsAreDisjoint
               PROVE  /\ \A t \in Type : allocatorData'.types[t] >=
                           Cardinality(Constructs(t))' + MultibindingsAllocated(t)'
                      /\ allocatorData'.external >= Cardinality(Provided)'
  BY <1>1, <1>7 DEF AllocatorReserved
<1>9. PICK N, O \in SUBSET Type : N = FromNew /\ O = FromBase /\ N \cup O = Type
  BY DEF FromNew, FromBase
<1>10. PICK m \in Seq(Multibinding), b \in Seq(Multibinding) :
         m = multibindingsVector /\ b = base.multibindings
  BY DEF TypeInv, TypeOK, NormalizedComponentStorage
<1>11. PICK a \in AllocatorData, d \in AllocatorData, e \in AllocatorData :
         a = allocatorData /\ d = base.allocator /\ e = allocatorData'
  BY AllocatorTypes, MultibindingsAdded, <1>1
<1>12. /\ \A c \in Type :
            /\ IsFiniteSet(ClassMadeAt(g, N, c))
            /\ a.types[c] >= d.types[c] + Cardinality(ClassMadeAt(g, N, c))
       /\ IsFiniteSet(MadeAt(g, N, ProviderFn))
       /\ a.external >= d.external + Cardinality(MadeAt(g, N, ProviderFn))
  <2>1. Reserves(a, d, New(ConstructorFn), New(ProviderFn))
    BY <1>1, <1>11 DEF ReservationInv, RunningReserved
  <2>2. /\ OneEach(g, N)
        /\ \A t \in MadeAt(g, N, ConstructorFn) : g[t].create.c \in New(ConstructorFn)
        /\ \A t \in MadeAt(g, N, ProviderFn) : g[t].create.c \in New(ProviderFn)
    BY <1>1, <1>4, <1>9, NewReserved
  <2> QED BY <2>1, <2>2, EnoughForEach
<1>13. /\ \A c \in Type :
            /\ IsFiniteSet(ClassMadeAt(g, O, c))
            /\ d.types[c] >= CountOf(b, c) + Cardinality(ClassMadeAt(g, O, c))
       /\ IsFiniteSet(MadeAt(g, O, ProviderFn))
       /\ d.external >= 0 + Cardinality(MadeAt(g, O, ProviderFn))
  <2>1. Reserves(d, Counted(b), MadeIn(base.bindings, base.undo, ConstructorFn),
                 MadeIn(base.bindings, base.undo, ProviderFn))
    BY <1>5, <1>10, <1>11 DEF StoredReserved
  <2>2. /\ OneEach(g, O)
        /\ \A t \in MadeAt(g, O, ConstructorFn) :
             g[t].create.c \in MadeIn(base.bindings, base.undo, ConstructorFn)
        /\ \A t \in MadeAt(g, O, ProviderFn) :
             g[t].create.c \in MadeIn(base.bindings, base.undo, ProviderFn)
    BY <1>1, <1>4, <1>5, <1>8, <1>9, BaseReserved
  <2>3. /\ Counted(b) \in AllocatorData /\ Counted(b).external = 0
        /\ \A c \in Type : Counted(b).types[c] = CountOf(b, c)
    BY CountType DEF Counted
  <2>4. /\ \A c \in Type :
             /\ IsFiniteSet(ClassMadeAt(g, O, c))
             /\ d.types[c] >= Counted(b).types[c] + Cardinality(ClassMadeAt(g, O, c))
        /\ IsFiniteSet(MadeAt(g, O, ProviderFn))
        /\ d.external >= Counted(b).external + Cardinality(MadeAt(g, O, ProviderFn))
    BY <2>1, <2>2, <2>3, EnoughForEach
  <2> QED BY <2>3, <2>4
<1>14. ASSUME NEW c \in Type
       PROVE  e.types[c] >= Cardinality(Constructs(c))' + MultibindingsAllocated(c)'
  <2>1. Constructs(c)' = ClassMadeAt(g, N, c) \cup ClassMadeAt(g, O, c)
    <3>1. Constructs(c)' = ClassMadeAt(g, Type, c)
      BY <1>3 DEF Constructs, ClassMadeAt, MadeAt, ConstructorFn, IsBound
    <3>2. ClassMadeAt(g, Type, c) = ClassMadeAt(g, N, c) \cup ClassMadeAt(g, O, c)
      BY <1>9 DEF ClassMadeAt, MadeAt
    <3> QED BY <3>1, <3>2
  <2>2. MultibindingsAllocated(c)' = CountOf(b, c) + CountOf(m, c)
    <3>1. MultibindingsAllocated(c)' = CountOf(b \o m, c)
      BY <1>1, <1>10 DEF MultibindingsAllocated, AllMultibindings, CountOf
    <3> QED BY <3>1, CountConcatenated
  <2>3. e.types[c] = a.types[c] + CountOf(m, c)
    BY <1>1, <1>10, <1>11, MultibindingsAdded
  <2>4. PICK x, y, z \in Nat : /\ x = Cardinality(Constructs(c))'
                               /\ y = Cardinality(ClassMadeAt(g, N, c))
                               /\ z = Cardinality(ClassMadeAt(g, O, c))
                               /\ x <= y + z
    BY <1>12, <1>13, <2>1, SplitCount
  <2>5. PICK p, q \in Nat : p = CountOf(b, c) /\ q = CountOf(m, c)
    BY CountType DEF AllocatorData
  <2>6. PICK j, k \in Nat : j = a.types[c] /\ k = d.types[c]
    BY DEF AllocatorData
  <2>7. j >= k + y /\ k >= p + z
    BY <1>12, <1>13, <2>4, <2>5, <2>6
  <2>8. x \in Nat /\ y \in Nat /\ z \in Nat /\ x <= y + z
    BY <2>4
  <2>9. p \in Nat /\ q \in Nat /\ j \in Nat /\ k \in Nat
    BY <2>5, <2>6
  <2>10. j + q >= x + (p + q)
    BY <2>7, <2>8, <2>9
  <2> QED BY <2>2, <2>3, <2>4, <2>5, <2>6, <2>10
<1>15. e.external >= Cardinality(Provided)'
  <2>1. Provided' = MadeAt(g, N, ProviderFn) \cup MadeAt(g, O, ProviderFn)
    <3>1. Provided' = MadeAt(g, Type, ProviderFn)
      BY <1>3 DEF Provided, MadeAt, ProviderFn, IsBound
    <3>2. MadeAt(g, Type, ProviderFn) = MadeAt(g, N, ProviderFn) \cup MadeAt(g, O, ProviderFn)
      BY <1>9 DEF MadeAt
    <3> QED BY <3>1, <3>2
  <2>2. e.external >= a.external
    BY <1>1, <1>11, MultibindingsAdded
  <2>3. PICK x, y, z \in Nat : /\ x = Cardinality(Provided)'
                               /\ y = Cardinality(MadeAt(g, N, ProviderFn))
                               /\ z = Cardinality(MadeAt(g, O, ProviderFn))
                               /\ x <= y + z
    BY <1>12, <1>13, <2>1, SplitCount
  <2>4. a.external \in Nat /\ d.external \in Nat /\ e.external \in Nat
    BY DEF AllocatorData
  <2>5. a.external >= d.external + y /\ d.external >= 0 + z
    BY <1>12, <1>13, <2>3
  <2> QED BY <2>2, <2>3, <2>4, <2>5, SMTT(30)
<1> QED BY <1>11, <1>14, <1>15

(* The injector starts with the allocator data of the normalized component,   *)
(* and with no bindings.                                                      *)
LEMMA AddToStartedReserved ==
  ASSUME TypeInv, ReservationInv, StartAddTo
  PROVE  ReservationInv'
<1>1. /\ status' = "running" /\ phase' = "add_to" /\ base' = base
      /\ bindingDataMap' = NothingBound /\ allocatorData' = base.allocator
  BY DEF StartAddTo, storageVars
<1>2. New(ConstructorFn)' = {} /\ New(ProviderFn)' = {}
  BY <1>1 DEF New, MadeIn, NothingBound, IsBound
<1>3. Reserves(base.allocator, base.allocator, {}, {})
  <2>1. \A t \in Type : base.allocator.types[t] \in Nat
    BY AllocatorTypes DEF AllocatorData
  <2>2. base.allocator.external \in Nat
    BY AllocatorTypes DEF AllocatorData
  <2>3. IsFiniteSet({}) /\ Cardinality({}) = 0
    BY FS_EmptySet
  <2>4. base.allocator.external >= base.allocator.external + Cardinality({})
    BY <2>2, <2>3
  <2>5. \A t \in Type : base.allocator.types[t] >= base.allocator.types[t] + One(t, {})
    BY <2>1 DEF One
  <2> QED BY <2>3, <2>4, <2>5 DEF Reserves
<1>4. RunningReserved'
  BY <1>1, <1>2, <1>3 DEF RunningReserved, Reserves
<1>5. StoredReserved'
  BY <1>1, StoredReservedStays DEF ReservationInv
<1> QED BY <1>1, <1>4, <1>5
        DEF ReservationInv, MergedAreMade, AllocatorReserved, GraphIsBuilt

-----------------------------------------------------------------------------
(* Nothing has to be reserved for nothing.                                    *)
LEMMA NothingReserved ==
  ASSUME NEW a, a.external = 0, \A t \in Type : a.types[t] = 0
  PROVE  Reserves(NothingAllocated, a, {}, {})
<1>1. IsFiniteSet({}) /\ Cardinality({}) = 0
  BY FS_EmptySet
<1> QED BY <1>1 DEF Reserves, NothingAllocated, One

(* An empty storage brings nothing.                                           *)
LEMMA EmptyReserved == base = EmptyStorage => StoredReserved
<1> SUFFICES ASSUME base = EmptyStorage PROVE StoredReserved
  OBVIOUS
<1>1. ASSUME NEW t \in Type PROVE Counted(<<>>).types[t] = 0
  <2>1. {i \in DOMAIN <<>> : /\ <<>>[i].kind = "multibinding_needs_allocation"
                            /\ <<>>[i].type = t} = {}
    OBVIOUS
  <2> QED BY <2>1, FS_EmptySet DEF Counted, CountOf
<1>2. Counted(<<>>).external = 0
  BY DEF Counted
<1>3. Reserves(NothingAllocated, Counted(<<>>), {}, {})
  <2> HIDE DEF Counted
  <2> QED BY <1>1, <1>2, NothingReserved
<1>4. \A fns : MadeIn(NothingBound, NothingBound, fns) = {}
  BY DEF MadeIn, NothingBound, IsBound
<1>5. AllInPlace(NothingBound, NothingBound)
  BY DEF AllInPlace, NothingBound, IsBound
<1> QED BY <1>3, <1>4, <1>5 DEF StoredReserved, EmptyStorage, NothingBound

(* The first state.                                                           *)
LEMMA ReservationInit == Init => ReservationInv
<1> SUFFICES ASSUME Init PROVE ReservationInv
  OBVIOUS
<1>1. /\ status = "running" /\ phase # "add_to" /\ base = EmptyStorage
      /\ inProgress = {} /\ fullyExpanded = {} /\ allocatorData = NothingAllocated
  BY DEF Init
<1>2. Declared = {}
  BY <1>1 DEF Declared, Started, EmptyStorage
<1>3. \A fns : New(fns) = {}
  BY <1>1, <1>2 DEF New, Handled
<1>4. Reserves(NothingAllocated, NothingAllocated, {}, {})
  BY NothingReserved DEF NothingAllocated
<1>5. RunningReserved
  BY <1>1, <1>3, <1>4 DEF RunningReserved, EmptyStorage
<1> QED BY <1>1, <1>5, EmptyReserved
        DEF ReservationInv, MergedAreMade, AllocatorReserved, GraphIsBuilt

(* Every step keeps the invariant.                                            *)
LEMMA ReservationNext ==
  TypeInv /\ TypeInv' /\ ExpansionInv /\ BindingInv /\ CompressionInv /\ ReservationInv
    /\ [Next]_vars => ReservationInv'
<1> SUFFICES ASSUME TypeInv, TypeInv', ExpansionInv, BindingInv, CompressionInv,
                    ReservationInv, [Next]_vars
             PROVE  ReservationInv'
  OBVIOUS
<1>1. CASE HandleBinding
  BY <1>1, BindingReserved
<1>2. CASE \/ HandleCompressedBinding \/ SkipLazyComponent \/ HandleEndMarker
           \/ HandleMultibinding \/ HandleReplaced \/ HandleReplacedAgain
           \/ PerformComponentReplacement \/ ExpandLazyComponent
  BY <1>2, OtherSteps
<1>3. CASE HandleInconsistentBinding
  BY <1>3, FailKeepsReserved DEF HandleInconsistentBinding, Handling, Errors
<1>4. CASE HandleReplacedTooLate
  BY <1>4, FailKeepsReserved DEF HandleReplacedTooLate, Handling, Errors
<1>5. CASE HandleReplacedDifferently
  BY <1>5, FailKeepsReserved DEF HandleReplacedDifferently, Handling, Errors
<1>6. CASE DetectInstallationLoop
  BY <1>6, FailKeepsReserved DEF DetectInstallationLoop, Handling, Errors
<1>7. CASE CompressMissingBinding
  BY <1>7, FailKeepsReserved DEF CompressMissingBinding, Errors
<1>8. CASE StartCompression
  BY <1>8, MergingReserved
<1>9. CASE CompressBinding
  BY <1>9, PairReserved
<1>10. CASE FinishPermanent
  BY <1>10, PermanentReserved
<1>11. CASE FinishUndoable
  BY <1>11, NormalizedReserved
<1>12. CASE StartAddTo
  BY <1>12, AddToStartedReserved
<1>13. CASE FinishAddTo
  BY <1>13, InjectorReserved
<1>14. CASE DestroyNormalizedComponent
  <2>1. status' = "destroyed" /\ base' = EmptyStorage
    BY <1>14 DEF DestroyNormalizedComponent
  <2>2. StoredReserved'
    <3>1. (base = EmptyStorage => StoredReserved)'
      BY EmptyReserved, PTL
    <3> QED BY <2>1, <3>1
  <2> QED BY <2>1, <2>2
          DEF ReservationInv, RunningReserved, MergedAreMade, AllocatorReserved, GraphIsBuilt
<1>15. CASE Terminated \/ UNCHANGED vars
  <2>1. UNCHANGED <<prog, phase, status, stack, inProgress, fullyExpanded, graph,
                    bindingDataMap, undoInfo, base, multibindingsVector, allocatorData>>
    BY <1>15 DEF Terminated, vars, expansionVars, bindingVars, storageVars
  <2>2. Declared' = Declared
    <3>1. Started' = Started
      BY <2>1 DEF Started
    <3> QED BY <2>1, <3>1, StartedStays
  <2>3. \A fns : /\ Handled(fns)' = Handled(fns)
                 /\ MadeIn(bindingDataMap, NothingBound, fns)'
                      = MadeIn(bindingDataMap, NothingBound, fns)
                 /\ MadeIn(bindingDataMap, undoInfo, fns)'
                      = MadeIn(bindingDataMap, undoInfo, fns)
    BY <2>1, <2>2 DEF Handled, MadeIn, Occurs, IsBound
  <2>4. RunningReserved'
    BY <2>1, <2>3 DEF ReservationInv, RunningReserved, Reserves, New
  <2>5. MergedAreMade'
    <3>1. /\ AllInPlace(bindingDataMap, undoInfo)' = AllInPlace(bindingDataMap, undoInfo)
          /\ \A i, c : Compressed(bindingDataMap, i, c)' = Compressed(bindingDataMap, i, c)
      BY <2>1 DEF AllInPlace, Compressed, IsBound
    <3> QED BY <2>1, <2>3, <3>1 DEF ReservationInv, MergedAreMade
  <2>6. StoredReserved'
    BY <2>1, StoredReservedStays DEF ReservationInv
  <2>7. AllocatorReserved'
    BY <2>1 DEF ReservationInv, AllocatorReserved, GraphIsBuilt, PairsAreDisjoint, Pair,
                Constructs, Provided, MultibindingsAllocated, AllMultibindings, IsBound
  <2> QED BY <2>4, <2>5, <2>6, <2>7 DEF ReservationInv
<1> QED BY <1>1, <1>2, <1>3, <1>4, <1>5, <1>6, <1>7, <1>8, <1>9, <1>10, <1>11, <1>12,
           <1>13, <1>14, <1>15 DEF Next

(* AllocatorReserved, for every program: through duplicate bindings, merges   *)
(* in whatever order the unordered map yields them, and the undoing of merges *)
(* by a second component, the FixedSizeAllocatorData counts at least one      *)
(* object for each class that a create function of the graph constructs, one  *)
(* for each multibinding made in place, and one destroy slot for each object  *)
(* that a provider hands over; for injectors on a normalized component, as    *)
(* long as no two of its merged pairs share a type.                           *)
THEOREM GraphFitsItsAllocator == Spec => []AllocatorReserved
<1> DEFINE Inv == TypeInv /\ ExpansionInv /\ BindingInv /\ CompressionInv /\ ReservationInv
<1>1. Init => Inv
  BY TypeInvInit, ExpansionInvInit, BindingInit, CompressionInit, ReservationInit
<1>2. Inv /\ [Next]_vars => Inv'
  <2>1. Inv /\ [Next]_vars => (TypeInv /\ ExpansionInv /\ BindingInv /\ CompressionInv)'
    BY TypeInvNext, ExpansionInvNext, BindingNext, CompressionNext
  <2>2. Inv /\ [Next]_vars => ReservationInv'
    BY <2>1, ReservationNext
  <2> QED BY <2>1, <2>2
<1>3. Inv => AllocatorReserved
  BY DEF ReservationInv
<1> QED BY <1>1, <1>2, <1>3, PTL DEF Spec
================================================================================
