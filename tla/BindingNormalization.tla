------------------------- MODULE BindingNormalization -------------------------
(***************************************************************************)
(* BindingNormalization: how the entries of a component become the binding *)
(* graph of an injector.                                                   *)
(*                                                                         *)
(* The entries still to process are a stack.  A lazily installed component *)
(* stays on it as an end marker under the entries that it expands to, so   *)
(* the markers are the call stack of the expansion.  When the stack is      *)
(* empty the compressible pairs I -> C collapse into one binding.           *)
(*                                                                         *)
(* A program builds an injector in one of two ways:                         *)
(*   phase "permanent":  Injector(root);                                    *)
(*   phase "undoable":   NormalizedComponent(base), and then                *)
(*   phase "add_to":     Injector(normalized component, root), which may    *)
(*                       have to undo compressions of the first phase.      *)
(***************************************************************************)
EXTENDS Integers, FiniteSets, ComponentStorageEntry

CONSTANTS Program,      \* the programs considered
          NoComponent   \* the absence of a component

NoMarkers(s) == \A i \in DOMAIN s : s[i].kind # "end_marker"

(* A replaced component lies on the replacement pushed with it, and a vector *)
(* creator on its multibinding.                                              *)
Paired(s, i) ==
  /\ s[i].kind = "replaced" <=> i > 1 /\ s[i - 1].kind = "replacement"
  /\ s[i].kind = "multibinding_vector_creator"
       <=> i > 1 /\ s[i - 1].kind \in MultibindingKind
  /\ s[i].kind \in {"replacement"} \cup MultibindingKind => i < Len(s)
WellPaired(s) == \A i \in DOMAIN s : Paired(s, i)

ASSUME ComponentAssumption ==
  IsFiniteSet(Component) /\ NoComponent \notin Component

ASSUME ProgramAssumption ==
  \A p \in Program :
    /\ p.body \in [Component -> Seq(Entry)]
    /\ \A c \in Component : NoMarkers(p.body[c]) /\ WellPaired(p.body[c])
    /\ p.root \in Component
    /\ p.base \in Component \cup {NoComponent}
    /\ p.exposed \subseteq Type
    /\ p.baseExposed \subseteq Type
    /\ p.declared \in Seq(Component)

(* A create function is made by one operation for one signature: it pushes     *)
(* one kind of binding, with one set of dependencies.                          *)
ASSUME CreateFunctionAssumption ==
  \A p \in Program, c, d \in Component :
    \A i \in DOMAIN p.body[c], j \in DOMAIN p.body[d] :
      LET e == p.body[c][i]
          f == p.body[d][j]
      IN  e.kind \in BindingKind /\ f.kind \in BindingKind /\ e.create = f.create
            => e.kind = f.kind /\ e.deps = f.deps

(* The class of a compressed entry is constructed or provided in the same      *)
(* component, and no binding is made with a create function for the pair.      *)
CompressedFn == {"compressed_constructor", "compressed_provider"}

ASSUME CompressedEntryAssumption ==
  \A p \in Program, c \in Component : \A i \in DOMAIN p.body[c] :
    LET e == p.body[c][i]
    IN  /\ e.kind \in BindingKind => e.create.fn \notin CompressedFn
        /\ e.kind = "compressed" =>
             /\ e.create.fn \in CompressedFn
             /\ e.create.c = e.c_type
             /\ \E j \in DOMAIN p.body[c] :
                  /\ p.body[c][j].kind \in BindingKind
                  /\ p.body[c][j].type = e.c_type
                  /\ p.body[c][j].create.fn =
                       IF e.create.fn = "compressed_constructor"
                         THEN "constructor" ELSE "provider"

(* A constructor or a provider is bound to the class that it makes, and the    *)
(* space for that class is reserved for a constructor only.  A provider that   *)
(* returns its object by value constructs it in place: it is a constructor.    *)
ASSUME MadeEntryAssumption ==
  \A p \in Program, c \in Component : \A i \in DOMAIN p.body[c] :
    LET e == p.body[c][i]
    IN  e.kind \in BindingKind =>
          /\ e.create.fn = "constructor" =>
               e.kind = "needs_allocation" /\ e.create.c = e.type
          /\ e.create.fn \in {"provider", "other_provider"} =>
               e.kind = "needs_no_allocation" /\ e.create.c = e.type

VARIABLES
  prog,                 \* the program, fixed
  phase,                \* which of the three normalizations is under way
  status,               \* "running", "compressing", "ready", ... or an error
  stack,                \* entries_to_process; the back of the vector is last
  inProgress,           \* components_*_with_expansion_in_progress
  fullyExpanded,        \* fully_expanded_components_*
  replacements,         \* component_*_replacements
  bindingDataMap,       \* binding_data_map
  compressedBindings,   \* compressed_bindings_map: c -> the entry i -> c
  undoInfo,             \* binding_compression_info_map
  multibindingsVector,  \* multibindings_vector
  allocatorData,        \* fixed_size_allocator_data
  base,                 \* the NormalizedComponentStorage built first
  graph,                \* bindings of the storage built last
  live,                 \* ComponentInterfaceImpl objects on the heap
  installs              \* history: calls of each component function

expansionVars == <<stack, inProgress, fullyExpanded, replacements, installs>>
bindingVars == <<bindingDataMap, compressedBindings, undoInfo,
                 multibindingsVector, allocatorData>>
storageVars == <<base, graph>>
vars == <<prog, phase, status, expansionVars, bindingVars, storageVars, live>>

-----------------------------------------------------------------------------
Unbound == [kind |-> "unbound"]
IsBound(map, t) == map[t] # Unbound

UndoInfo == [i_type : Type, i_binding : Binding, c_binding : Binding]

BindingMap == [Type -> Binding \cup {Unbound}]
CompressionMap == [Type -> CompressedBinding \cup {Unbound}]
UndoMap == [Type -> UndoInfo \cup {Unbound}]
ReplacementMap == [Component -> Component \cup {NoComponent}]
AllocatorData == [types : [Type -> Nat], external : Nat]

NormalizedComponentStorage ==
  [bindings : BindingMap, undo : UndoMap, multibindings : Seq(Multibinding),
   allocator : AllocatorData, fullyExpanded : SUBSET Component,
   replacements : ReplacementMap]

NothingBound == [t \in Type |-> Unbound]
NothingReplaced == [c \in Component |-> NoComponent]
NothingAllocated == [types |-> [t \in Type |-> 0], external |-> 0]

EmptyStorage ==
  [bindings |-> NothingBound, undo |-> NothingBound, multibindings |-> <<>>,
   allocator |-> NothingAllocated, fullyExpanded |-> {},
   replacements |-> NothingReplaced]

Errors == {"multiple_bindings", "installation_loop",
           "replacement_after_expansion", "incompatible_replacements",
           "undefined_behaviour"}

TypeOK ==
  /\ phase \in {"permanent", "undoable", "add_to"}
  /\ status \in {"running", "compressing", "ready", "destroyed"} \cup Errors
  /\ stack \in Seq(Entry)
  /\ inProgress \subseteq Component
  /\ fullyExpanded \subseteq Component
  /\ replacements \in ReplacementMap
  /\ bindingDataMap \in BindingMap
  /\ compressedBindings \in CompressionMap
  /\ undoInfo \in UndoMap
  /\ multibindingsVector \in Seq(Multibinding)
  /\ allocatorData \in AllocatorData
  /\ base \in NormalizedComponentStorage
  /\ graph \in BindingMap
  /\ live \in [Component -> Int]
  /\ installs \in [Component -> Nat]

-----------------------------------------------------------------------------
(* The heap: a component entry with arguments owns a ComponentInterfaceImpl. *)
Owners(s, c) == Cardinality({i \in DOMAIN s : /\ s[i].kind \in ComponentKind
                                              /\ s[i].comp = c})
Create(l, s) == [c \in Component |->
                   IF c \in WithArgs THEN l[c] + Owners(s, c) ELSE l[c]]
Copy(l, c) == IF c \in WithArgs THEN [l EXCEPT ![c] = @ + 1] ELSE l
Destroy(l, c) == IF c \in WithArgs THEN [l EXCEPT ![c] = @ - 1] ELSE l

(* What the destructor of a context or of a storage frees: the expanded       *)
(* components, and the keys and the values of the replacement maps.           *)
OwnedBy(expanded, repl, c) ==
  (IF c \in expanded THEN 1 ELSE 0)
    + (IF repl[c] # NoComponent THEN 1 ELSE 0)
    + Cardinality({d \in Component : repl[d] = c})
DestroyAll(l, expanded, repl) ==
  [c \in Component |->
     IF c \in WithArgs THEN l[c] - OwnedBy(expanded, repl, c) ELSE l[c]]

AddType(a, t) == [a EXCEPT !.types[t] = @ + 1]
AddExternallyAllocatedType(a) == [a EXCEPT !.external = @ + 1]

-----------------------------------------------------------------------------
(* The stack.  Every entry handler looks at the back of the vector.           *)
Top == stack[Len(stack)]
Under == stack[Len(stack) - 1]
Pop(n) == SubSeq(stack, 1, Len(stack) - n)
ReplaceTop(e) == Append(Pop(1), e)

Handling(kinds) ==
  status = "running" /\ stack # <<>> /\ Top.kind \in kinds

Fail(error) ==
  /\ status' = error
  /\ UNCHANGED <<prog, phase, expansionVars, bindingVars, storageVars, live>>

(* The toplevel component of every storage has the one entry that installs    *)
(* the component function it was given.                                       *)
Init ==
  /\ prog \in Program
  /\ phase = IF prog.base = NoComponent THEN "permanent" ELSE "undoable"
  /\ status = "running"
  /\ stack = Install(IF prog.base = NoComponent THEN prog.root ELSE prog.base)
  /\ inProgress = {}
  /\ fullyExpanded = {}
  /\ replacements = NothingReplaced
  /\ bindingDataMap = NothingBound
  /\ compressedBindings = NothingBound
  /\ undoInfo = NothingBound
  /\ multibindingsVector = <<>>
  /\ allocatorData = NothingAllocated
  /\ base = EmptyStorage
  /\ graph = NothingBound
  /\ live = Create([c \in Component |-> 0], stack)
  /\ installs = [c \in Component |-> 0]

-----------------------------------------------------------------------------
(* Mutant: a duplicate in the map only has to have the same kind.             *)
ConsistentKindOnly(e) ==
  LET old == base.bindings[e.type]
      new == bindingDataMap[e.type]
  IN IF old # Unbound
       THEN /\ old.create = e.create
            /\ (old.kind = "constructed_object") = (e.kind = "constructed_object")
       ELSE new = Unbound \/ new.kind = e.kind

(* Bindings.  A binding already in the normalized component has to be the     *)
(* same: both an object, at the same address, or both a create function, the  *)
(* same one.  One already in this map has to have the same kind as well.      *)
Consistent(e) ==
  LET old == base.bindings[e.type]
      new == bindingDataMap[e.type]
  IN IF old # Unbound
       THEN /\ old.create = e.create
            /\ (old.kind = "constructed_object") = (e.kind = "constructed_object")
       ELSE new = Unbound \/ (new.kind = e.kind /\ new.create = e.create)

(* The allocator data is updated before the duplicate is noticed, unless the  *)
(* duplicate is in the normalized component.                                  *)
Reserve(e) ==
  CASE e.kind = "needs_allocation" -> AddType(allocatorData, e.type)
    [] e.kind = "needs_no_allocation" ->
         AddExternallyAllocatedType(allocatorData)
    [] OTHER -> allocatorData

HandleBinding ==
  /\ Handling({"constructed_object", "needs_allocation",
               "needs_no_allocation"})
  /\ LET e == Top
         new == ~IsBound(base.bindings, e.type)
     IN /\ Consistent(e)
        /\ allocatorData' = IF new THEN Reserve(e) ELSE allocatorData
        /\ bindingDataMap' = IF new /\ ~IsBound(bindingDataMap, e.type)
                               THEN [bindingDataMap EXCEPT ![e.type] = e]
                               ELSE bindingDataMap
  /\ stack' = Pop(1)
  /\ UNCHANGED <<prog, phase, status, inProgress, fullyExpanded, replacements,
                 installs, compressedBindings, undoInfo, multibindingsVector,
                 storageVars, live>>

HandleInconsistentBinding ==
  /\ Handling({"constructed_object", "needs_allocation",
               "needs_no_allocation"})
  /\ ~Consistent(Top)
  /\ Fail("multiple_bindings")

(* The last entry for a class wins; normalizeBindingsAndAddTo ignores them.   *)
HandleCompressedBinding ==
  /\ Handling({"compressed"})
  /\ compressedBindings' =
       IF phase = "add_to" THEN compressedBindings
       ELSE [compressedBindings EXCEPT ![Top.c_type] = Top]
  /\ stack' = Pop(1)
  /\ UNCHANGED <<prog, phase, status, inProgress, fullyExpanded, replacements,
                 installs, bindingDataMap, undoInfo, multibindingsVector,
                 allocatorData, storageVars, live>>

(* Mutant: the two entries of a multibinding are swapped.                     *)
HandleMultibindingSwapped ==
  /\ Handling({"multibinding_vector_creator"})
  /\ multibindingsVector' = Append(multibindingsVector, Top)
  /\ stack' = Pop(2)
  /\ UNCHANGED <<prog, phase, status, inProgress, fullyExpanded, replacements,
                 installs, bindingDataMap, compressedBindings, undoInfo,
                 allocatorData, storageVars, live>>

HandleMultibinding ==
  /\ Handling({"multibinding_vector_creator"})
  /\ multibindingsVector' = Append(multibindingsVector, Under)
  /\ stack' = Pop(2)
  /\ UNCHANGED <<prog, phase, status, inProgress, fullyExpanded, replacements,
                 installs, bindingDataMap, compressedBindings, undoInfo,
                 allocatorData, storageVars, live>>

-----------------------------------------------------------------------------
(* Mutant: a component whose expansion is in progress has not started.        *)
HasStartedOnlyWhenDone(c) == c \in fullyExpanded \cup base.fullyExpanded

(* Replacements.                                                             *)
HasStarted(c) == c \in inProgress \cup fullyExpanded \cup base.fullyExpanded

Replacement(c) == IF base.replacements[c] # NoComponent
                    THEN base.replacements[c] ELSE replacements[c]

HandleReplacedTooLate ==
  /\ Handling({"replaced"})
  /\ HasStarted(Top.comp)
  /\ Fail("replacement_after_expansion")

HandleReplaced ==
  /\ Handling({"replaced"})
  /\ ~HasStarted(Top.comp)
  /\ Replacement(Top.comp) = NoComponent
  /\ replacements' = [replacements EXCEPT ![Top.comp] = Under.comp]
  /\ stack' = Pop(2)
  /\ UNCHANGED <<prog, phase, status, inProgress, fullyExpanded, installs,
                 bindingVars, storageVars, live>>

(* Mutant: the repeated replacement component is not destroyed.               *)
HandleReplacedAgainLeaking ==
  /\ Handling({"replaced"})
  /\ ~HasStarted(Top.comp)
  /\ Replacement(Top.comp) = Under.comp
  /\ live' = Destroy(live, Top.comp)
  /\ stack' = Pop(2)
  /\ UNCHANGED <<prog, phase, status, inProgress, fullyExpanded, replacements,
                 installs, bindingVars, storageVars>>

(* handlePreexistingLazyComponent*Replacement: the same replacement again.     *)
HandleReplacedAgain ==
  /\ Handling({"replaced"})
  /\ ~HasStarted(Top.comp)
  /\ Replacement(Top.comp) = Under.comp
  /\ live' = Destroy(Destroy(live, Top.comp), Under.comp)
  /\ stack' = Pop(2)
  /\ UNCHANGED <<prog, phase, status, inProgress, fullyExpanded, replacements,
                 installs, bindingVars, storageVars>>

(* For a replaced component without arguments the code does not look at the   *)
(* kind of the old replacement when the new one has arguments, and reads a    *)
(* function pointer as a pointer to a ComponentInterface.                     *)
ReadsWrongUnionMember(c, old, new) ==
  c \notin WithArgs /\ new \in WithArgs /\ old \notin WithArgs

HandleReplacedDifferently ==
  /\ Handling({"replaced"})
  /\ LET c == Top.comp
         old == Replacement(c)
     IN /\ ~HasStarted(c)
        /\ old \notin {NoComponent, Under.comp}
        /\ \/ Fail("incompatible_replacements")
           \/ /\ ReadsWrongUnionMember(c, old, Under.comp)
              /\ Fail("undefined_behaviour")

-----------------------------------------------------------------------------
(* Mutant: what the normalized component has expanded is forgotten.           *)
IsExpandedHere(c) == c \in fullyExpanded

(* Lazily installed components.                                              *)
IsExpanded(c) == c \in fullyExpanded \cup base.fullyExpanded

SkipLazyComponent ==
  /\ Handling({"lazy"})
  /\ IsExpanded(Top.comp)
  /\ live' = Destroy(live, Top.comp)
  /\ stack' = Pop(1)
  /\ UNCHANGED <<prog, phase, status, inProgress, fullyExpanded, replacements,
                 installs, bindingVars, storageVars>>

(* Mutant: the entry is removed instead of replaced.                          *)
PerformComponentRemoval ==
  /\ Handling({"lazy"})
  /\ ~IsExpanded(Top.comp)
  /\ Replacement(Top.comp) # NoComponent
  /\ stack' = Pop(1)
  /\ live' = Destroy(live, Top.comp)
  /\ UNCHANGED <<prog, phase, status, inProgress, fullyExpanded, replacements,
                 installs, bindingVars, storageVars>>

(* Mutant: a copy of the entry is replaced, not the one on the stack.         *)
PerformReplacementOnCopy ==
  /\ Handling({"lazy"})
  /\ ~IsExpanded(Top.comp)
  /\ Replacement(Top.comp) # NoComponent
  /\ live' = Copy(Destroy(live, Top.comp), Replacement(Top.comp))
  /\ UNCHANGED <<prog, phase, status, expansionVars, bindingVars, storageVars>>

PerformComponentReplacement ==
  /\ Handling({"lazy"})
  /\ ~IsExpanded(Top.comp)
  /\ LET r == Replacement(Top.comp)
     IN /\ r # NoComponent
        /\ stack' = ReplaceTop([kind |-> "lazy", comp |-> r])
        /\ live' = Copy(Destroy(live, Top.comp), r)
  /\ UNCHANGED <<prog, phase, status, inProgress, fullyExpanded, replacements,
                 installs, bindingVars, storageVars>>

(* Mutant: a component that is being expanded is skipped.                     *)
SkipComponentInProgress ==
  /\ Handling({"lazy"})
  /\ ~IsExpanded(Top.comp)
  /\ Replacement(Top.comp) = NoComponent
  /\ Top.comp \in inProgress
  /\ live' = Destroy(live, Top.comp)
  /\ stack' = Pop(1)
  /\ UNCHANGED <<prog, phase, status, inProgress, fullyExpanded, replacements,
                 installs, bindingVars, storageVars>>

DetectInstallationLoop ==
  /\ Handling({"lazy"})
  /\ ~IsExpanded(Top.comp)
  /\ Replacement(Top.comp) = NoComponent
  /\ Top.comp \in inProgress
  /\ Fail("installation_loop")

(* The component function is called and its entries go on top of the marker.  *)
ExpandLazyComponent ==
  /\ Handling({"lazy"})
  /\ LET c == Top.comp
     IN /\ ~IsExpanded(c)
        /\ Replacement(c) = NoComponent
        /\ c \notin inProgress
        /\ inProgress' = inProgress \cup {c}
        /\ stack' = ReplaceTop([kind |-> "end_marker", comp |-> c])
                       \o prog.body[c]
        /\ live' = Create(live, prog.body[c])
        /\ installs' = [installs EXCEPT ![c] = @ + 1]
  /\ UNCHANGED <<prog, phase, status, fullyExpanded, replacements, bindingVars,
                 storageVars>>

(* Mutant: the component stays in the set of those in progress.               *)
HandleEndMarkerKeepsInProgress ==
  /\ Handling({"end_marker"})
  /\ fullyExpanded' = fullyExpanded \cup {Top.comp}
  /\ stack' = Pop(1)
  /\ UNCHANGED <<prog, phase, status, inProgress, replacements, installs,
                 bindingVars, storageVars, live>>

HandleEndMarker ==
  /\ Handling({"end_marker"})
  /\ inProgress' = inProgress \ {Top.comp}
  /\ fullyExpanded' = fullyExpanded \cup {Top.comp}
  /\ stack' = Pop(1)
  /\ UNCHANGED <<prog, phase, status, replacements, installs, bindingVars,
                 storageVars, live>>

-----------------------------------------------------------------------------
(* performBindingCompression.  First the pairs that cannot be compressed are  *)
(* erased; the loop then visits the remaining ones in the order of an         *)
(* unordered map, which is any order.                                         *)
Exposed == IF phase = "permanent" THEN prog.exposed ELSE prog.baseExposed

NeededByMultibinding(c) ==
  \E i \in DOMAIN multibindingsVector : c \in multibindingsVector[i].deps

NeededByOther(c, i_type) ==
  \E x \in Type \ {i_type} :
    IsBound(bindingDataMap, x) /\ c \in bindingDataMap[x].deps

(* Mutant: the dependencies of multibindings are overlooked.                  *)
CompressibleDespiteMultibinding(c) ==
  /\ IsBound(compressedBindings, c)
  /\ c \notin Exposed
  /\ ~NeededByOther(c, compressedBindings[c].type)

Compressible(c) ==
  /\ IsBound(compressedBindings, c)
  /\ ~NeededByMultibinding(c)
  /\ c \notin Exposed
  /\ ~NeededByOther(c, compressedBindings[c].type)

StartCompression ==
  /\ status = "running" /\ stack = <<>> /\ phase # "add_to"
  /\ status' = "compressing"
  /\ compressedBindings' = [c \in Type |-> IF Compressible(c)
                                             THEN compressedBindings[c]
                                             ELSE Unbound]
  /\ UNCHANGED <<prog, phase, expansionVars, bindingDataMap, undoInfo,
                 multibindingsVector, allocatorData, storageVars, live>>

CompressBinding ==
  /\ status = "compressing"
  /\ \E c \in Type :
       LET e == compressedBindings[c]
           i == e.type
           i_binding == bindingDataMap[i]
           c_binding == bindingDataMap[c]
       IN /\ e # Unbound
          /\ IsBound(bindingDataMap, i) /\ IsBound(bindingDataMap, c)
          /\ undoInfo' = [undoInfo EXCEPT ![c] =
                            IF phase = "undoable"
                              THEN [i_type |-> i, i_binding |-> i_binding,
                                    c_binding |-> c_binding]
                              ELSE @]
          /\ bindingDataMap' =
               [bindingDataMap EXCEPT
                  ![i] = [kind |-> c_binding.kind, type |-> i,
                          create |-> e.create, deps |-> c_binding.deps],
                  ![c] = Unbound]
          /\ compressedBindings' = [compressedBindings EXCEPT ![c] = Unbound]
  /\ UNCHANGED <<prog, phase, status, expansionVars, multibindingsVector,
                 allocatorData, storageVars, live>>

(* Without a binding for the interface, or for the class, the loop would       *)
(* dereference the end iterator of the map.                                    *)
CompressMissingBinding ==
  /\ status = "compressing"
  /\ \E c \in Type :
       /\ IsBound(compressedBindings, c)
       /\ \/ ~IsBound(bindingDataMap, compressedBindings[c].type)
          \/ ~IsBound(bindingDataMap, c)
  /\ Fail("undefined_behaviour")

-----------------------------------------------------------------------------
(* addMultibindings reserves the space of the multibindings.                  *)
CountMultibindings(kind, t) ==
  Cardinality({i \in DOMAIN multibindingsVector :
                 /\ multibindingsVector[i].kind = kind
                 /\ multibindingsVector[i].type = t})

AddMultibindings ==
  allocatorData' =
    [types |-> [t \in Type |-> allocatorData.types[t]
                  + CountMultibindings("multibinding_needs_allocation", t)],
     external |-> allocatorData.external
       + Cardinality({i \in DOMAIN multibindingsVector :
                        multibindingsVector[i].kind =
                          "multibinding_needs_no_allocation"})]

FinishedCompression ==
  status = "compressing" /\ compressedBindings = NothingBound

(* Injector(root): the context dies with the call and frees what it owns.     *)
FinishPermanent ==
  /\ FinishedCompression /\ phase = "permanent"
  /\ status' = "ready"
  /\ graph' = bindingDataMap
  /\ AddMultibindings
  /\ live' = DestroyAll(live, fullyExpanded, replacements)
  /\ UNCHANGED <<prog, phase, expansionVars, bindingDataMap,
                 compressedBindings, undoInfo, multibindingsVector, base>>

(* NormalizedComponent(base): the storage takes the sets over, so that the    *)
(* context has nothing left to free.                                          *)
FinishUndoable ==
  /\ FinishedCompression /\ phase = "undoable"
  /\ status' = "ready"
  /\ graph' = bindingDataMap
  /\ AddMultibindings
  /\ base' = [bindings |-> bindingDataMap, undo |-> undoInfo,
              multibindings |-> multibindingsVector,
              allocator |-> allocatorData', fullyExpanded |-> fullyExpanded,
              replacements |-> replacements]
  /\ fullyExpanded' = {}
  /\ replacements' = NothingReplaced
  /\ UNCHANGED <<prog, phase, stack, inProgress, installs, bindingDataMap,
                 compressedBindings, undoInfo, multibindingsVector, live>>

(* Mutant: the allocator data of the normalized component is not copied.      *)
StartAddToWithNoData ==
  /\ status = "ready" /\ phase = "undoable"
  /\ phase' = "add_to"
  /\ status' = "running"
  /\ stack' = Install(prog.root)
  /\ live' = Create(live, stack')
  /\ bindingDataMap' = NothingBound
  /\ undoInfo' = NothingBound
  /\ multibindingsVector' = <<>>
  /\ allocatorData' = NothingAllocated
  /\ UNCHANGED <<prog, inProgress, fullyExpanded, replacements, installs,
                 compressedBindings, storageVars>>

(* Injector(normalized component, root) starts from the multibindings and the *)
(* allocator data of the normalized component.                                *)
StartAddTo ==
  /\ status = "ready" /\ phase = "undoable"
  /\ phase' = "add_to"
  /\ status' = "running"
  /\ stack' = Install(prog.root)
  /\ live' = Create(live, stack')
  /\ bindingDataMap' = NothingBound
  /\ undoInfo' = NothingBound
  /\ multibindingsVector' = <<>>
  /\ allocatorData' = base.allocator
  /\ UNCHANGED <<prog, inProgress, fullyExpanded, replacements, installs,
                 compressedBindings, storageVars>>

(* A compression is undone for each new binding, other than one of its own    *)
(* interface, that depends on the class.                                      *)
CompressionsToUndo ==
  {c \in Type : /\ base.undo[c] # Unbound
                /\ NeededByOther(c, base.undo[c].i_type)}

(* What undoing the merge of c brings back: the class, whose allocation is no  *)
(* longer known to be needed, and the interface.                              *)
RestoredBinding(c, t) ==
  LET i_binding == base.undo[c].i_binding
      c_binding == base.undo[c].c_binding
  IN IF t = base.undo[c].i_type
       THEN [i_binding EXCEPT !.kind = "needs_no_allocation"]
       ELSE [c_binding EXCEPT !.kind = "unknown_allocation"]

(* The graph is the one of the normalized component, overridden by the new    *)
(* bindings and these by the undone ones, which are added last.  Of several   *)
(* undone pairs with a type, the one that the hash set visits last wins.  The *)
(* pairs form a forest, so that each type has a last one of its own.          *)
Pair(c) == {c, base.undo[c].i_type}
Undone == UNION {Pair(c) : c \in CompressionsToUndo}

LastUndone == {w \in [Undone -> CompressionsToUndo] :
                 \A t \in Undone : t \in Pair(w[t])}

MergedBinding(t, w) ==
  IF t \in Undone THEN RestoredBinding(w[t], t)
  ELSE IF IsBound(bindingDataMap, t) THEN bindingDataMap[t]
  ELSE base.bindings[t]

FinishAddTo ==
  /\ status = "running" /\ stack = <<>> /\ phase = "add_to"
  /\ status' = "ready"
  /\ \E w \in LastUndone : graph' = [t \in Type |-> MergedBinding(t, w)]
  /\ AddMultibindings
  /\ live' = DestroyAll(live, fullyExpanded, replacements)
  /\ UNCHANGED <<prog, phase, expansionVars, bindingDataMap,
                 compressedBindings, undoInfo, multibindingsVector, base>>

(* The destructor of the normalized component, after that of the injector.    *)
DestroyNormalizedComponent ==
  /\ status = "ready" /\ phase = "add_to"
  /\ status' = "destroyed"
  /\ live' = DestroyAll(live, base.fullyExpanded, base.replacements)
  /\ base' = EmptyStorage
  /\ UNCHANGED <<prog, phase, expansionVars, bindingVars, graph>>

Finished == \/ status \in Errors \cup {"destroyed"}
            \/ status = "ready" /\ phase = "permanent"

Terminated == Finished /\ UNCHANGED vars

Next ==
  \/ HandleBinding \/ HandleInconsistentBinding
  \/ HandleCompressedBinding \/ HandleMultibinding
  \/ HandleReplacedTooLate \/ HandleReplaced
  \/ HandleReplacedAgain \/ HandleReplacedDifferently
  \/ SkipLazyComponent \/ PerformComponentReplacement
  \/ DetectInstallationLoop \/ ExpandLazyComponent \/ HandleEndMarker
  \/ StartCompression \/ CompressBinding \/ CompressMissingBinding
  \/ FinishPermanent \/ FinishUndoable \/ StartAddTo \/ FinishAddTo
  \/ DestroyNormalizedComponent
  \/ Terminated

Spec == Init /\ [][Next]_vars
FairSpec == Spec /\ WF_vars(Next)
-----------------------------------------------------------------------------
(* What the program declares, independently of any order of processing.       *)
Entries(c) == {prog.body[c][i] : i \in DOMAIN prog.body[c]}
Installed(c) == {e.comp : e \in {f \in Entries(c) : f.kind = "lazy"}}
BindingsOf(c) == {e \in Entries(c) : e.kind \in BindingKind}
MultibindingsOf(c) == {e \in Entries(c) : e.kind \in MultibindingKind}

(* A replaced component stands for its replacement.                           *)
LeadsTo(c) == IF Replacement(c) # NoComponent THEN {Replacement(c)}
              ELSE Installed(c)
Closed(S) == \A c \in S : LeadsTo(c) \subseteq S
ReachableFrom(S) == {c \in Component :
                      \A T \in SUBSET Component :
                        S \subseteq T /\ Closed(T) => c \in T}

Started == inProgress \cup fullyExpanded \cup base.fullyExpanded
Roots == IF phase = "undoable" THEN {prog.base}
         ELSE {prog.base, prog.root} \ {NoComponent}
Declared == UNION {BindingsOf(c) : c \in Started}
DeclaredMultibindings == UNION {MultibindingsOf(c) : c \in Started}

GraphIsBuilt == status = "ready"

-----------------------------------------------------------------------------
(* The end markers on the stack are the components whose expansion is in      *)
(* progress, each of them once: ~BindingNormalizationContext asserts that     *)
(* none is left when the stack is empty.                                      *)
Marks(s, i, c) == s[i].kind = "end_marker" /\ s[i].comp = c
MarkersMatch(s, S) ==
  /\ \A i \in DOMAIN s : s[i].kind = "end_marker" => s[i].comp \in S
  /\ \A c \in S : \E i \in DOMAIN s :
       \A j \in DOMAIN s : Marks(s, j, c) <=> j = i
MarkersMatchInProgress == MarkersMatch(stack, inProgress)

(* A component function is called at most once for each set of arguments,     *)
(* over the normalized component and the injector built on it.                *)
InstalledAtMostOnce == \A c \in Component : installs[c] <= 1

(* A component with a replacement has not been, and is not being, expanded,   *)
(* whatever the order of the replace and install calls.                       *)
ReplacedNeverInstalled ==
  \A c \in Component : Replacement(c) # NoComponent => c \notin Started

(* Every ComponentInterfaceImpl has exactly one owner: an entry of the stack, *)
(* the context, or the normalized component.  None is leaked or freed twice.  *)
OwnershipExact ==
  status \notin Errors =>
    \A c \in WithArgs :
      live[c] = Owners(stack, c)
                + OwnedBy(base.fullyExpanded, base.replacements, c)
                + (IF status \in {"running", "compressing"}
                     THEN OwnedBy(fullyExpanded, replacements, c) ELSE 0)

(* When the stack has been emptied, the components expanded are those that    *)
(* the root reaches through installs, with the replaced ones swapped for      *)
(* their replacements: the order of processing has left nothing out.          *)
ExpandedIsClosure ==
  GraphIsBuilt =>
    Started = {c \in ReachableFrom(Roots) : Replacement(c) = NoComponent}

(* An installation loop is reported for components that do install each       *)
(* other, and a graph is never built from such components.                    *)
LoopsAreDetected ==
  /\ status = "installation_loop" =>
       Top.comp \in ReachableFrom(LeadsTo(Top.comp))
  /\ GraphIsBuilt => \A c \in Started : c \notin ReachableFrom(LeadsTo(c))

(* The installs of the root are processed in the order in which it declares    *)
(* them: until one of them has started, or turns out to be replaced, nothing   *)
(* has but what the ones declared before it lead to.                           *)
InstalledInDeclaredOrder ==
  phase = "permanent" =>
    \A i \in DOMAIN prog.declared :
      LET c == prog.declared[i]
          before == {prog.declared[k] : k \in 1 .. i - 1}
      IN  \/ c \in Started
          \/ Replacement(c) # NoComponent
          \/ Started \subseteq {prog.root} \cup ReachableFrom(before)

(* Two different replacements of a component end in the error message.        *)
ConflictingReplacementIsReported == status # "undefined_behaviour"

(* Each step of the replacement map consumes an entry or follows the map, so   *)
(* normalization terminates when the replacements that the program makes do   *)
(* not run in a circle.  The code has no check for a circle.                  *)
ReplacementMade(c, r) ==
  \E d \in Component : \E i \in 1 .. Len(prog.body[d]) - 1 :
    /\ prog.body[d][i] = [kind |-> "replacement", comp |-> r]
    /\ prog.body[d][i + 1] = [kind |-> "replaced", comp |-> c]

AcyclicReplacements ==
  \A S \in SUBSET Component :
    S # {} => \E c \in S : \A r \in S : ~ReplacementMade(c, r)

(* Normalization ends, with a graph or with an error message.                 *)
NormalizationTerminates == AcyclicReplacements => <>Finished

-----------------------------------------------------------------------------
(* Binding conflicts and compression.                                        *)
Agree(e, f) == e.type = f.type => e.kind = f.kind /\ e.create = f.create
AllAgree(bs) == \A e, f \in bs : Agree(e, f)

CompressedInBase(t) == \E c \in Type : /\ base.undo[c] # Unbound
                                       /\ t \in {c, base.undo[c].i_type}

(* "multiple bindings" is reported exactly when the components installed have *)
(* different bindings for a type, outside the pairs that the normalized       *)
(* component has compressed.                                                  *)
ConflictsAreReported ==
  /\ status = "multiple_bindings" =>
       CompressedInBase(Top.type) \/ ~AllAgree(Declared)
  /\ GraphIsBuilt => AllAgree({e \in Declared : ~CompressedInBase(e.type)})

(* The same without the exception: a conflict that exists is reported.        *)
RealConflictIsReported == GraphIsBuilt => AllAgree(Declared)

(* Every component that can be compressed has its bind as well: the bind of a *)
(* compressed pair is not dropped because its component does not use it.      *)
BindsWhatItCompresses(c) ==
  \A e \in Entries(c) :
    e.kind = "compressed" => Bind(e.type, e.c_type)[1] \in BindingsOf(c)
BindsAreDeclared == \A c \in Started : BindsWhatItCompresses(c)

(* i -> c is compressed in the graph that was built.                          *)
IsCompressed(i, c) == /\ IsBound(graph, i)
                      /\ graph[i].create.fn \in CompressedFn
                      /\ graph[i].create.c = c

(* No two of the pairs that the normalized component compressed have a type   *)
(* in common.  The code does not ensure it, and undoes one pair at a time.    *)
PairsAreDisjoint ==
  \A c, d \in Type : /\ base.undo[c] # Unbound /\ base.undo[d] # Unbound
                     /\ Pair(c) \cap Pair(d) # {}
                     => c = d

(* In a graph that was built, a class whose binding has been merged into that *)
(* of its interface is needed by no other binding, and neither by a           *)
(* multibinding nor exposed as far as the components that were there when it   *)
(* was merged go: in an injector built on a normalized component, by none of   *)
(* that component.                                                            *)
DeclaredWhenMerging ==
  IF phase = "add_to" THEN UNION {MultibindingsOf(c) : c \in base.fullyExpanded}
                      ELSE DeclaredMultibindings
CompressionIsLicensed ==
  GraphIsBuilt =>
    \A i, c \in Type : IsCompressed(i, c) =>
      /\ phase # "add_to" \/ PairsAreDisjoint =>
           \A x \in Type : IsBound(graph, x) => c \notin graph[x].deps
      /\ c \notin Exposed
      /\ \A m \in DeclaredWhenMerging : c \notin m.deps
      /\ phase # "add_to" => ~IsBound(graph, c)

(* An interface is compressed with the class that a bind declares for it,     *)
(* when each component that can be compressed has its bind too.               *)
CompressesDeclaredBind ==
  \A i, c \in Type : IsCompressed(i, c) =>
    LET binds == {e \in Declared : e.type = i}
    IN binds # {} /\ \A e \in binds : e.create.fn = "bind" /\ e.deps = {c}

InterfaceKeepsItsClass ==
  GraphIsBuilt /\ BindsAreDeclared => CompressesDeclaredBind

(* The same for every component.                                              *)
InterfaceAlwaysKeepsItsClass == GraphIsBuilt => CompressesDeclaredBind

(* The allocator data of the graph reserves room for every object that the    *)
(* injector will construct and a destroy slot for each one it will own,       *)
(* through compression, duplicate bindings and the undoing of disjoint pairs. *)
Constructs(c) == {t \in Type : /\ IsBound(graph, t)
                               /\ graph[t].create.c = c
                               /\ graph[t].create.fn \in
                                    {"constructor", "compressed_constructor"}}
Provided == {t \in Type : /\ IsBound(graph, t)
                          /\ graph[t].create.fn \in
                               {"provider", "other_provider",
                                "compressed_provider"}}
AllMultibindings ==
  IF phase = "add_to" THEN base.multibindings \o multibindingsVector
                      ELSE multibindingsVector
MultibindingsAllocated(t) ==
  Cardinality({i \in DOMAIN AllMultibindings :
                 /\ AllMultibindings[i].kind = "multibinding_needs_allocation"
                 /\ AllMultibindings[i].type = t})
AllocatorReserved ==
  GraphIsBuilt /\ (phase = "add_to" => PairsAreDisjoint) =>
    /\ \A t \in Type : allocatorData.types[t] >=
                         Cardinality(Constructs(t)) + MultibindingsAllocated(t)
    /\ allocatorData.external >= Cardinality(Provided)
=============================================================================
