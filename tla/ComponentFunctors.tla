--------------------------- MODULE ComponentFunctors ---------------------------
(***************************************************************************)
(* How the compile-time meta program turns the calls made on a             *)
(* PartialComponent into a Component<...>: which bindings it deduces, which *)
(* entries it pushes and what it rejects (impl/component_functors.defn.h    *)
(* and the second part of impl/meta/component.h).                           *)
(*                                                                         *)
(* Every binding is a functor from Comp to an Op: a new Comp, entries to    *)
(* push and their number.  A functor may be the composition of others, so   *)
(* the state has an agenda of the functors still to be called; the step     *)
(* that calls the first one is the action of its name.  Op2 pushes its       *)
(* entries before Op1 does (Compose2ComponentFunctors), hence entries grows  *)
(* at the front.  The first error ends the compilation.                     *)
(*                                                                         *)
(* The components of a program are compiled one after the other, and each   *)
(* may install the ones before it, of which it sees the declared type only. *)
(***************************************************************************)
EXTENDS ComponentDefinition, InjectedTypes, MetaGraph

CONSTANTS
  Traits,      \* what the classes of the program look like
  BindingsOf,  \* for each component, the bindings that it may have
  DeclaredOf,  \* for each component, the types Component<...> it may declare
  MaxCalls     \* for each component, a bound on the number of its bindings

ASSUME TraitsAssumption ==
  Traits \in [Class -> [abstract : BOOLEAN, virtualDestructor : BOOLEAN,
                        bases : SUBSET Class, hasInject : BOOLEAN,
                        inject : Seq(InjectedArg \cup AssistedArg)]]
ASSUME ComponentAssumption == Component = 1 .. Len(BindingsOf) /\ Component # {}

(* A binding is a record with the name of its type in bindings.h.  What is     *)
(* bound to an interface, and the interface, are classes (with an annotation); *)
(* a lambda cannot be called with an assisted argument.                        *)
ObjectType == {t \in GraphType : t.shape = "object"}
ProviderSignature == {s \in Signature : s.wellFormed => s.args \in Seq(InjectedArg)}
InstanceKind == {"BindInstance", "BindConstInstance", "AddInstanceMultibinding"}
BindingCall ==
  [kind : {"Bind", "AddMultibinding"}, i : ObjectType, c : ObjectType]
  \cup [kind : {"RegisterConstructor", "RegisterFactory"}, sig : Signature]
  \cup [kind : {"RegisterProvider", "AddMultibindingProvider"}, sig : ProviderSignature]
  \cup [kind : InstanceKind, type : GraphType]
  \cup [kind : {"AddInstanceVectorMultibindings"}, type : GraphType, objs : Seq(Instance)]
  \cup [kind : {"InstallComponent"}, comp : Component]
  \cup [kind : {"InstallComponentFunctions"}, comps : Seq(Component)]
  \cup [kind : {"ReplaceComponent"}, comp : Component, replacement : Component]
ASSUME BindingsAssumption == BindingsOf \in Seq(SUBSET BindingCall)

(* Component<Required<Rs...>, Ps...>.                                          *)
Parameter == [type : GraphType, const : BOOLEAN]
ComponentType == [Rs : Seq(Parameter), Ps : Seq(Parameter)]
ASSUME DeclaredAssumption == DeclaredOf \in Seq(SUBSET ComponentType)
                             /\ Len(DeclaredOf) = Len(BindingsOf)

ASSUME MaxCallsAssumption == MaxCalls \in Seq(Nat) /\ Len(MaxCalls) = Len(BindingsOf)

VARIABLES
  built,       \* the components compiled so far: declared type and entries
  calls,       \* the bindings of the one being compiled, in declared order
  comp,        \* its Comp
  agenda,      \* the functors still to be called
  entries,     \* what the Ops called so far push
  numEntries,  \* what their numEntries() return
  declared,    \* the Component<...> that the PartialComponent is converted to
  uses,        \* history: how the pushed entries will request their arguments
  constBound,  \* history: the types that are bound to something const
  roots,       \* the components of the injector
  status, error

vars == <<built, calls, comp, agenda, entries, numEntries, declared, uses,
          constBound, roots, status, error>>

-----------------------------------------------------------------------------
(* Errors.  A meta function that is given an error returns it (PropagateError *)
(* and DoEval), so an operator here returns a Comp or an error.               *)
ConstructError(tag, t) == [tag |-> tag, type |-> t]
NoError == [tag |-> "none"]
IsError(r) == "tag" \in DOMAIN r

IsAbstract(c) == Traits[c].abstract
HasVirtualDestructor(c) == Traits[c].virtualDestructor
HasInjectAnnotation(c) == Traits[c].hasInject
IsBaseOf(i, c) == i \in Traits[c].bases

(* The checks of what the user wrote: a signature of injectable types that the *)
(* class or the lambda can be called with.                                     *)
IsWellFormed(sig) == sig.wellFormed

ConstructNoBindingFoundError(t) ==
  ConstructError(IF t.shape = "object" /\ IsAbstract(t.class)
                   THEN "NoBindingFoundForAbstractClass" ELSE "NoBindingFound", t)

-----------------------------------------------------------------------------
(* Comp.  Deps keeps for every provided type the types it depends on; a node  *)
(* is a type as it is spelled, with the const of Component<const T> and of    *)
(* Required<const T>.                                                         *)
Node(t) == [type |-> t, const |-> FALSE]
NodesOf(ts) == [i \in DOMAIN ts |-> Node(ts[i])]
TypesOf(params) == {params[i].type : i \in DOMAIN params}
NonConstTypesOf(params) ==
  {params[i].type : i \in {j \in DOMAIN params : ~params[j].const}}

ConsComp(rs, ps, nonConst, deps) ==
  [RsSuperset |-> rs, Ps |-> ps, NonConstRsPs |-> nonConst, Deps |-> deps,
   InterfaceBindings |-> <<>>, DeferredBindingFunctors |-> <<>>]

HasDuplicates(params) ==
  \E i, j \in DOMAIN params : i # j /\ params[i].type = params[j].type

(* The Comp of a Component<Required<Rs...>, Ps...>: as far as the component   *)
(* that installs it knows, every provided type depends on every required one. *)
ConstructComponentImpl(d) ==
  IF HasDuplicates(d.Rs \o d.Ps) THEN ConstructError("RepeatedTypes", d)
  ELSE ConsComp(TypesOf(d.Rs), TypesOf(d.Ps), NonConstTypesOf(d.Rs \o d.Ps),
                [i \in DOMAIN d.Ps |-> [th |-> d.Ps[i], hps |-> d.Rs]])

EmptyComp == ConsComp({}, {}, {}, <<>>)

RequirementsOf(c) == c.RsSuperset \ c.Ps
ConstPs(c) == c.Ps \ c.NonConstRsPs
NonConstRs(c) == RequirementsOf(c) \cap c.NonConstRsPs

(* FindInMap and FindValueInMap fold over the whole vector: the last match wins. *)
FindInMap(m, key) ==
  LET found == {i \in DOMAIN m : m[i].i = key}
  IN  IF found = {} THEN {} ELSE {m[Max(found)].c}
FindValueInMap(m, value) ==
  LET found == {i \in DOMAIN m : m[i].c = value}
  IN  IF found = {} THEN {} ELSE {m[Max(found)].i}

CheckTypesNotProvidedAsConst(c, ts) ==
  IF ts \cap ConstPs(c) = {} THEN NoError
  ELSE ConstructError("NonConstBindingRequiredButConstBindingProvided",
                      CHOOSE t \in ts \cap ConstPs(c) : TRUE)

AddRequirements(c, reqs, nonConstReqs) ==
  LET e == CheckTypesNotProvidedAsConst(c, nonConstReqs)
  IN  IF e # NoError THEN e
      ELSE [c EXCEPT !.RsSuperset = @ \cup Range(reqs),
                     !.NonConstRsPs = @ \cup nonConstReqs]

(* Mutant: the requirements of a provided type are not remembered.               *)
AddProvidedTypeAlone(c, t, isNonConst, reqs, nonConstReqs) ==
  IF t \in c.Ps THEN ConstructError("TypeAlreadyBound", t)
  ELSE [c EXCEPT !.Ps = @ \cup {t},
                 !.NonConstRsPs = @ \cup nonConstReqs
                                    \cup (IF isNonConst THEN {t} ELSE {}),
                 !.Deps = <<[th |-> Node(t), hps |-> NodesOf(reqs)]>> \o @]

AddProvidedTypeIgnoringInterfaceBindings(c, t, isNonConst, reqs, nonConstReqs) ==
  LET e == CheckTypesNotProvidedAsConst(c, nonConstReqs)
  IN  IF t \in c.Ps THEN ConstructError("TypeAlreadyBound", t)
      ELSE IF e # NoError THEN e
      ELSE [c EXCEPT !.RsSuperset = @ \cup Range(reqs), !.Ps = @ \cup {t},
                     !.NonConstRsPs = @ \cup nonConstReqs
                                        \cup (IF isNonConst THEN {t} ELSE {}),
                     !.Deps = <<[th |-> Node(t), hps |-> NodesOf(reqs)]>> \o @]

AddProvidedType(c, t, isNonConst, reqs, nonConstReqs) ==
  IF FindInMap(c.InterfaceBindings, t) # {} THEN ConstructError("TypeAlreadyBound", t)
  ELSE AddProvidedTypeIgnoringInterfaceBindings(c, t, isNonConst, reqs, nonConstReqs)

AddDeferredBinding(c, functor) ==
  [c EXCEPT !.DeferredBindingFunctors = <<functor>> \o @]

-----------------------------------------------------------------------------
(* Functors.  The bindings that need none only leave something in the storage *)
(* of the PartialComponent.                                                   *)
FunctorOf ==
  [Bind |-> "AddDeferredInterfaceBinding",
   RegisterConstructor |-> "DeferredRegisterConstructor",
   BindInstance |-> "RegisterInstance", BindConstInstance |-> "RegisterInstance",
   RegisterProvider |-> "DeferredRegisterProvider",
   AddInstanceMultibinding |-> "ComponentFunctorIdentity",
   AddInstanceVectorMultibindings |-> "ComponentFunctorIdentity",
   AddMultibinding |-> "AddInterfaceMultibinding",
   AddMultibindingProvider |-> "RegisterMultibindingProvider",
   RegisterFactory |-> "RegisterFactory",
   InstallComponent |-> "InstallComponent",
   InstallComponentFunctions |-> "InstallComponentFunctions",
   ReplaceComponent |-> "ComponentFunctorIdentity"]

ProcessBinding(b) ==
  [x \in DOMAIN b \cup {"f"} |-> IF x = "f" THEN FunctorOf[b.kind] ELSE b[x]]

Functor(f, sig) == [f |-> f, sig |-> sig]
EnsureProvidedTypeFunctor(t, nonConst) ==
  [f |-> "EnsureProvidedType", type |-> t, nonConst |-> nonConst]
CatchFunctor(from, to) == [f |-> "Catch", from |-> from, to |-> to]

(* The fold puts each type in front of the ones before it, so that the last     *)
(* one is ensured first.                                                       *)
EnsureProvidedTypes(ts, nonConst) ==
  Reverse([i \in DOMAIN ts |-> EnsureProvidedTypeFunctor(ts[i], ts[i] \in nonConst)])

Calling(f) ==
  /\ status \in {"binding", "converting"}
  /\ agenda # <<>>
  /\ Head(agenda).f = f

(* The handlers around the functor that failed, the innermost one first: they   *)
(* replace the error about a type that the meta program has made up itself.     *)
NoBindingFoundTags == {"NoBindingFound", "NoBindingFoundForAbstractClass"}
Caught(e) ==
  FoldLeft(LAMBDA err, f : IF /\ f.f = "Catch"
                              /\ err.tag \in NoBindingFoundTags
                              /\ err.type = f.from
                           THEN f.to ELSE err, e, Tail(agenda))

Fail(e) == /\ status' = "error"
           /\ error' = e
           /\ UNCHANGED <<built, calls, comp, agenda, entries, numEntries,
                          declared, uses, constBound, roots>>

(* An Op: its Result, the entries its operator() pushes, its numEntries().       *)
CallOp(result, pushed, num, use, const) ==
  /\ comp' = result
  /\ entries' = pushed \o entries
  /\ numEntries' = numEntries + num
  /\ uses' = uses \cup use
  /\ constBound' = constBound \cup const
  /\ agenda' = Tail(agenda)
  /\ UNCHANGED <<built, calls, declared, roots, status, error>>

Op(result, pushed, num, use, const) ==
  \/ IsError(result) /\ Fail(Caught(result))
  \/ ~IsError(result) /\ CallOp(result, pushed, num, use, const)

(* A functor that is the composition of others.                                  *)
ComposeFunctors(c, functors) ==
  /\ comp' = c
  /\ agenda' = functors \o Tail(agenda)
  /\ UNCHANGED <<built, calls, entries, numEntries, declared, uses, constBound,
                 roots, status, error>>

UsesOf(args) ==
  {[type |-> NormalizeType(args[i]),
    nonConst |-> TypeInjectionRequiresNonConstBinding(args[i])] : i \in DOMAIN args}

ComponentFunctorIdentity ==
  /\ Calling("ComponentFunctorIdentity")
  /\ ComposeFunctors(comp, <<>>)

-----------------------------------------------------------------------------
(* Interfaces.  A bind is only remembered; an entry is pushed if the interface  *)
(* turns out to be needed, const or not as it is needed then.                   *)
AddDeferredInterfaceBinding ==
  /\ Calling("AddDeferredInterfaceBinding")
  /\ LET b == Head(agenda)
         bound == comp.Ps \cup {comp.InterfaceBindings[k].i : k \in DOMAIN comp.InterfaceBindings}
     IN  Op(IF b.i = b.c THEN ConstructError("InterfaceBindingToSelf", b.c)
            ELSE IF ~IsBaseOf(b.i.class, b.c.class) THEN ConstructError("NotABaseClassOf", b.i)
            ELSE IF b.i \in bound THEN ConstructError("TypeAlreadyBound", b.i)
            ELSE [comp EXCEPT !.InterfaceBindings = <<[i |-> b.i, c |-> b.c]>> \o @],
            <<>>, 0, {}, {})

ProcessInterfaceBinding ==
  /\ Calling("ProcessInterfaceBinding")
  /\ LET b == Head(agenda)
     IN  Op(AddProvidedTypeIgnoringInterfaceBindings(comp, b.i, b.nonConst, <<b.c>>,
                                                     IF b.nonConst THEN {b.c} ELSE {}),
            Bind(b.i, b.c), 1, {[type |-> b.c, nonConst |-> b.nonConst]},
            IF b.nonConst THEN {} ELSE {b.i})

AddInterfaceMultibinding ==
  /\ Calling("AddInterfaceMultibinding")
  /\ LET b == Head(agenda)
     IN  Op(IF ~IsBaseOf(b.i.class, b.c.class) THEN ConstructError("NotABaseClassOf", b.i)
            ELSE AddRequirements(comp, <<b.c>>, {b.c}),
            AddMultibinding(b.i, b.c), 2, {[type |-> b.c, nonConst |-> TRUE]}, {})

-----------------------------------------------------------------------------
(* Constructors and providers.  Their types are provided at once, but the       *)
(* entries are pushed when all binds are known: a class that an interface is    *)
(* bound to gets a second entry, for the compression.                           *)

(* Mutant: the entries of a constructor are pushed at once.                      *)
RegisterConstructorAtOnce ==
  /\ Calling("DeferredRegisterConstructor")
  /\ LET sig == Head(agenda).sig
     IN  ComposeFunctors(comp, <<Functor("PreProcessRegisterConstructor", sig),
                                 Functor("PostProcessRegisterConstructor", sig)>>)

DeferredRegisterConstructor ==
  /\ Calling("DeferredRegisterConstructor")
  /\ LET sig == Head(agenda).sig
     IN  ComposeFunctors(
           AddDeferredBinding(comp, Functor("PostProcessRegisterConstructor", sig)),
           <<Functor("PreProcessRegisterConstructor", sig)>>)

DeferredRegisterProvider ==
  /\ Calling("DeferredRegisterProvider")
  /\ LET sig == Head(agenda).sig
     IN  ComposeFunctors(
           AddDeferredBinding(comp, Functor("PostProcessRegisterProvider", sig)),
           <<Functor("PreProcessRegisterProvider", sig)>>)

PreProcessRegisterConstructor ==
  /\ Calling("PreProcessRegisterConstructor")
  /\ LET sig == Head(agenda).sig
     IN  Op(IF \E k \in DOMAIN sig.args : IsAssisted(sig.args[k])
              THEN ConstructError("AssistedParamInRegisterConstructorSignature", sig.result)
            ELSE IF IsAbstract(sig.result.class)
              THEN ConstructError("CannotConstructAbstractClass", sig.result)
            ELSE IF ~IsWellFormed(sig)
              THEN ConstructError("NoConstructorMatchingInjectSignature", sig.result)
            ELSE AddProvidedType(comp, sig.result, TRUE, NormalizeTypeVector(sig.args),
                                 NormalizedNonConstTypesIn(sig.args)),
            <<>>, 0, {}, {})

PointerToUndestructible(sig) ==
  /\ sig.returns = "pointer"
  /\ IsAbstract(sig.result.class)
  /\ ~HasVirtualDestructor(sig.result.class)

PreProcessRegisterProvider ==
  /\ Calling("PreProcessRegisterProvider")
  /\ LET sig == Head(agenda).sig
     IN  Op(IF ~IsWellFormed(sig)
              THEN ConstructError("AnnotatedSignatureDifferentFromLambdaSignature", sig.result)
            ELSE IF PointerToUndestructible(sig)
              THEN ConstructError("ProviderReturningPointerToAbstractClassWithNoVirtualDestructor",
                                  sig.result)
            ELSE AddProvidedType(comp, sig.result, TRUE, NormalizeTypeVector(sig.args),
                                 NormalizedNonConstTypesIn(sig.args)),
            <<>>, 0, {}, {})

PostProcessRegisterConstructor ==
  /\ Calling("PostProcessRegisterConstructor")
  /\ LET sig == Head(agenda).sig
         deps == Range(NormalizeTypeVector(sig.args))
     IN  \/ /\ FindValueInMap(comp.InterfaceBindings, sig.result) = {}
            /\ CallOp(comp, RegisterConstructor(sig.result, deps), 1, UsesOf(sig.args), {})
         \/ \E i \in FindValueInMap(comp.InterfaceBindings, sig.result) :
              CallOp(comp, CompressibleConstructor(i, sig.result, deps), 2, UsesOf(sig.args), {})

(* createComponentStorageEntryForProvider: a provider that returns a pointer     *)
(* needs no allocation, one that returns a value does.                          *)
ProviderEntry(sig) ==
  [Provider("provider", sig.result, Range(NormalizeTypeVector(sig.args)))
     EXCEPT !.kind = IF sig.returns = "pointer" THEN @ ELSE "needs_allocation"]
CompressedProviderEntry(i, sig) == CompressibleProvider(i, sig.result, {})[1]

PostProcessRegisterProvider ==
  /\ Calling("PostProcessRegisterProvider")
  /\ LET sig == Head(agenda).sig
     IN  \/ /\ FindValueInMap(comp.InterfaceBindings, sig.result) = {}
            /\ CallOp(comp, <<ProviderEntry(sig)>>, 1, UsesOf(sig.args), {})
         \/ \E i \in FindValueInMap(comp.InterfaceBindings, sig.result) :
              CallOp(comp, <<CompressedProviderEntry(i, sig), ProviderEntry(sig)>>, 2,
                     UsesOf(sig.args), {})

RegisterMultibindingProvider ==
  /\ Calling("RegisterMultibindingProvider")
  /\ LET sig == Head(agenda).sig
     IN  Op(IF sig.returns = "value" /\ IsAbstract(sig.result.class)
              THEN ConstructError("CannotConstructAbstractClass", sig.result)
            ELSE IF ~IsWellFormed(sig)
              THEN ConstructError("AnnotatedSignatureDifferentFromLambdaSignature", sig.result)
            ELSE IF PointerToUndestructible(sig)
              THEN ConstructError("MultibindingProviderReturningPointerToAbstractClassWithNoVirtualDestructor",
                                  sig.result)
            ELSE AddRequirements(comp, NormalizeTypeVector(sig.args),
                                 NormalizedNonConstTypesIn(sig.args)),
            AddMultibindingProvider(sig.result, Range(NormalizeTypeVector(sig.args))), 2,
            UsesOf(sig.args), {})

RegisterInstance ==
  /\ Calling("RegisterInstance")
  /\ LET b == Head(agenda)
         isNonConst == b.kind = "BindInstance"
     IN  Op(AddProvidedType(comp, b.type, isNonConst, <<>>, {}), <<>>, 0, {},
            IF isNonConst THEN {} ELSE {b.type})

-----------------------------------------------------------------------------
(* Factories: a std::function whose injected arguments are the requirements.    *)

FunctorType(sig) ==
  FactoryOf(sig.result, IF sig.returns = "unique_ptr" THEN "unique_ptr_factory" ELSE "factory",
            RemoveNonAssisted(sig.args))

RegisterFactory ==
  /\ Calling("RegisterFactory")
  /\ LET sig == Head(agenda).sig
         injected == RemoveAssisted(sig.args)
     IN  Op(IF sig.returns = "value" /\ IsAbstract(sig.result.class)
              THEN ConstructError("CannotConstructAbstractClass", sig.result)
            ELSE IF /\ sig.returns = "unique_ptr"
                    /\ IsAbstract(sig.result.class)
                    /\ ~HasVirtualDestructor(sig.result.class)
              THEN ConstructError("RegisterFactoryForUniquePtrOfAbstractClassWithNoVirtualDestructor",
                                  sig.result)
            ELSE IF ~IsWellFormed(sig) THEN ConstructError("FunctorSignatureDoesNotMatch", sig.result)
            ELSE IF sig.returns = "pointer"
              THEN ConstructError("FactoryReturningPointer", sig.result)
            ELSE AddProvidedType(comp, FunctorType(sig), TRUE, NormalizeTypeVector(injected),
                                 NormalizedNonConstTypesIn(injected)),
            <<ProviderEntry([sig EXCEPT !.result = FunctorType(sig), !.returns = "value",
                                        !.args = injected])>>,
            1, UsesOf(injected), {})

-----------------------------------------------------------------------------
(* Installing a component: all that is known of it is its declared type.        *)

Merged(c, other) ==
  [c EXCEPT !.RsSuperset = @ \cup other.RsSuperset, !.Ps = @ \cup other.Ps,
            !.NonConstRsPs = @ \cup other.NonConstRsPs, !.Deps = other.Deps \o @]
DuplicatesWith(c, other) ==
  other.Ps \cap (c.Ps \cup {c.InterfaceBindings[k].i : k \in DOMAIN c.InterfaceBindings})

(* Mutants: a check is left out.                                                 *)
InstalledTwice(c, other) == Merged(c, other)
InstalledUncheckedConst(c, other) ==
  IF DuplicatesWith(c, other) # {}
    THEN ConstructError("DuplicateTypesInComponent", DuplicatesWith(c, other))
    ELSE Merged(c, other)

Installed(c, other) ==
  LET conflicts == (ConstPs(c) \cap NonConstRs(other)) \cup (NonConstRs(c) \cap ConstPs(other))
  IN  IF DuplicatesWith(c, other) # {}
        THEN ConstructError("DuplicateTypesInComponent", DuplicatesWith(c, other))
      ELSE IF conflicts # {}
        THEN ConstructError("NonConstBindingRequiredButConstBindingProvided",
                            CHOOSE t \in conflicts : TRUE)
      ELSE Merged(c, other)

InstallComponent ==
  /\ Calling("InstallComponent")
  /\ LET other == ConstructComponentImpl(built[Head(agenda).comp].declared)
     IN  Op(Installed(comp, other), <<>>, 0, {}, {})

InstallEachComponent ==
  /\ Calling("InstallComponentFunctions")
  /\ LET cs == Head(agenda).comps
     IN  ComposeFunctors(comp, [k \in DOMAIN cs |-> [f |-> "InstallComponent", comp |-> cs[k]]])

-----------------------------------------------------------------------------
(* The conversion.  ProcessDeferredBindings calls the functors that were        *)
(* deferred, the last one first.                                               *)
ProcessDeferredBindings ==
  /\ Calling("ProcessDeferredBindings")
  /\ ComposeFunctors([comp EXCEPT !.DeferredBindingFunctors = <<>>],
                     comp.DeferredBindingFunctors)

Target == ConstructComponentImpl(declared)
TargetRequirements == RequirementsOf(Target)
TargetNonConstRequirements == NonConstRs(Target)

(* Mutant: types that are there as const are not looked at again.                *)
TypesToRegisterIgnoringConst ==
  (Target.Ps \cup RequirementsOf(comp)) \ (TargetRequirements \cup comp.Ps)

TypesToRegister ==
  ((Target.Ps \cup RequirementsOf(comp)) \ (TargetRequirements \cup comp.Ps))
  \cup (((Target.Ps \cap Target.NonConstRsPs) \cup NonConstRs(comp))
          \cap ((TargetRequirements \ Target.NonConstRsPs) \cup ConstPs(comp)))

(* In which order the types are registered follows from the order in which the  *)
(* set operations build their vectors: here it is any order.                    *)
ConvertComponent ==
  /\ Calling("ConvertComponent")
  /\ \E types \in SetToSeqs(TypesToRegister) :
       ComposeFunctors(comp, EnsureProvidedTypes(types, comp.NonConstRsPs
                                                          \cup Target.NonConstRsPs))

InTargetRequirements(t, nonConst) ==
  t \in TargetRequirements /\ (~nonConst \/ t \in TargetNonConstRequirements)

EnsureProvidedType ==
  /\ Calling("EnsureProvidedType")
  /\ LET t == Head(agenda).type
         nonConst == Head(agenda).nonConst
         impl == FindInMap(comp.InterfaceBindings, t)
         missing == t \notin comp.Ps /\ ~InTargetRequirements(t, nonConst)
     IN  \/ /\ t \in comp.Ps
            /\ nonConst /\ t \notin comp.NonConstRsPs
            /\ Fail(Caught(ConstructError("NonConstBindingRequiredButConstBindingProvided", t)))
         \/ /\ t \in comp.Ps
            /\ nonConst => t \in comp.NonConstRsPs
            /\ ComposeFunctors(comp, <<>>)
         \/ /\ t \notin comp.Ps
            /\ InTargetRequirements(t, nonConst)
            /\ ComposeFunctors(comp, <<>>)
         \/ /\ missing
            /\ \E c \in impl :
                 ComposeFunctors(comp, <<[f |-> "ProcessInterfaceBinding", i |-> t, c |-> c,
                                          nonConst |-> nonConst],
                                         EnsureProvidedTypeFunctor(c, nonConst)>>)
         \/ /\ missing
            /\ impl = {}
            /\ ComposeFunctors(comp,
                 <<[f |-> "AutoRegister", type |-> t]>>
                 \o IF nonConst /\ t \in TargetRequirements
                      THEN <<CatchFunctor(t, ConstructError(
                              "ConstBindingDeclaredAsRequiredButNonConstBindingRequired", t))>>
                      ELSE <<>>)

(* A handler around a functor that succeeded.                                    *)
LeaveCatch ==
  /\ Calling("Catch")
  /\ ComposeFunctors(comp, <<>>)

InjectSignature(t, returns) ==
  [result |-> ObjectOf(t), returns |-> returns, args |-> Traits[t.class].inject,
   wellFormed |-> TRUE]

(* AutoRegister of a class: its Inject typedef, if it has one.                   *)
AutoRegisterClass ==
  /\ Calling("AutoRegister")
  /\ LET t == Head(agenda).type
         sig == InjectSignature(t, "value")
         injected == RemoveAssisted(sig.args)
     IN  /\ t.shape = "object"
         /\ \/ /\ ~HasInjectAnnotation(t.class)
               /\ Fail(Caught(ConstructNoBindingFoundError(t)))
            \/ /\ HasInjectAnnotation(t.class)
               /\ ComposeFunctors(comp,
                    <<Functor("PreProcessRegisterConstructor", sig),
                      Functor("PostProcessRegisterConstructor", sig)>>
                    \o EnsureProvidedTypes(NormalizeTypeVector(injected),
                                           NormalizedNonConstTypesIn(injected)))

(* The provider that makes the std::function to from the std::function from.     *)
FunctorFromFunctor(to, from) ==
  [result |-> to, returns |-> "value", args |-> <<Injected("const T&", from)>>,
   wellFormed |-> TRUE]
RegisterFunctorFromFunctor(to, from) ==
  <<EnsureProvidedTypeFunctor(from, FALSE),
    Functor("PreProcessRegisterProvider", FunctorFromFunctor(to, from)),
    Functor("PostProcessRegisterProvider", FunctorFromFunctor(to, from))>>

(* AutoRegister of a factory: from the Inject typedef of the class; for a        *)
(* factory of unique_ptr<I>, from the factory of what I is bound to; for one of  *)
(* unique_ptr<C> with no typedef, from the factory of C.                         *)
AutoRegisterFactory ==
  /\ Calling("AutoRegister")
  /\ LET t == Head(agenda).type
         impl == FindInMap(comp.InterfaceBindings, ObjectOf(t))
         unique == t.shape = "unique_ptr_factory"
         sig == InjectSignature(t, IF unique THEN "unique_ptr" ELSE "value")
         injected == RemoveAssisted(sig.args)
     IN  /\ t.shape # "object"
         /\ \/ /\ unique
               /\ \E c \in impl :
                    ComposeFunctors(comp,
                      RegisterFunctorFromFunctor(t, FactoryOf(c, t.shape, t.args))
                      \o <<[f |-> "CheckVirtualDestructor", type |-> t]>>)
            \/ /\ impl = {}
               /\ HasInjectAnnotation(t.class)
               /\ IF IsAbstract(t.class)
                    THEN Fail(Caught(ConstructError("CannotConstructAbstractClass", t)))
                  ELSE IF RemoveNonAssisted(sig.args) # t.args
                    THEN Fail(Caught(ConstructError("FunctorSignatureDoesNotMatch", t)))
                    ELSE ComposeFunctors(comp,
                           <<Functor("RegisterFactory", sig)>>
                           \o EnsureProvidedTypes(NormalizeTypeVector(injected),
                                                  NormalizedNonConstTypesIn(injected)))
            \/ /\ impl = {}
               /\ unique
               /\ ~HasInjectAnnotation(t.class)
               /\ ~IsAbstract(t.class)
               /\ ComposeFunctors(comp,
                    RegisterFunctorFromFunctor(t, FactoryOf(t, "factory", t.args))
                    \o <<CatchFunctor(FactoryOf(t, "factory", t.args),
                                      ConstructNoBindingFoundError(t))>>)
            \/ /\ IF unique THEN impl = {} /\ ~HasInjectAnnotation(t.class) /\ IsAbstract(t.class)
                            ELSE impl # {} \/ ~HasInjectAnnotation(t.class)
               /\ Fail(Caught(ConstructError(IF IsAbstract(t.class)
                                               THEN "NoBindingFoundForAbstractClass"
                                               ELSE "NoBindingFound", t)))

(* A factory of unique_ptr<I> destroys what the factory of unique_ptr<C> made.    *)
CheckVirtualDestructor ==
  /\ Calling("CheckVirtualDestructor")
  /\ LET t == Head(agenda).type
     IN  Op(IF HasVirtualDestructor(t.class) THEN comp
            ELSE ConstructError("FactoryBindingForUniquePtrOfClassWithNoVirtualDestructor", t),
            <<>>, 0, {}, {})

-----------------------------------------------------------------------------
(* What the storage of the PartialComponent adds for a binding, and for how     *)
(* many entries its numBindings() asks.                                        *)
StorageEntries(b) ==
  CASE b.kind \in {"BindInstance", "BindConstInstance"} -> BindInstance(b.type, "instance")
    [] b.kind = "AddInstanceMultibinding" -> AddInstanceMultibinding(b.type, "instance")
    [] b.kind = "AddInstanceVectorMultibindings" -> AddInstanceMultibindings(b.type, b.objs)
    [] b.kind = "InstallComponent" -> Install(b.comp)
    [] b.kind = "InstallComponentFunctions" -> InstallComponentFunctions(b.comps)
    [] b.kind = "ReplaceComponent" -> Replace(b.comp, b.replacement)
    [] OTHER -> <<>>

(* Mutant: an instance multibinding counts as one entry.                         *)
NumBindingsOneEach(b) ==
  CASE b.kind \in {"BindInstance", "BindConstInstance", "InstallComponent",
                   "AddInstanceMultibinding"} -> 1
    [] b.kind = "AddInstanceVectorMultibindings" -> 2 * Len(b.objs)
    [] b.kind = "InstallComponentFunctions" -> Len(b.comps)
    [] b.kind = "ReplaceComponent" -> 2
    [] OTHER -> 0

NumBindings(b) ==
  CASE b.kind \in {"BindInstance", "BindConstInstance", "InstallComponent"} -> 1
    [] b.kind = "AddInstanceMultibinding" -> 2
    [] b.kind = "AddInstanceVectorMultibindings" -> 2 * Len(b.objs)
    [] b.kind = "InstallComponentFunctions" -> Len(b.comps)
    [] b.kind = "ReplaceComponent" -> 2
    [] OTHER -> 0

(* numBindings() of the storage of the last call asks the one before.           *)
NumBindingsOfAll(bs) ==
  LET num[n \in 0 .. Len(bs)] == IF n = 0 THEN 0 ELSE NumBindings(bs[n]) + num[n - 1]
  IN  num[Len(bs)]

-----------------------------------------------------------------------------
(* The calls of the user.                                                       *)
Start ==
  /\ calls' = <<>>
  /\ comp' = EmptyComp
  /\ agenda' = <<>>
  /\ entries' = <<>>
  /\ numEntries' = 0
  /\ declared' = [Rs |-> <<>>, Ps |-> <<>>]
  /\ uses' = {}
  /\ constBound' = {}
  /\ status' = "binding"

Init ==
  /\ built = <<>> /\ calls = <<>> /\ comp = EmptyComp /\ agenda = <<>>
  /\ entries = <<>> /\ numEntries = 0 /\ declared = [Rs |-> <<>>, Ps |-> <<>>]
  /\ uses = {} /\ constBound = {} /\ roots = {}
  /\ status = "binding" /\ error = NoError

ComponentsIn(b) ==
  CASE b.kind = "InstallComponent" -> {b.comp}
    [] b.kind = "InstallComponentFunctions" -> Range(b.comps)
    [] b.kind = "ReplaceComponent" -> {b.comp, b.replacement}
    [] OTHER -> {}

(* bind(), registerProvider(), install() and so on: the functor of the binding   *)
(* is called at once, to report its errors at the call (OpFor).                  *)
AddBinding(b) ==
  /\ status = "binding" /\ agenda = <<>>
  /\ Len(calls) < MaxCalls[Len(built) + 1]
  /\ ComponentsIn(b) \subseteq DOMAIN built
  /\ calls' = Append(calls, b)
  /\ agenda' = <<ProcessBinding(b)>>
  /\ UNCHANGED <<built, comp, entries, numEntries, declared, uses, constBound, roots,
                 status, error>>

(* The PartialComponent is returned from a function whose type is d.             *)
ConvertTo(d) ==
  /\ status = "binding" /\ agenda = <<>>
  /\ declared' = d
  /\ IF IsError(ConstructComponentImpl(d))
       THEN /\ status' = "error"
            /\ error' = ConstructComponentImpl(d)
            /\ UNCHANGED agenda
       ELSE /\ status' = "converting"
            /\ agenda' = <<[f |-> "ProcessDeferredBindings"], [f |-> "ConvertComponent"]>>
            /\ UNCHANGED error
  /\ UNCHANGED <<built, calls, comp, entries, numEntries, uses, constBound, roots>>

(* Component(PartialComponent&&), once its Op has been computed.                 *)
CheckNoLoopInDeps ==
  /\ status = "converting" /\ agenda = <<>>
  /\ GraphFindLoop(comp.Deps) # <<>>
  /\ Fail(ConstructError("SelfLoop", GraphFindLoop(comp.Deps)))

FinishConversion ==
  /\ status = "converting" /\ agenda = <<>>
  /\ GraphFindLoop(comp.Deps) = <<>>
  /\ entries' = ComponentEntries(entries, [k \in DOMAIN calls |-> StorageEntries(calls[k])])
  /\ numEntries' = numEntries + NumBindingsOfAll(calls)
  /\ built' = Append(built, [declared |-> declared, entries |-> entries'])
  /\ status' = "compiled"
  /\ UNCHANGED <<calls, comp, agenda, declared, uses, constBound, roots, error>>

CreateComponent ==
  /\ status = "compiled"
  /\ Len(built) < Len(BindingsOf)
  /\ Start
  /\ UNCHANGED <<built, roots, error>>

(* Injector<P...>(getComponent): a component with no requirements.                *)
CreateInjector(c) ==
  /\ status = "compiled"
  /\ built[c].declared.Rs = <<>>
  /\ roots' = {c}
  /\ status' = "injector"
  /\ UNCHANGED <<built, calls, comp, agenda, entries, numEntries, declared, uses,
                 constBound, error>>

(* Injector<P...>(normalized_component, getComponent).  No loop is searched for:  *)
(* the second component may not have requirements.                               *)
CheckConstructionFromNormalizedComponent(normalized, other, P) ==
  LET merged == Installed(other, normalized)
  IN  IF other.RsSuperset # {}
        THEN ConstructError("ComponentWithRequirementsInInjector", other.RsSuperset)
      ELSE IF IsError(merged) THEN merged
      ELSE IF RequirementsOf(merged) # {}
        THEN ConstructError("UnsatisfiedRequirementsInNormalizedComponent",
                            RequirementsOf(merged))
      ELSE IF ~(TypesOf(P) \subseteq merged.Ps)
        THEN ConstructError("TypesInInjectorNotProvided", TypesOf(P) \ merged.Ps)
      ELSE IF ~(NonConstTypesOf(P) \subseteq merged.NonConstRsPs)
        THEN ConstructError("TypesInInjectorProvidedAsConstOnly", NonConstTypesOf(P))
      ELSE NoError

CreateInjectorFromNormalized(n, c, P) ==
  LET e == CheckConstructionFromNormalizedComponent(
             ConstructComponentImpl(built[n].declared),
             ConstructComponentImpl(built[c].declared), P)
  IN  /\ status = "compiled"
      /\ \/ e # NoError /\ Fail(e)
         \/ /\ e = NoError
            /\ roots' = {n, c}
            /\ declared' = [Rs |-> <<>>, Ps |-> P]
            /\ status' = "injector"
            /\ UNCHANGED <<built, calls, comp, agenda, entries, numEntries, uses,
                           constBound, error>>

Terminated ==
  /\ status \in {"error", "injector", "compiled"}
  /\ UNCHANGED vars

Next ==
  \/ /\ status = "binding"
     /\ \/ \E b \in BindingsOf[Len(built) + 1] : AddBinding(b)
        \/ \E d \in DeclaredOf[Len(built) + 1] : ConvertTo(d)
  \/ ComponentFunctorIdentity \/ AddDeferredInterfaceBinding \/ ProcessInterfaceBinding
  \/ AddInterfaceMultibinding \/ DeferredRegisterConstructor \/ DeferredRegisterProvider
  \/ PreProcessRegisterConstructor \/ PreProcessRegisterProvider
  \/ PostProcessRegisterConstructor \/ PostProcessRegisterProvider
  \/ RegisterMultibindingProvider \/ RegisterInstance \/ RegisterFactory
  \/ InstallComponent \/ InstallEachComponent
  \/ ProcessDeferredBindings \/ ConvertComponent \/ EnsureProvidedType \/ LeaveCatch
  \/ AutoRegisterClass \/ AutoRegisterFactory \/ CheckVirtualDestructor
  \/ CheckNoLoopInDeps \/ FinishConversion \/ CreateComponent
  \/ \E c \in DOMAIN built : CreateInjector(c)
  \/ \E n, c \in DOMAIN built :
       \E P \in {built[n].declared.Ps, built[c].declared.Ps} :
         n # c /\ CreateInjectorFromNormalized(n, c, P)
  \/ Terminated

Spec == Init /\ [][Next]_vars
=============================================================================
