--------------------------- MODULE ComponentDeduction ---------------------------
(***************************************************************************)
(* What a compiled component promises to the component that installs it     *)
(* and to the injector: the properties that the normalization and the       *)
(* injector take for granted, since all of them have been checked at        *)
(* compile time.                                                           *)
(***************************************************************************)
EXTENDS ComponentFunctors

Compiling == status \in {"binding", "converting"}
Compiled == status = "compiled"

BindingEntries(es) == {k \in DOMAIN es : es[k].kind \in BindingKind}
InstalledIn(es) == {es[k].comp : k \in {j \in DOMAIN es : es[j].kind = "lazy"}}
DeclaredParams(c) == Range(built[c].declared.Ps)

-----------------------------------------------------------------------------
(* The types of the variables.                                                 *)
TypeOK ==
  /\ comp.RsSuperset \subseteq Type /\ comp.Ps \subseteq Type
  /\ comp.NonConstRsPs \subseteq Type
  /\ \A k \in DOMAIN comp.Deps : comp.Deps[k].th.type \in Type
  /\ \A k \in DOMAIN entries : entries[k] \in Entry
  /\ numEntries \in Nat
  /\ uses \subseteq [type : Type, nonConst : BOOLEAN]
  /\ constBound \subseteq Type
  /\ roots \subseteq Component /\ Len(built) <= Len(BindingsOf)
  /\ status \in {"binding", "converting", "compiled", "error", "injector"}

(* The invariants that Comp documents: every provided type is at the head of   *)
(* exactly one Dep, the types at the right of a Dep are requirements, and what  *)
(* is marked as non-const is provided or required.                             *)
CompIsConsistent ==
  /\ \A t \in comp.Ps : Cardinality({k \in DOMAIN comp.Deps : comp.Deps[k].th.type = t}) = 1
  /\ \A k \in DOMAIN comp.Deps : /\ comp.Deps[k].th.type \in comp.Ps
                                 /\ TypesOf(comp.Deps[k].hps) \subseteq comp.RsSuperset
  /\ comp.NonConstRsPs \subseteq comp.RsSuperset \cup comp.Ps

(* CheckComponentEntails, which only debug builds evaluate: a component provides *)
(* what it declares and requires no more, with the constness it declares.       *)
Entails ==
  Compiled =>
    /\ Target.Ps \subseteq comp.Ps
    /\ RequirementsOf(comp) \subseteq TargetRequirements
    /\ NonConstRs(comp) \subseteq Target.NonConstRsPs
    /\ Target.Ps \cap Target.NonConstRsPs \subseteq comp.NonConstRsPs

(* The vector of entries is allocated with the number of entries that all       *)
(* numEntries() and numBindings() add up to, and push_back does not check it.   *)
CapacityIsExact == Compiled => Len(entries) = numEntries

(* A type that a component provides comes from exactly one place: one entry of   *)
(* its own, or one component that it installs.  No entry binds another type.     *)
BoundExactlyOnce ==
  Compiled =>
    \A t \in comp.Ps \cup {entries[k].type : k \in BindingEntries(entries)} :
      Cardinality({k \in BindingEntries(entries) : entries[k].type = t})
        + Cardinality({c \in InstalledIn(entries) : t \in TypesOf(built[c].declared.Ps)}) = 1

(* A class that some interface is bound to is pushed together with the           *)
(* compressed entry of that interface, whether the bind() came before or after    *)
(* the constructor or the provider.                                              *)
CompressibleInEveryOrder ==
  Compiled =>
    \A k \in BindingEntries(entries) :
      (/\ entries[k].create.fn \in {"constructor", "provider"}
       /\ \E j \in DOMAIN comp.InterfaceBindings : comp.InterfaceBindings[j].c = entries[k].type)
      => /\ k > 1
         /\ entries[k - 1].kind = "compressed"
         /\ entries[k - 1].c_type = entries[k].type

(* What a subcomponent provides as const, and what the component itself requires *)
(* as const, is never requested as something that can be modified.               *)
ConstOfOthersIsRespected ==
  Compiled =>
    LET constElsewhere ==
          {p.type : p \in {q \in UNION {DeclaredParams(c) : c \in InstalledIn(entries)} : q.const}}
          \cup (TargetRequirements \ (Target.NonConstRsPs \cup comp.Ps))
    IN  \A u \in uses : u.nonConst => u.type \notin constElsewhere

(* Nothing that is bound as const is requested as something that can be          *)
(* modified, in whatever order the bindings come.                               *)
ConstIsRespected == Compiled => \A u \in uses : u.nonConst => u.type \notin constBound

(* The loop that is reported is one: each type depends on the next and the last  *)
(* on the first.  A component with no such report has no loop in its Deps.       *)
LoopReportIsExact ==
  /\ error.tag = "SelfLoop" =>
       LET loop == error.type
       IN  \A k \in DOMAIN loop : <<loop[k], loop[(k % Len(loop)) + 1]>> \in Edges(comp.Deps)
  /\ Compiled =>
       ~\E nodes \in SUBSET GetMapKeys(comp.Deps) :
          /\ nodes # {}
          /\ \A n \in nodes : \E m \in nodes : <<n, m>> \in Edges(comp.Deps)

(* The lambda of a factory gets each injected and each assisted argument at the   *)
(* place where its signature has it.                                             *)
FactoryArgsInPlace ==
  (Compiling /\ agenda # <<>> /\ Head(agenda).f = "RegisterFactory") =>
    LET args == Head(agenda).sig.args
        placed == [k \in DOMAIN args |-> [assisted |-> IsAssisted(args[k]), place |-> k]]
        passed == InvocationArgs(args, RemoveAssisted(placed), Sift(placed, TRUE))
    IN  \A k \in DOMAIN args : passed[k].place = k

-----------------------------------------------------------------------------
(* The whole program, from the components of the injector: the compile-time       *)
(* checks have seen one component at a time.                                     *)
Below(cs) == cs \cup UNION {InstalledIn(built[c].entries) : c \in cs}
ProgramEntries ==
  UNION {Range(built[c].entries) :
           c \in UNION {Below(Below(cs)) : cs \in {roots}}}
ProgramBindings == {e \in ProgramEntries : e.kind \in BindingKind}

(* Whatever an entry of the program depends on has a binding in the program.       *)
ProgramIsComplete ==
  status = "injector" =>
    \A e \in ProgramBindings \cup {m \in ProgramEntries : m.kind \in MultibindingKind} :
      \A t \in e.deps : \E b \in ProgramBindings : b.type = t

(* Two components may bind a type that neither declares: the normalization finds  *)
(* this at run time, and stops unless the bindings are the same.                 *)
NoConflict == \A b1, b2 \in ProgramBindings : b1.type = b2.type => b1 = b2

(* The bindings of a program that compiles have no loop, even where no component  *)
(* has all of the loop.                                                          *)
LoopsAreReported ==
  (status = "injector" /\ NoConflict) =>
    ~\E ts \in SUBSET {b.type : b \in ProgramBindings} :
       /\ ts # {}
       /\ \A t \in ts : \E b \in ProgramBindings : b.type = t /\ b.deps \cap ts # {}

(* The same for the programs that have no const in a declared type.                *)
LoopsWithoutConstAreReported ==
  (\A c \in DOMAIN built : \A p \in Range(built[c].declared.Rs \o built[c].declared.Ps) : ~p.const)
    => LoopsAreReported
=============================================================================
