----------------------------- MODULE MCCompression -----------------------------
(***************************************************************************)
(* Programs whose components bind an interface I and classes C and D, and  *)
(* use them from a class X and a multibinding M: bindings that agree and    *)
(* that do not, compressible pairs, and normalized components whose        *)
(* compressions have to be undone.                                         *)
(***************************************************************************)
EXTENDS BindingNormalization, ComponentDefinition

CONSTANTS I, C, D, X, M,
          root, nc, a, b

Types == {I, C, D, X, M}
Names == {root, nc, a, b}

Functors(entries) == [functors |-> entries, calls |-> <<>>]
Calls(entries) == [functors |-> <<>>, calls |-> <<entries>>]

Nothing == Functors(<<>>)
BindsIC == Functors(Bind(I, C) \o CompressibleConstructor(I, C, {}))
ProvidesIC == Functors(Bind(I, C) \o CompressibleProvider(I, C, {}))
UnusedBindIC == Functors(CompressibleConstructor(I, C, {}))
BindsID == Functors(Bind(I, D) \o CompressibleConstructor(I, D, {}))
HasC == Functors(RegisterConstructor(C, {}))
OtherC == Functors(RegisterProvider("other_provider", C, {}))
InstanceC == Calls(BindInstance(C, "instance"))
OtherInstanceC == Calls(BindInstance(C, "other_instance"))
XNeedsC == Functors(RegisterConstructor(X, {C}))
XNeedsCD == Functors(RegisterConstructor(X, {C, D}))
XNeedsI == Functors(RegisterProvider("provider", X, {I}))
MNeedsC == Functors(AddMultibinding(M, C))
MProvided == Functors(AddMultibindingProvider(M, {I}))
MInstances ==
  Calls(AddInstanceMultibindings(M, <<"instance", "other_instance">>))

DefinitionOfA == {BindsIC, ProvidesIC, UnusedBindIC, HasC, InstanceC}
DefinitionOfB == {BindsIC, BindsID, OtherC, OtherInstanceC, XNeedsC, XNeedsI,
                  MNeedsC, MProvided, MInstances}
DefinitionOfRoot == {Nothing, BindsIC, HasC, XNeedsC, XNeedsCD, MNeedsC}

(* A component that installs those in s and then has the definition d.        *)
Composed(s, d) ==
  ComponentEntries(d.functors, [i \in DOMAIN s |-> Install(s[i])] \o d.calls)

Installs == {<<>>, <<a>>, <<b>>, <<a, b>>, <<b, a>>}

Candidates ==
  {[body |-> [c \in Names |->
                CASE c = root -> Composed(s, dr)
                  [] c = nc -> Composed(n, Nothing)
                  [] c = a -> Composed(<<>>, da)
                  [] c = b -> Composed(<<>>, db)],
    root |-> root,
    base |-> IF n = <<>> THEN NoComponent ELSE nc,
    exposed |-> e, baseExposed |-> be, declared |-> s]
     : s \in Installs, n \in {<<>>, <<a>>, <<a, b>>},
       da \in DefinitionOfA, db \in DefinitionOfB, dr \in DefinitionOfRoot,
       e \in {{}, {C}, {I}}, be \in {{}, {C}, {I}}}

(* What the compile-time checks accept: the requirements of the root are      *)
(* bound below it, what is exposed is bound, what the normalized component    *)
(* still requires is exposed by the root, and no type is exposed twice.       *)
Below(p, c) ==
  {c} \cup {p.body[c][i].comp :
              i \in {j \in DOMAIN p.body[c] : p.body[c][j].kind = "lazy"}}
EntriesBelow(p, c) ==
  UNION {{p.body[d][i] : i \in DOMAIN p.body[d]} : d \in Below(p, c)}
TypesBound(p, c) ==
  {e.type : e \in {f \in EntriesBelow(p, c) : f.kind \in BindingKind}}
TypesNeeded(p, c) ==
  UNION {e.deps : e \in {f \in EntriesBelow(p, c) :
                           f.kind \in BindingKind \cup MultibindingKind}}

Compiles(p) ==
  /\ TypesNeeded(p, root) \subseteq TypesBound(p, root)
  /\ p.exposed \subseteq TypesBound(p, root)
  /\ IF p.base = NoComponent THEN p.baseExposed = {}
     ELSE /\ p.baseExposed \subseteq TypesBound(p, nc)
          /\ TypesNeeded(p, nc) \ TypesBound(p, nc) \subseteq p.exposed
          /\ p.baseExposed \cap p.exposed = {}

MCProgram == {p \in Candidates : Compiles(p)}
=============================================================================
