---------------------------- MODULE DeductionProofs ----------------------------
(***************************************************************************)
(* Proofs about the meta program, for all classes, signatures, bindings and *)
(* declared types: what a component that compiles promises to the component *)
(* that installs it and to the injector.                                    *)
(***************************************************************************)
EXTENDS ComponentDeduction, SequenceTheorems, FiniteSetTheorems,
        WellFoundedInduction, TLAPS

-----------------------------------------------------------------------------
(* The types of the variables.                                                 *)
IsSequence(s) == s \in Seq(Range(s))

Dep == [th : Parameter, hps : Seq(Parameter)]
DeferredFunctor ==
  [f : {"PostProcessRegisterConstructor", "PostProcessRegisterProvider"}, sig : Signature]
CompRecord ==
  [RsSuperset : SUBSET GraphType, Ps : SUBSET GraphType,
   NonConstRsPs : SUBSET GraphType, Deps : Seq(Dep),
   InterfaceBindings : Seq([i : ObjectType, c : ObjectType]),
   DeferredBindingFunctors : Seq(DeferredFunctor)]

PreProcess == {"PreProcessRegisterConstructor", "PreProcessRegisterProvider"}
PostProcess == {"PostProcessRegisterConstructor", "PostProcessRegisterProvider"}

(* The functors that are called when a binding is added, those that are called  *)
(* for what was deferred, and those that register a type that is needed.        *)
BindingFunctor ==
  {"ComponentFunctorIdentity", "AddDeferredInterfaceBinding", "AddInterfaceMultibinding",
   "DeferredRegisterConstructor", "DeferredRegisterProvider",
   "RegisterMultibindingProvider", "RegisterInstance", "RegisterFactory",
   "InstallComponent", "InstallComponentFunctions"} \cup PreProcess
EnsureFunctor ==
  {"EnsureProvidedType", "ProcessInterfaceBinding", "AutoRegister", "Catch",
   "CheckVirtualDestructor", "RegisterFactory"} \cup PreProcess \cup PostProcess

FunctorOK(x) ==
  /\ x.f \in {"AddDeferredInterfaceBinding", "AddInterfaceMultibinding",
              "ProcessInterfaceBinding"} => x.i \in ObjectType /\ x.c \in ObjectType
  /\ x.f \in {"DeferredRegisterConstructor", "DeferredRegisterProvider",
              "RegisterMultibindingProvider", "RegisterFactory"}
             \cup PreProcess \cup PostProcess => x.sig \in Signature
  /\ x.f \in {"RegisterInstance", "EnsureProvidedType", "AutoRegister",
              "CheckVirtualDestructor"} => x.type \in GraphType
  /\ x.f \in {"EnsureProvidedType", "ProcessInterfaceBinding"} => x.nonConst \in BOOLEAN
  /\ x.f \in {"DeferredRegisterProvider", "RegisterMultibindingProvider",
              "PreProcessRegisterProvider"} =>
       x.sig \in ProviderSignature
  /\ x.f = "InstallComponent" => x.comp \in DOMAIN built
  /\ x.f = "InstallComponentFunctions" =>
       x.comps \in Seq(Component) /\ Range(x.comps) \subseteq DOMAIN built

Deferring ==
  /\ Len(agenda) >= 1 /\ agenda[Len(agenda)].f = "ConvertComponent"
  /\ \A k \in 1 .. Len(agenda) - 1 :
       agenda[k].f \in PostProcess \cup {"ProcessDeferredBindings"}
Ensuring == \A x \in Range(agenda) : x.f \in EnsureFunctor

(* What a binding installs, and what a functor does.                           *)
InstalledBy(b) ==
  CASE b.kind = "InstallComponent" -> {b.comp}
    [] b.kind = "InstallComponentFunctions" -> Range(b.comps)
    [] OTHER -> {}
ToInstall(x) ==
  CASE x.f = "InstallComponent" -> {x.comp}
    [] x.f = "InstallComponentFunctions" -> Range(x.comps)
    [] OTHER -> {}

WellDeclared(d) == d \in ComponentType /\ ~HasDuplicates(d.Rs \o d.Ps)

TypeInv ==
  /\ IsSequence(built) /\ \A c \in DOMAIN built : WellDeclared(built[c].declared)
  /\ calls \in Seq(BindingCall)
  /\ \A k \in DOMAIN calls : InstalledBy(calls[k]) \subseteq DOMAIN built
  /\ IsSequence(agenda) /\ \A x \in Range(agenda) : FunctorOK(x)
  /\ IsSequence(entries) /\ numEntries \in Nat
  /\ declared \in ComponentType
  /\ status \in {"binding", "converting", "compiled", "error", "injector"}
  /\ status \in {"binding", "converting"} => Len(built) < Len(BindingsOf)
  /\ status = "binding" => \A x \in Range(agenda) : x.f \in BindingFunctor
  /\ status = "converting" => WellDeclared(declared) /\ (Deferring \/ Ensuring)
  /\ status = "compiled" => WellDeclared(declared) /\ agenda = <<>>

CompOK(c) ==
  /\ c \in CompRecord /\ IsFiniteSet(c.RsSuperset)
  /\ \A i, j \in DOMAIN c.Deps : c.Deps[i].th.type = c.Deps[j].th.type => i = j
  /\ c.Ps = {c.Deps[k].th.type : k \in DOMAIN c.Deps}
  /\ \A k \in DOMAIN c.Deps : TypesOf(c.Deps[k].hps) \subseteq c.RsSuperset
  /\ c.NonConstRsPs \subseteq c.RsSuperset \cup c.Ps
CompInv == CompOK(comp)

-----------------------------------------------------------------------------
(* What is still needed is promised by a functor of the agenda.                *)
Ensures(x, t, nonConst) ==
  \/ x.f = "EnsureProvidedType" /\ x.type = t /\ (nonConst => x.nonConst)
  \/ x.f = "ProcessInterfaceBinding" /\ x.i = t /\ (nonConst => x.nonConst)
  \/ x.f = "AutoRegister" /\ x.type = t
  \/ x.f \in PreProcess /\ x.sig.result = t
  \/ x.f = "RegisterFactory" /\ FunctorType(x.sig) = t
Pending(t, nonConst) == \E x \in Range(agenda) : Ensures(x, t, nonConst)
Covered(t, nonConst) ==
  t \in comp.Ps \/ InTargetRequirements(t, nonConst) \/ Pending(t, nonConst)

(* What a functor will add to the requirements.                                *)
InjectedArgs(x) == RemoveAssisted(x.sig.args)
Needs(x) ==
  IF x.f = "ProcessInterfaceBinding" THEN {x.c}
  ELSE IF x.f \in PreProcess \cup {"RegisterFactory"} THEN Range(NormalizeTypeVector(InjectedArgs(x)))
  ELSE {}
NonConstNeeds(x) ==
  IF x.f = "ProcessInterfaceBinding" THEN IF x.nonConst THEN {x.c} ELSE {}
  ELSE IF x.f \in PreProcess \cup {"RegisterFactory"} THEN NormalizedNonConstTypesIn(InjectedArgs(x))
  ELSE {}

EnsureInv ==
  (status \in {"converting", "compiled"} /\ Ensuring) =>
    /\ \A t \in Target.Ps \cup comp.RsSuperset : Covered(t, FALSE)
    /\ \A t \in comp.NonConstRsPs : Covered(t, TRUE)
    /\ \A t \in Target.Ps \cap Target.NonConstRsPs :
         t \in comp.NonConstRsPs \/ Pending(t, TRUE)
    /\ \A x \in Range(agenda) : /\ \A t \in Needs(x) : Covered(t, FALSE)
                                /\ \A t \in NonConstNeeds(x) : Covered(t, TRUE)

-----------------------------------------------------------------------------
(* What was installed.                                                         *)
ConstTypesOf(params) == {params[i].type : i \in {j \in DOMAIN params : params[j].const}}

(* A constructor or a provider whose requirements are in Comp.                 *)
Processed(sig, c) ==
  /\ sig.args \in Seq(InjectedArg)
  /\ NormalizedNonConstTypesIn(sig.args) \subseteq c.NonConstRsPs
WillProcess(a, k, sig) == a[k].f \in PreProcess /\ a[k].sig = sig

ConstInv ==
  /\ status \in {"binding", "converting", "compiled"} =>
       /\ \A u \in uses : u.nonConst => u.type \in comp.NonConstRsPs
       /\ \A k \in DOMAIN agenda : agenda[k].f \in PostProcess =>
            Processed(agenda[k].sig, comp) \/ \E j \in 1 .. k - 1 : WillProcess(agenda, j, agenda[k].sig)
       /\ \A x \in Range(comp.DeferredBindingFunctors) :
            Processed(x.sig, comp) \/ \E j \in DOMAIN agenda : WillProcess(agenda, j, x.sig)
       /\ \A k \in DOMAIN calls : \A c \in InstalledBy(calls[k]) :
            \/ ConstTypesOf(built[c].declared.Ps) \subseteq ConstPs(comp)
            \/ \E x \in Range(agenda) : c \in ToInstall(x)
  /\ Compiling => \A e \in Range(entries) : e.kind # "lazy"
  /\ Compiled => InstalledIn(entries) \subseteq UNION {InstalledBy(b) : b \in Range(calls)}

-----------------------------------------------------------------------------
(* The entries.                                                                *)
CapacityInv == Compiling \/ Compiled => Len(entries) = numEntries

IsMade(e) == e.kind \in BindingKind /\ e.create.fn \in {"constructor", "provider"}
IsImplementation(t) ==
  \E j \in DOMAIN comp.InterfaceBindings : comp.InterfaceBindings[j].c = t
MadeWithCompressed(es) ==
  \A k \in DOMAIN es : IsMade(es[k]) /\ IsImplementation(es[k].type) =>
    k > 1 /\ es[k - 1].kind = "compressed" /\ es[k - 1].c_type = es[k].type
CompressibleInv ==
  /\ status = "binding" => \A e \in Range(entries) : IsMade(e) => e.type.shape # "object"
  /\ Compiling \/ Compiled => MadeWithCompressed(entries)

-----------------------------------------------------------------------------
(* Induction up to a number, with a set of numbers for the predicate.          *)
LEMMA InductionTo ==
  ASSUME NEW n \in Nat, NEW P, 0 \in P,
         \A k \in 0 .. n - 1 : k \in P => k + 1 \in P
  PROVE  \A k \in 0 .. n : k \in P
<1> DEFINE T == {k \in 0 .. n : k \notin P}
           R == OpToRel(<, Nat)
<1>1. SUFFICES ASSUME T # {} PROVE FALSE
  OBVIOUS
<1>2. T \subseteq Nat
  OBVIOUS
<1>3. PICK x \in T : \A y \in T : ~ (<<y, x>> \in R)
  <2> HIDE DEF T, R
  <2> QED BY <1>1, <1>2, NatLessThanWellFounded, WFMin, Zenon DEF R
<1>4. x \in 0 .. n /\ x \notin P /\ x # 0
  OBVIOUS
<1>5. x - 1 \in 0 .. n - 1 /\ x - 1 + 1 = x
  BY <1>4
<1>6. x - 1 \in T
  BY <1>4, <1>5
<1>7. <<x - 1, x>> \in R
  BY <1>4 DEF OpToRel
<1> QED BY <1>3, <1>6, <1>7

-----------------------------------------------------------------------------
(* Sequences, of any elements.                                                 *)
LEMMA SequenceFacts ==
  ASSUME NEW s, IsSequence(s)
  PROVE  /\ Len(s) \in Nat /\ DOMAIN s = 1 .. Len(s)
         /\ \A i \in DOMAIN s : s[i] \in Range(s)
         /\ s = <<>> <=> Len(s) = 0
BY DEF IsSequence, Range

LEMMA SequenceOver ==
  ASSUME NEW S, NEW s \in Seq(S)
  PROVE  IsSequence(s) /\ Range(s) \subseteq S
<1>1. Len(s) \in Nat /\ DOMAIN s = 1 .. Len(s) /\ s = [i \in 1 .. Len(s) |-> s[i]]
  OBVIOUS
<1>2. \A i \in 1 .. Len(s) : s[i] \in Range(s) /\ s[i] \in S
  BY <1>1 DEF Range
<1>3. s \in Seq(Range(s))
  BY <1>1, <1>2
<1> QED BY <1>1, <1>2, <1>3 DEF IsSequence, Range

LEMMA SequenceWithin ==
  ASSUME NEW S, NEW s, IsSequence(s), Range(s) \subseteq S
  PROVE  s \in Seq(S)
BY DEF IsSequence

LEMMA FunctionIsSequence ==
  ASSUME NEW n \in Nat, NEW s, DOMAIN s = 1 .. n, s = [i \in 1 .. n |-> s[i]]
  PROVE  IsSequence(s) /\ Len(s) = n
<1>1. \A i \in 1 .. n : s[i] \in Range(s)
  BY DEF Range
<1>2. s \in [1 .. n -> Range(s)]
  BY <1>1
<1>3. s \in Seq(Range(s))
  BY <1>2
<1> QED BY <1>3 DEF IsSequence

IsJoin(r, s, t) ==
  /\ IsSequence(r) /\ Len(r) = Len(s) + Len(t)
  /\ Range(r) = Range(s) \cup Range(t)
  /\ DOMAIN r = 1 .. Len(s) + Len(t)
  /\ \A i \in 1 .. Len(s) : i \in DOMAIN r /\ r[i] = s[i]
  /\ \A i \in 1 .. Len(t) : Len(s) + i \in DOMAIN r /\ r[Len(s) + i] = t[i]
  /\ \A i \in DOMAIN r : \/ i \in 1 .. Len(s)
                         \/ i - Len(s) \in 1 .. Len(t) /\ Len(s) + (i - Len(s)) = i
  /\ Len(s) \in Nat /\ Len(t) \in Nat
  /\ DOMAIN s = 1 .. Len(s) /\ DOMAIN t = 1 .. Len(t)

LEMMA Joined ==
  ASSUME NEW s, IsSequence(s), NEW t, IsSequence(t)
  PROVE  IsJoin(s \o t, s, t)
<1> DEFINE S == Range(s) \cup Range(t)
<1>1. s \in Seq(S) /\ t \in Seq(S)
  BY DEF IsSequence
<1>2. Len(s) \in Nat /\ Len(t) \in Nat /\ DOMAIN s = 1 .. Len(s) /\ DOMAIN t = 1 .. Len(t)
  BY SequenceFacts
<1>3. /\ s \o t \in Seq(S) /\ Len(s \o t) = Len(s) + Len(t)
      /\ DOMAIN (s \o t) = 1 .. Len(s) + Len(t)
  <2> HIDE DEF S
  <2> QED BY <1>1
<1>4. \A i \in 1 .. Len(s) : i \in 1 .. Len(s) + Len(t) /\ (s \o t)[i] = s[i]
  <2> HIDE DEF S
  <2> QED BY <1>1, <1>2
<1>5. \A i \in 1 .. Len(t) : /\ Len(s) + i \in 1 .. Len(s) + Len(t)
                             /\ (s \o t)[Len(s) + i] = t[i]
  <2> HIDE DEF S
  <2> QED BY <1>1, <1>2
<1>6. ASSUME NEW i \in 1 .. Len(s) + Len(t)
      PROVE  \/ i \in 1 .. Len(s)
             \/ i - Len(s) \in 1 .. Len(t) /\ Len(s) + (i - Len(s)) = i
  BY <1>2
<1>7. Range(s \o t) \subseteq Range(s) \cup Range(t)
  BY <1>2, <1>3, <1>4, <1>5, <1>6 DEF Range
<1>8. Range(s) \cup Range(t) \subseteq Range(s \o t)
  BY <1>2, <1>3, <1>4, <1>5 DEF Range
<1>9. IsSequence(s \o t)
  BY <1>3, SequenceOver DEF IsSequence
<1> HIDE DEF S
<1> QED BY <1>2, <1>3, <1>4, <1>5, <1>6, <1>7, <1>8, <1>9 DEF IsJoin

LEMMA Rest ==
  ASSUME NEW s, IsSequence(s), s # <<>>
  PROVE  /\ IsSequence(Tail(s)) /\ Len(Tail(s)) = Len(s) - 1 /\ Len(s) >= 1
         /\ DOMAIN Tail(s) = 1 .. Len(s) - 1
         /\ \A i \in DOMAIN Tail(s) : i + 1 \in DOMAIN s /\ Tail(s)[i] = s[i + 1]
         /\ Head(s) = s[1] /\ 1 \in DOMAIN s
         /\ Range(s) = {Head(s)} \cup Range(Tail(s))
<1>1. /\ s \in Seq(Range(s)) /\ Len(s) \in Nat /\ DOMAIN s = 1 .. Len(s) /\ Len(s) >= 1
  BY SequenceFacts DEF IsSequence
<1>2. /\ Tail(s) \in Seq(Range(s)) /\ Len(Tail(s)) = Len(s) - 1
      /\ DOMAIN Tail(s) = 1 .. Len(s) - 1
      /\ \A i \in 1 .. Len(s) - 1 : i + 1 \in 1 .. Len(s) /\ Tail(s)[i] = s[i + 1]
      /\ Head(s) = s[1]
  BY <1>1
<1>3. IsSequence(Tail(s))
  BY <1>2, SequenceOver
<1>4. \A i \in 1 .. Len(s) :
        i = 1 \/ (i - 1 \in 1 .. Len(s) - 1 /\ Tail(s)[i - 1] = s[i])
  BY <1>1, <1>2
<1>5. \A i \in 1 .. Len(s) : s[i] = Head(s) \/ s[i] \in Range(Tail(s))
  BY <1>2, <1>4 DEF Range
<1>6. {Head(s)} \cup Range(Tail(s)) \subseteq Range(s)
  BY <1>1, <1>2 DEF Range
<1>7. Range(s) \subseteq {Head(s)} \cup Range(Tail(s))
  BY <1>1, <1>5 DEF Range
<1> QED BY <1>1, <1>2, <1>3, <1>6, <1>7

LEMMA Appended ==
  ASSUME NEW s, IsSequence(s), NEW e
  PROVE  /\ IsSequence(Append(s, e)) /\ Len(Append(s, e)) = Len(s) + 1
         /\ Range(Append(s, e)) = Range(s) \cup {e}
         /\ DOMAIN Append(s, e) = 1 .. Len(s) + 1
         /\ \A i \in DOMAIN s : Append(s, e)[i] = s[i]
         /\ Append(s, e)[Len(s) + 1] = e
<1> DEFINE S == Range(s) \cup {e}
<1>1. s \in Seq(S) /\ e \in S /\ Len(s) \in Nat /\ DOMAIN s = 1 .. Len(s)
  BY SequenceFacts DEF IsSequence
<1>2. /\ Append(s, e) \in Seq(S) /\ Len(Append(s, e)) = Len(s) + 1
      /\ DOMAIN Append(s, e) = 1 .. Len(s) + 1
      /\ \A i \in 1 .. Len(s) : i \in 1 .. Len(s) + 1 /\ Append(s, e)[i] = s[i]
      /\ Append(s, e)[Len(s) + 1] = e /\ Len(s) + 1 \in 1 .. Len(s) + 1
  <2> HIDE DEF S
  <2> QED BY <1>1
<1>3. \A i \in 1 .. Len(s) + 1 : i \in 1 .. Len(s) \/ i = Len(s) + 1
  BY <1>1
<1>4. Range(Append(s, e)) \subseteq S
  BY <1>1, <1>2, <1>3 DEF Range
<1>5. S \subseteq Range(Append(s, e))
  BY <1>1, <1>2 DEF Range
<1> QED BY <1>1, <1>2, <1>4, <1>5, SequenceOver

LEMMA Singleton ==
  ASSUME NEW a
  PROVE  /\ IsSequence(<<a>>) /\ Range(<<a>>) = {a} /\ Len(<<a>>) = 1 /\ DOMAIN <<a>> = {1}
         /\ <<a>>[1] = a
<1>1. <<a>> \in Seq({a})
  OBVIOUS
<1>2. Range(<<a>>) = {a}
  BY DEF Range
<1>3. DOMAIN <<a>> = {1}
  OBVIOUS
<1> QED BY <1>1, <1>2, <1>3, SequenceOver

LEMMA Pair ==
  ASSUME NEW a, NEW b
  PROVE  /\ IsSequence(<<a, b>>) /\ Range(<<a, b>>) = {a, b} /\ Len(<<a, b>>) = 2
         /\ DOMAIN <<a, b>> = {1, 2} /\ <<a, b>>[1] = a /\ <<a, b>>[2] = b
<1>1. <<a, b>> \in Seq({a, b})
  OBVIOUS
<1>2. Range(<<a, b>>) = {a, b}
  BY DEF Range
<1>3. DOMAIN <<a, b>> = {1, 2}
  OBVIOUS
<1> QED BY <1>1, <1>2, <1>3, SequenceOver

LEMMA Triple ==
  ASSUME NEW a, NEW b, NEW c
  PROVE  /\ IsSequence(<<a, b, c>>) /\ Range(<<a, b, c>>) = {a, b, c}
         /\ DOMAIN <<a, b, c>> = {1, 2, 3}
         /\ <<a, b, c>>[1] = a /\ <<a, b, c>>[2] = b /\ <<a, b, c>>[3] = c
<1>1. <<a, b, c>> \in Seq({a, b, c})
  OBVIOUS
<1>2. Range(<<a, b, c>>) = {a, b, c}
  BY DEF Range
<1>3. DOMAIN <<a, b, c>> = {1, 2, 3}
  OBVIOUS
<1> QED BY <1>1, <1>2, <1>3, SequenceOver

LEMMA Empty ==
  /\ IsSequence(<<>>) /\ Range(<<>>) = {} /\ DOMAIN <<>> = {} /\ Len(<<>>) = 0
<1>1. DOMAIN <<>> = {} /\ <<>> \in Seq({})
  OBVIOUS
<1>2. Range(<<>>) = {}
  BY DEF Range
<1> QED BY <1>1, <1>2, SequenceOver

-----------------------------------------------------------------------------
(* A function defined by recursion up to a number exists.                      *)
Steps(N, X) == [1 .. N -> [X -> X]]
Repeats(f, N, X, base, step) == /\ f \in [0 .. N -> X] /\ f[0] = base
                                /\ \A n \in 1 .. N : f[n] = step[n][f[n - 1]]

LEMMA RecursionTo ==
  ASSUME NEW N \in Nat, NEW X, NEW base \in X, NEW step \in Steps(N, X)
  PROVE  \E f : Repeats(f, N, X, base, step)
<1> USE DEF Steps
<1> DEFINE Good(g, k) == /\ g \in [0 .. k -> X] /\ g[0] = base
                         /\ \A n \in 1 .. k : g[n] = step[n][g[n - 1]]
           P == {k \in 0 .. N : \E g : Good(g, k)}
<1>1. 0 \in P
  <2> DEFINE z == [n \in 0 .. 0 |-> base]
  <2>1. z \in [0 .. 0 -> X] /\ z[0] = base
    OBVIOUS
  <2>2. 1 .. 0 = {} /\ 0 \in 0 .. N
    OBVIOUS
  <2> HIDE DEF z
  <2> QED BY <2>1, <2>2
<1>2. ASSUME NEW k \in 0 .. N - 1, k \in P
      PROVE  k + 1 \in P
  <2>1. PICK g : Good(g, k)
    BY <1>2
  <2> DEFINE h == [n \in 0 .. k + 1 |-> IF n = k + 1 THEN step[k + 1][g[k]] ELSE g[n]]
  <2>2. k + 1 \in 1 .. N /\ g[k] \in X /\ k + 1 \in 0 .. N
    BY <2>1
  <2>3. step[k + 1][g[k]] \in X
    BY <2>2
  <2>4. h \in [0 .. k + 1 -> X]
    BY <2>1, <2>3
  <2>5. h[0] = base /\ \A n \in 0 .. k : h[n] = g[n]
    BY <2>1
  <2>6. ASSUME NEW n \in 1 .. k + 1
        PROVE  h[n] = step[n][h[n - 1]]
    <3>1. CASE n = k + 1
      <4>1. n - 1 = k /\ h[n - 1] = g[k] /\ h[n] = step[k + 1][g[k]]
        BY <2>5, <3>1
      <4> QED BY <3>1, <4>1
    <3>2. CASE n # k + 1
      <4>1. n \in 1 .. k /\ n - 1 \in 0 .. k
        BY <3>2
      <4>2. h[n] = g[n] /\ h[n - 1] = g[n - 1]
        BY <2>5, <4>1
      <4> QED BY <2>1, <4>1, <4>2
    <3> QED BY <3>1, <3>2
  <2> HIDE DEF h
  <2>7. Good(h, k + 1)
    BY <2>4, <2>5, <2>6
  <2> QED BY <2>2, <2>7
<1>3. N \in P
  <2> HIDE DEF P
  <2>1. \A k \in 0 .. N : k \in P
    BY <1>1, <1>2, InductionTo
  <2> QED BY <2>1
<1> QED BY <1>3 DEF Repeats

-----------------------------------------------------------------------------
(* The arguments of one sort, in their order.                                  *)
IsOfSort(args, b, i) == IsAssisted(args[i]) = b
Before(args, b, n) == {i \in 1 .. n : IsOfSort(args, b, i)}

LEMMA CountBefore ==
  ASSUME NEW args, NEW b, NEW n \in Nat
  PROVE  /\ IsFiniteSet(Before(args, b, n)) /\ Cardinality(Before(args, b, n)) \in Nat
         /\ Cardinality(Before(args, b, 0)) = 0
         /\ Cardinality(Before(args, b, n + 1)) =
              Cardinality(Before(args, b, n)) + (IF IsOfSort(args, b, n + 1) THEN 1 ELSE 0)
<1>1. /\ IsFiniteSet(Before(args, b, n))
      /\ Cardinality(Before(args, b, n)) \in Nat
  <2>1. Before(args, b, n) \subseteq 1 .. n /\ IsFiniteSet(1 .. n)
    BY FS_Interval DEF Before
  <2> QED BY <2>1, FS_Subset, FS_CardinalityType
<1>2. Cardinality(Before(args, b, 0)) = 0
  <2>1. Before(args, b, 0) = {}
    BY DEF Before
  <2> QED BY <2>1, FS_EmptySet
<1>3. Cardinality(Before(args, b, n + 1)) =
        Cardinality(Before(args, b, n)) + (IF IsOfSort(args, b, n + 1) THEN 1 ELSE 0)
  <2>1. CASE IsOfSort(args, b, n + 1)
    <3>1. Before(args, b, n + 1) = Before(args, b, n) \cup {n + 1}
      BY <2>1 DEF Before
    <3>2. n + 1 \notin Before(args, b, n)
      BY DEF Before
    <3> QED BY <1>1, <2>1, <3>1, <3>2, FS_AddElement
  <2>2. CASE ~IsOfSort(args, b, n + 1)
    <3>1. Before(args, b, n + 1) = Before(args, b, n)
      BY <2>2 DEF Before
    <3> QED BY <1>1, <2>2, <3>1
  <2> QED BY <2>1, <2>2
<1> QED BY <1>1, <1>2, <1>3

LEMMA Sifting ==
  ASSUME NEW args, IsSequence(args), NEW b
  PROVE  \E r \in [0 .. Len(args) -> Seq(Range(args))] :
           /\ Sift(args, b) = r[Len(args)] /\ r[0] = <<>>
           /\ \A n \in 1 .. Len(args) :
                r[n] = IF IsAssisted(args[n]) = b THEN Append(r[n - 1], args[n])
                       ELSE r[n - 1]
<1> DEFINE N == Len(args)
           X == Seq(Range(args))
           Eq(f) == f = [n \in 0 .. N |->
                           IF n = 0 THEN <<>>
                           ELSE IF IsAssisted(args[n]) = b THEN Append(f[n - 1], args[n])
                           ELSE f[n - 1]]
           r == CHOOSE f : Eq(f)
           step == [n \in 1 .. N |->
                      [x \in X |->
                         IF IsAssisted(args[n]) = b THEN Append(x, args[n]) ELSE x]]
<1>1. Sift(args, b) = r[N]
  BY DEF Sift
<1>2. N \in Nat /\ \A n \in 1 .. N : args[n] \in Range(args)
  BY SequenceFacts
<1>3. step \in [1 .. N -> [X -> X]] /\ <<>> \in X
  BY <1>2
<1>step. \A n \in 1 .. N : \A x \in X :
           step[n][x] = IF IsAssisted(args[n]) = b THEN Append(x, args[n]) ELSE x
  <2> HIDE DEF X
  <2> QED OBVIOUS
<1> HIDE DEF step
<1>4. PICK f \in [0 .. N -> X] : /\ f[0] = <<>>
                                 /\ \A n \in 1 .. N : f[n] = step[n][f[n - 1]]
  <2> HIDE DEF N, X
  <2> DEFINE nil == <<>>
  <2>1. N \in Nat /\ nil \in X /\ step \in Steps(N, X)
    BY <1>2, <1>3 DEF Steps
  <2> HIDE DEF nil
  <2>2. \E f : Repeats(f, N, X, nil, step)
    BY <2>1, RecursionTo
  <2> QED BY <2>2 DEF nil, Repeats
<1>5. \A n \in 1 .. N :
        f[n] = IF IsAssisted(args[n]) = b THEN Append(f[n - 1], args[n]) ELSE f[n - 1]
  <2> TAKE n \in 1 .. N
  <2>1. n - 1 \in 0 .. N
    BY <1>2
  <2>2. f[n - 1] \in X
    BY <2>1
  <2> HIDE DEF X
  <2> QED BY <1>4, <1>step, <2>2
<1>6. Eq(f)
  <2> HIDE DEF N, X, step
  <2>1. \A n \in 0 .. N : n = 0 \/ n \in 1 .. N
    BY <1>2
  <2> QED BY <1>4, <1>5, <2>1
<1>7. Eq(r)
  <2> HIDE DEF Eq
  <2> QED BY <1>6
<1> HIDE DEF r
<1>8. r[0] = <<>>
  <2>1. 0 \in 0 .. N
    BY <1>2
  <2> HIDE DEF N
  <2> QED BY <1>7, <2>1
<1>9. \A n \in 1 .. N :
        r[n] = IF IsAssisted(args[n]) = b THEN Append(r[n - 1], args[n]) ELSE r[n - 1]
  <2> TAKE n \in 1 .. N
  <2>1. n \in 0 .. N /\ n # 0
    BY <1>2
  <2> QED BY <1>7, <2>1
<1>10. \A n \in 0 .. N : r[n] \in X
  <2> DEFINE P == {n \in 0 .. N : r[n] \in X}
  <2>1. 0 \in P
    <3> HIDE DEF X
    <3> QED BY <1>2, <1>3, <1>8
  <2>2. ASSUME NEW n \in 0 .. N - 1, n \in P
        PROVE  n + 1 \in P
    <3>1. n + 1 \in 1 .. N /\ (n + 1) - 1 = n /\ n + 1 \in 0 .. N
      BY <1>2
    <3>2. r[n + 1] = IF IsAssisted(args[n + 1]) = b THEN Append(r[n], args[n + 1]) ELSE r[n]
      <4> HIDE DEF N, X
      <4> QED BY <1>9, <3>1
    <3>3. r[n] \in Seq(Range(args)) /\ args[n + 1] \in Range(args)
      BY <1>2, <2>2, <3>1
    <3>4. r[n + 1] \in X
      BY <3>2, <3>3
    <3> QED BY <3>1, <3>4
  <2> HIDE DEF P
  <2>3. \A n \in 0 .. N : n \in P
    BY <1>2, <2>1, <2>2, InductionTo
  <2> QED BY <2>3 DEF P
<1>11. r \in [0 .. N -> X]
  <2> HIDE DEF N, X
  <2>1. DOMAIN r = 0 .. N /\ r = [n \in 0 .. N |-> r[n]]
    BY <1>7
  <2> QED BY <1>10, <2>1
<1> QED BY <1>1, <1>8, <1>9, <1>11

(* Where each argument goes.                                                   *)
LEMMA SiftedInOrder ==
  ASSUME NEW args, IsSequence(args), NEW b
  PROVE  /\ IsSequence(Sift(args, b))
         /\ Len(Sift(args, b)) = Cardinality(Before(args, b, Len(args)))
         /\ \A i \in DOMAIN args : IsOfSort(args, b, i) =>
              /\ Cardinality(Before(args, b, i)) \in DOMAIN Sift(args, b)
              /\ Sift(args, b)[Cardinality(Before(args, b, i))] = args[i]
         /\ Range(Sift(args, b)) = {args[i] : i \in Before(args, b, Len(args))}
<1> DEFINE N == Len(args)
           C(n) == Cardinality(Before(args, b, n))
<1>1. N \in Nat /\ DOMAIN args = 1 .. N /\ \A i \in 1 .. N : args[i] \in Range(args)
  BY SequenceFacts
<1>2. PICK r \in [0 .. N -> Seq(Range(args))] :
           /\ Sift(args, b) = r[N] /\ r[0] = <<>>
           /\ \A n \in 1 .. N :
                r[n] = IF IsOfSort(args, b, n) THEN Append(r[n - 1], args[n])
                       ELSE r[n - 1]
  BY Sifting DEF IsOfSort
<1>3. /\ \A n \in Nat : C(n) \in Nat
      /\ C(0) = 0
      /\ \A n \in Nat : C(n + 1) = C(n) + (IF IsOfSort(args, b, n + 1) THEN 1 ELSE 0)
  <2>1. ASSUME NEW n \in Nat
        PROVE  /\ C(n) \in Nat /\ C(0) = 0
               /\ C(n + 1) = C(n) + (IF IsOfSort(args, b, n + 1) THEN 1 ELSE 0)
    BY CountBefore
  <2> HIDE DEF C
  <2> QED BY <2>1
<1> HIDE DEF C
<1> DEFINE Placed(n) == /\ Len(r[n]) = C(n)
                        /\ \A i \in 1 .. n : IsOfSort(args, b, i) =>
                             C(i) \in 1 .. C(n) /\ r[n][C(i)] = args[i]
                        /\ Range(r[n]) = {args[i] : i \in Before(args, b, n)}
           P == {n \in 0 .. N : Placed(n)}
<1>4. 0 \in P
  <2>1. Before(args, b, 0) = {} /\ Range(<<>>) = {}
    BY DEF Before, Range
  <2>2. Len(<<>>) = 0 /\ 1 .. 0 = {} /\ 0 \in 0 .. N
    BY <1>1
  <2>3. Len(r[0]) = C(0)
    BY <1>2, <1>3, <2>2
  <2>4. Range(r[0]) = {args[i] : i \in Before(args, b, 0)}
    BY <1>2, <2>1
  <2> QED BY <2>2, <2>3, <2>4
<1>5. ASSUME NEW n \in 0 .. N - 1, n \in P
      PROVE  n + 1 \in P
  <2>1. /\ n \in Nat /\ n + 1 \in 1 .. N /\ (n + 1) - 1 = n /\ n + 1 \in 0 .. N
        /\ r[n] \in Seq(Range(args)) /\ args[n + 1] \in Range(args)
    BY <1>1
  <2>2. Placed(n)
    BY <1>5
  <2>3. IsSequence(r[n]) /\ C(n) \in Nat
    BY <1>3, <2>1, SequenceOver
  <2>4. DOMAIN r[n] = 1 .. C(n)
    BY <2>2, <2>3, SequenceFacts
  <2>5. CASE IsOfSort(args, b, n + 1)
    <3>1. r[n + 1] = Append(r[n], args[n + 1]) /\ C(n + 1) = C(n) + 1
      BY <1>2, <1>3, <2>1, <2>5
    <3>2. /\ Len(r[n + 1]) = C(n) + 1 /\ Range(r[n + 1]) = Range(r[n]) \cup {args[n + 1]}
          /\ \A j \in 1 .. C(n) : r[n + 1][j] = r[n][j]
          /\ r[n + 1][C(n) + 1] = args[n + 1]
      BY <2>2, <2>3, <2>4, <3>1, Appended
    <3>3. Before(args, b, n + 1) = Before(args, b, n) \cup {n + 1}
      BY <2>1, <2>5 DEF Before
    <3>4. Range(r[n + 1]) = {args[i] : i \in Before(args, b, n + 1)}
      BY <2>2, <3>2, <3>3
    <3>5. ASSUME NEW i \in 1 .. n + 1, IsOfSort(args, b, i)
          PROVE  C(i) \in 1 .. C(n + 1) /\ r[n + 1][C(i)] = args[i]
      <4>1. CASE i = n + 1
        BY <2>3, <3>1, <3>2, <4>1
      <4>2. CASE i # n + 1
        <5>1. i \in 1 .. n
          BY <2>1, <4>2
        <5>2. C(i) \in 1 .. C(n) /\ r[n][C(i)] = args[i]
          BY <2>2, <3>5, <5>1
        <5> QED BY <2>3, <3>1, <3>2, <5>2
      <4> QED BY <4>1, <4>2
    <3> QED BY <2>1, <3>1, <3>2, <3>4, <3>5
  <2>6. CASE ~IsOfSort(args, b, n + 1)
    <3>1. r[n + 1] = r[n] /\ C(n + 1) = C(n)
      <4>1. C(n + 1) = C(n) + 0
        BY <1>3, <2>1, <2>6
      <4> QED BY <1>2, <2>1, <2>3, <2>6, <4>1
    <3>2. Before(args, b, n + 1) = Before(args, b, n)
      BY <2>1, <2>6 DEF Before
    <3>3. ASSUME NEW i \in 1 .. n + 1, IsOfSort(args, b, i)
          PROVE  i \in 1 .. n
      BY <2>1, <2>6, <3>3
    <3> QED BY <2>1, <2>2, <3>1, <3>2, <3>3
  <2> QED BY <2>5, <2>6
<1>6. Placed(N)
  <2> HIDE DEF P
  <2>1. \A n \in 0 .. N : n \in P
    BY <1>1, <1>4, <1>5, InductionTo
  <2>2. N \in P
    BY <1>1, <2>1
  <2> QED BY <2>2 DEF P
<1>7. IsSequence(r[N]) /\ Len(r[N]) = C(N) /\ DOMAIN r[N] = 1 .. C(N)
  <2>1. r[N] \in Seq(Range(args))
    BY <1>1
  <2>2. IsSequence(r[N])
    BY <2>1, SequenceOver
  <2> QED BY <1>6, <2>2, SequenceFacts
<1> QED BY <1>1, <1>2, <1>6, <1>7 DEF C

-----------------------------------------------------------------------------
(* The vectors that the functors are made from.                                *)
LEMMA EnumerationOfSet ==
  ASSUME NEW S, IsFiniteSet(S), NEW s \in SetToSeqs(S)
  PROVE  IsSequence(s) /\ Range(s) = S
<1> DEFINE n == Cardinality(S)
<1>1. n \in Nat
  BY FS_CardinalityType
<1>2. s \in [1 .. n -> S] /\ \A i, j \in 1 .. n : i # j => s[i] # s[j]
  BY DEF SetToSeqs
<1>3. IsFiniteSet(1 .. n) /\ Cardinality(1 .. n) = n
  BY <1>1, FS_Interval
<1>4. s \in Injection(1 .. n, S)
  BY <1>2 DEF Injection, IsInjective
<1>5. s \in Surjection(1 .. n, S)
  BY <1>3, <1>4, FS_Injection
<1> HIDE DEF n
<1>6. DOMAIN s = 1 .. n /\ s = [i \in 1 .. n |-> s[i]]
  BY <1>2
<1> QED BY <1>1, <1>2, <1>5, <1>6, FunctionIsSequence DEF Surjection, Range

LEMMA ReversedSequence ==
  ASSUME NEW s, IsSequence(s)
  PROVE  IsSequence(Reverse(s)) /\ Range(Reverse(s)) = Range(s)
<1> DEFINE n == Len(s)
           r == [i \in 1 .. n |-> s[(n - i) + 1]]
<1>1. n \in Nat /\ DOMAIN s = 1 .. n
  BY SequenceFacts
<1>2. r = Reverse(s)
  BY DEF Reverse
<1>3. DOMAIN r = 1 .. n /\ \A i \in 1 .. n : r[i] = s[(n - i) + 1]
  OBVIOUS
<1>4. r = [i \in 1 .. n |-> r[i]]
  OBVIOUS
<1> HIDE DEF n, r
<1>5. IsSequence(r)
  BY <1>1, <1>3, <1>4, FunctionIsSequence
<1>6. \A i \in 1 .. n : (n - i) + 1 \in 1 .. n /\ (n - ((n - i) + 1)) + 1 = i
  BY <1>1
<1>7. Range(r) \subseteq Range(s)
  BY <1>1, <1>3, <1>6 DEF Range
<1>8. \A i \in 1 .. n : s[i] = r[(n - i) + 1]
  BY <1>3, <1>6
<1>9. Range(s) \subseteq Range(r)
  BY <1>1, <1>3, <1>6, <1>8 DEF Range
<1> QED BY <1>2, <1>5, <1>7, <1>9

LEMMA EnsuredTypes ==
  ASSUME NEW ts, IsSequence(ts), NEW nonConst
  PROVE  /\ IsSequence(EnsureProvidedTypes(ts, nonConst))
         /\ Range(EnsureProvidedTypes(ts, nonConst)) =
              {EnsureProvidedTypeFunctor(t, t \in nonConst) : t \in Range(ts)}
<1> DEFINE r == [i \in DOMAIN ts |-> EnsureProvidedTypeFunctor(ts[i], ts[i] \in nonConst)]
<1>1. Len(ts) \in Nat /\ DOMAIN ts = 1 .. Len(ts)
  BY SequenceFacts
<1>2. /\ DOMAIN r = 1 .. Len(ts) /\ r = [i \in 1 .. Len(ts) |-> r[i]]
      /\ \A i \in DOMAIN ts : r[i] = EnsureProvidedTypeFunctor(ts[i], ts[i] \in nonConst)
  BY <1>1
<1>3. Range(r) = {EnsureProvidedTypeFunctor(t, t \in nonConst) : t \in Range(ts)}
  BY DEF Range
<1>4. EnsureProvidedTypes(ts, nonConst) = Reverse(r)
  BY DEF EnsureProvidedTypes
<1> HIDE DEF r
<1>5. IsSequence(r)
  BY <1>1, <1>2, FunctionIsSequence
<1> QED BY <1>3, <1>4, <1>5, ReversedSequence

LEMMA ArgumentTypes ==
  ASSUME NEW args \in Seq(InjectedArg)
  PROVE  /\ IsSequence(args) /\ NormalizeTypeVector(args) \in Seq(GraphType)
         /\ IsSequence(NormalizeTypeVector(args))
         /\ Range(NormalizeTypeVector(args)) = {a.type : a \in Range(args)}
         /\ NormalizedNonConstTypesIn(args) =
              {a.type : a \in {x \in Range(args) : TypeInjectionRequiresNonConstBinding(x)}}
         /\ NormalizedNonConstTypesIn(args) \subseteq Range(NormalizeTypeVector(args))
         /\ Range(NormalizeTypeVector(args)) \subseteq GraphType
<1> DEFINE r == [i \in DOMAIN args |-> NormalizeType(args[i])]
<1>1. IsSequence(args) /\ Len(args) \in Nat /\ DOMAIN args = 1 .. Len(args)
  BY SequenceOver, SequenceFacts
<1>2. \A i \in DOMAIN args : NormalizeType(args[i]) \in GraphType
  <2>1. \A a \in InjectedArg : a.type \in GraphType
    BY DEF InjectedArg
  <2>2. \A i \in DOMAIN args : args[i] \in InjectedArg
    OBVIOUS
  <2> QED BY <2>1, <2>2 DEF NormalizeType
<1>3. DOMAIN r = 1 .. Len(args) /\ r = [i \in 1 .. Len(args) |-> r[i]] /\ r \in Seq(GraphType)
  BY <1>1, <1>2
<1>4. Range(r) = {a.type : a \in Range(args)}
  BY DEF Range, NormalizeType
<1>5. r = NormalizeTypeVector(args)
  BY DEF NormalizeTypeVector
<1>6. NormalizedNonConstTypesIn(args) =
        {a.type : a \in {x \in Range(args) : TypeInjectionRequiresNonConstBinding(x)}}
  BY DEF NormalizedNonConstTypesIn, NormalizeType, Range
<1> HIDE DEF r
<1>7. IsSequence(r) /\ Range(r) \subseteq GraphType
  BY <1>3, SequenceOver
<1>8. NormalizedNonConstTypesIn(args) \subseteq Range(r)
  BY <1>4, <1>6
<1> QED BY <1>1, <1>3, <1>4, <1>5, <1>6, <1>7, <1>8

LEMMA InjectedArguments ==
  ASSUME NEW args \in Seq(InjectedArg \cup AssistedArg)
  PROVE  /\ RemoveAssisted(args) \in Seq(InjectedArg)
         /\ RemoveNonAssisted(args) \in Seq(Class)
         /\ Range(RemoveAssisted(args)) = {a \in Range(args) : ~IsAssisted(a)}
<1>1. IsSequence(args) /\ Range(args) \subseteq InjectedArg \cup AssistedArg
  BY SequenceOver
<1>2. DOMAIN args = 1 .. Len(args) /\ Len(args) \in Nat
  BY <1>1, SequenceFacts
<1>3. \A a \in InjectedArg \cup AssistedArg :
        /\ IsAssisted(a) \in BOOLEAN
        /\ ~IsAssisted(a) => a \in InjectedArg
        /\ IsAssisted(a) => a \in AssistedArg
  BY DEF InjectedArg, AssistedArg, IsAssisted
<1>4. ASSUME NEW b \in BOOLEAN
      PROVE  /\ IsSequence(Sift(args, b))
             /\ Range(Sift(args, b)) = {a \in Range(args) : IsAssisted(a) = b}
  <2>1. /\ IsSequence(Sift(args, b))
        /\ Range(Sift(args, b)) = {args[i] : i \in Before(args, b, Len(args))}
    BY <1>1, SiftedInOrder
  <2>2. {args[i] : i \in Before(args, b, Len(args))} = {a \in Range(args) : IsAssisted(a) = b}
    BY <1>2 DEF Before, IsOfSort, Range
  <2> QED BY <2>1, <2>2
<1>5. RemoveAssisted(args) \in Seq(InjectedArg)
  <2>1. Range(Sift(args, FALSE)) \subseteq InjectedArg
    BY <1>1, <1>3, <1>4
  <2> QED BY <1>4, <2>1, SequenceWithin DEF RemoveAssisted
<1>6. RemoveNonAssisted(args) \in Seq(Class)
  <2>1. Range(Sift(args, TRUE)) \subseteq AssistedArg
    BY <1>1, <1>3, <1>4
  <2>2. Sift(args, TRUE) \in Seq(AssistedArg)
    BY <1>4, <2>1, SequenceWithin
  <2>3. \A a \in AssistedArg : a.class \in Class
    BY DEF AssistedArg
  <2> DEFINE q == Sift(args, TRUE)
             r == [i \in DOMAIN q |-> q[i].class]
  <2>4. r = RemoveNonAssisted(args)
    BY DEF RemoveNonAssisted
  <2> HIDE DEF q
  <2>5. q \in Seq(AssistedArg)
    BY <2>2 DEF q
  <2>6. r \in Seq(Class)
    BY <2>3, <2>5
  <2> QED BY <2>4, <2>6
<1>7. Range(RemoveAssisted(args)) = {a \in Range(args) : ~IsAssisted(a)}
  BY <1>1, <1>3, <1>4 DEF RemoveAssisted
<1> QED BY <1>5, <1>6, <1>7

(* The arguments of a provider are all injected.                               *)
LEMMA NothingAssisted ==
  ASSUME NEW args \in Seq(InjectedArg)
  PROVE  /\ args \in Seq(InjectedArg \cup AssistedArg)
         /\ RemoveAssisted(args) \in Seq(InjectedArg)
         /\ Range(RemoveAssisted(args)) = Range(args)
<1>1. args \in Seq(InjectedArg \cup AssistedArg) /\ Range(args) \subseteq InjectedArg
  BY SequenceOver
<1>2. \A a \in InjectedArg : ~IsAssisted(a)
  BY DEF InjectedArg, IsAssisted
<1> QED BY <1>1, <1>2, InjectedArguments

LEMMA SameArgumentTypes ==
  ASSUME NEW a \in Seq(InjectedArg), NEW b \in Seq(InjectedArg), Range(a) = Range(b)
  PROVE  /\ Range(NormalizeTypeVector(a)) = Range(NormalizeTypeVector(b))
         /\ NormalizedNonConstTypesIn(a) = NormalizedNonConstTypesIn(b)
BY ArgumentTypes

LEMMA NoAssistedArgument ==
  ASSUME NEW args \in Seq(InjectedArg \cup AssistedArg),
         ~\E k \in DOMAIN args : IsAssisted(args[k])
  PROVE  args \in Seq(InjectedArg)
<1>1. IsSequence(args) /\ Range(args) \subseteq InjectedArg \cup AssistedArg
  BY SequenceOver
<1>2. \A a \in AssistedArg : IsAssisted(a)
  BY DEF AssistedArg, IsAssisted
<1>3. Range(args) \subseteq InjectedArg
  BY <1>1, <1>2 DEF Range
<1> QED BY <1>1, <1>3, SequenceWithin

LEMMA FactoryTypes ==
  /\ \A sig \in Signature : FunctorType(sig) \in GraphType
  /\ \A t \in ObjectType : ObjectOf(t) = t
  /\ \A t \in GraphType : ObjectOf(t) \in ObjectType /\ ObjectOf(t) \in GraphType
  /\ \A t \in GraphType, u \in GraphType, shape \in Shape \ {"object"} :
       FactoryOf(t, shape, u.args) \in GraphType
<1>1. ASSUME NEW t \in GraphType, NEW shape \in Shape \ {"object"}, NEW args \in Seq(Class)
      PROVE  FactoryOf(t, shape, args) \in GraphType
  BY DEF FactoryOf, GraphType, Shape
<1>2. ASSUME NEW sig \in Signature
      PROVE  FunctorType(sig) \in GraphType
  <2>1. sig.result \in GraphType /\ RemoveNonAssisted(sig.args) \in Seq(Class)
    BY InjectedArguments DEF Signature
  <2>2. {"unique_ptr_factory", "factory"} \subseteq Shape \ {"object"}
    BY DEF Shape
  <2> QED BY <1>1, <2>1, <2>2 DEF FunctorType
<1>3. \A t \in ObjectType : ObjectOf(t) = t
  BY DEF ObjectType, GraphType, ObjectOf
<1>4. ASSUME NEW t \in GraphType
      PROVE  ObjectOf(t) \in ObjectType /\ ObjectOf(t) \in GraphType
  <2>1. t \in [annotation : Annotation, shape : Shape, class : Class, args : Seq(Class)]
    BY DEF GraphType
  <2>2. <<>> \in Seq(Class) /\ "object" \in Shape
    BY DEF Shape
  <2>3. ObjectOf(t) \in [annotation : Annotation, shape : Shape, class : Class, args : Seq(Class)]
    BY <2>1, <2>2 DEF ObjectOf
  <2>4. ObjectOf(t).shape = "object"
    BY <2>1 DEF ObjectOf
  <2>5. ObjectOf(t).args = <<>>
    BY <2>1 DEF ObjectOf
  <2> QED BY <2>3, <2>4, <2>5 DEF GraphType, ObjectType
<1>5. \A u \in GraphType : u.args \in Seq(Class)
  BY DEF GraphType
<1> QED BY <1>1, <1>2, <1>3, <1>4, <1>5

-----------------------------------------------------------------------------
(* The operations on a Comp.                                                   *)
Extends(c, r) ==
  /\ c.Ps \subseteq r.Ps /\ c.RsSuperset \subseteq r.RsSuperset
  /\ c.NonConstRsPs \subseteq r.NonConstRsPs /\ ConstPs(c) \subseteq ConstPs(r)
SameBinds(c, r) ==
  /\ r.InterfaceBindings = c.InterfaceBindings
  /\ r.DeferredBindingFunctors = c.DeferredBindingFunctors

LEMMA CompFields ==
  ASSUME NEW c \in CompRecord
  PROVE  /\ c.RsSuperset \subseteq GraphType /\ c.Ps \subseteq GraphType
         /\ c.NonConstRsPs \subseteq GraphType /\ c.Deps \in Seq(Dep)
         /\ IsSequence(c.Deps)
         /\ c.InterfaceBindings \in Seq([i : ObjectType, c : ObjectType])
         /\ c.DeferredBindingFunctors \in Seq(DeferredFunctor)
         /\ IsSequence(c.DeferredBindingFunctors)
         /\ DOMAIN c = {"RsSuperset", "Ps", "NonConstRsPs", "Deps", "InterfaceBindings",
                        "DeferredBindingFunctors"}
         /\ ~IsError(c)
<1>1. /\ c.RsSuperset \subseteq GraphType /\ c.Ps \subseteq GraphType
      /\ c.NonConstRsPs \subseteq GraphType /\ c.Deps \in Seq(Dep)
      /\ c.InterfaceBindings \in Seq([i : ObjectType, c : ObjectType])
      /\ c.DeferredBindingFunctors \in Seq(DeferredFunctor)
  BY DEF CompRecord
<1>2. DOMAIN c = {"RsSuperset", "Ps", "NonConstRsPs", "Deps", "InterfaceBindings",
                  "DeferredBindingFunctors"}
  BY DEF CompRecord
<1>3. ~IsError(c)
  BY <1>2 DEF IsError
<1> QED BY <1>1, <1>2, <1>3, SequenceOver

LEMMA Errors ==
  ASSUME NEW tag, NEW t
  PROVE  IsError(ConstructError(tag, t)) /\ ConstructError(tag, t) # NoError
<1>1. DOMAIN ConstructError(tag, t) = {"tag", "type"} /\ DOMAIN NoError = {"tag"}
  BY DEF ConstructError, NoError
<1> QED BY <1>1 DEF IsError

LEMMA ChecksConst ==
  ASSUME NEW c, NEW ts
  PROVE  \/ ts \cap ConstPs(c) = {} /\ CheckTypesNotProvidedAsConst(c, ts) = NoError
         \/ /\ CheckTypesNotProvidedAsConst(c, ts) # NoError
            /\ IsError(CheckTypesNotProvidedAsConst(c, ts))
BY Errors DEF CheckTypesNotProvidedAsConst

LEMMA FiniteRange ==
  ASSUME NEW s, IsSequence(s)
  PROVE  IsFiniteSet(Range(s))
<1>1. Len(s) \in Nat /\ DOMAIN s = 1 .. Len(s) /\ s \in Seq(Range(s))
  BY SequenceFacts DEF IsSequence
<1>2. IsFiniteSet(1 .. Len(s))
  BY <1>1, FS_Interval
<1>3. s \in Surjection(1 .. Len(s), Range(s))
  BY <1>1 DEF Surjection, Range
<1> QED BY <1>2, <1>3, FS_Surjection

(* Types that are required.                                                     *)
Requiring(c, reqs, nonConst, q) ==
  /\ CompOK(c) /\ reqs \in Seq(GraphType) /\ nonConst \subseteq Range(reqs)
  /\ q = AddRequirements(c, reqs, nonConst) /\ ~IsError(q)
Required(c, reqs, nonConst, q) ==
  /\ CompOK(q) /\ Extends(c, q) /\ SameBinds(c, q)
  /\ q.Ps = c.Ps /\ q.RsSuperset = c.RsSuperset \cup reqs
  /\ q.NonConstRsPs = c.NonConstRsPs \cup nonConst

LEMMA NewRequirements ==
  ASSUME NEW c, NEW reqs, NEW nonConst, NEW q, Requiring(c, reqs, nonConst, q)
  PROVE  Required(c, Range(reqs), nonConst, q)
<1>f. /\ CompOK(c) /\ reqs \in Seq(GraphType) /\ nonConst \subseteq Range(reqs)
      /\ q = AddRequirements(c, reqs, nonConst) /\ ~IsError(AddRequirements(c, reqs, nonConst))
  BY DEF Requiring
<1> USE <1>f
<1> DEFINE r == [c EXCEPT !.RsSuperset = @ \cup Range(reqs), !.NonConstRsPs = @ \cup nonConst]
<1>1. nonConst \cap ConstPs(c) = {} /\ AddRequirements(c, reqs, nonConst) = r
  BY ChecksConst DEF AddRequirements
<1>2. c \in CompRecord /\ IsSequence(reqs) /\ Range(reqs) \subseteq GraphType
  BY SequenceOver DEF CompOK
<1>3. /\ r \in CompRecord
      /\ r.Ps = c.Ps /\ r.RsSuperset = c.RsSuperset \cup Range(reqs)
      /\ r.NonConstRsPs = c.NonConstRsPs \cup nonConst
      /\ r.Deps = c.Deps
      /\ r.InterfaceBindings = c.InterfaceBindings
      /\ r.DeferredBindingFunctors = c.DeferredBindingFunctors
  BY <1>2 DEF CompRecord
<1>4. IsFiniteSet(Range(reqs))
  BY <1>2, FiniteRange
<1> HIDE DEF r
<1>5. CompOK(r)
  <2>1. IsFiniteSet(r.RsSuperset)
    <3>1. IsFiniteSet(c.RsSuperset)
      BY DEF CompOK
    <3> QED BY ONLY <1>3, <1>4, <3>1, FS_Union
  <2>2. \A k \in DOMAIN r.Deps : TypesOf(r.Deps[k].hps) \subseteq r.RsSuperset
    BY <1>3 DEF CompOK
  <2>3. r.NonConstRsPs \subseteq r.RsSuperset \cup r.Ps
    BY <1>3 DEF CompOK
  <2> QED BY <1>3, <2>1, <2>2, <2>3 DEF CompOK
<1>6. ConstPs(c) \subseteq ConstPs(r)
  BY <1>1, <1>3 DEF ConstPs
<1> QED BY <1>1, <1>3, <1>5, <1>6 DEF Extends, SameBinds, Required

LEMMA NodesOfTypes ==
  ASSUME NEW ts \in Seq(GraphType), NEW t \in GraphType
  PROVE  /\ Node(t) \in Parameter /\ Node(t).type = t
         /\ NodesOf(ts) \in Seq(Parameter) /\ TypesOf(NodesOf(ts)) = Range(ts)
<1>1. \A u \in GraphType : Node(u) \in Parameter
  BY DEF Node, Parameter
<1>2. \A u : Node(u).type = u
  BY DEF Node
<1> DEFINE r == [i \in DOMAIN ts |-> Node(ts[i])]
<1>3. DOMAIN ts = 1 .. Len(ts) /\ Len(ts) \in Nat /\ \A i \in DOMAIN ts : ts[i] \in GraphType
  OBVIOUS
<1>4. r \in Seq(Parameter)
  BY <1>1, <1>3
<1>5. {r[i].type : i \in DOMAIN r} = Range(ts)
  BY <1>2 DEF Range
<1> QED BY <1>1, <1>2, <1>4, <1>5 DEF NodesOf, TypesOf

IfNonConst(isNonConst, t) == IF isNonConst THEN {t} ELSE {}

(* A type that is provided with its requirements.                               *)
Providing(c, t, isNonConst, reqs, nonConst, r) ==
  /\ CompOK(c) /\ t \in GraphType /\ reqs \in Seq(GraphType) /\ nonConst \subseteq Range(reqs)
  /\ r = AddProvidedTypeIgnoringInterfaceBindings(c, t, isNonConst, reqs, nonConst)
  /\ ~IsError(r)
Provided(c, t, isNonConst, reqs, nonConst, r) ==
  /\ CompOK(r) /\ Extends(c, r) /\ SameBinds(c, r) /\ t \notin c.Ps
  /\ r.Ps = c.Ps \cup {t} /\ r.RsSuperset = c.RsSuperset \cup reqs
  /\ r.NonConstRsPs = c.NonConstRsPs \cup nonConst \cup IfNonConst(isNonConst, t)

LEMMA NewProvidedType ==
  ASSUME NEW c, NEW t, NEW isNonConst, NEW reqs, NEW nonConst, NEW r,
         Providing(c, t, isNonConst, reqs, nonConst, r)
  PROVE  Provided(c, t, isNonConst, Range(reqs), nonConst, r)
<1>f. /\ CompOK(c) /\ t \in GraphType /\ reqs \in Seq(GraphType) /\ nonConst \subseteq Range(reqs)
      /\ r = AddProvidedTypeIgnoringInterfaceBindings(c, t, isNonConst, reqs, nonConst)
      /\ ~IsError(r)
  BY DEF Providing
<1> SUFFICES /\ CompOK(r) /\ Extends(c, r) /\ SameBinds(c, r) /\ t \notin c.Ps
             /\ r.Ps = c.Ps \cup {t} /\ r.RsSuperset = c.RsSuperset \cup Range(reqs)
             /\ r.NonConstRsPs = c.NonConstRsPs \cup nonConst \cup IfNonConst(isNonConst, t)
  BY DEF Provided
<1> USE <1>f
<1> USE DEF IfNonConst
<1> DEFINE dep == [th |-> Node(t), hps |-> NodesOf(reqs)]
           non == nonConst \cup (IF isNonConst THEN {t} ELSE {})
           q == [c EXCEPT !.RsSuperset = @ \cup Range(reqs), !.Ps = @ \cup {t},
                          !.NonConstRsPs = @ \cup nonConst
                                             \cup (IF isNonConst THEN {t} ELSE {}),
                          !.Deps = <<dep>> \o @]
<1>1. nonConst \cap ConstPs(c) = {} /\ t \notin c.Ps /\ r = q
  BY ChecksConst, Errors DEF AddProvidedTypeIgnoringInterfaceBindings
<1>2. c \in CompRecord /\ IsSequence(reqs) /\ Range(reqs) \subseteq GraphType
  BY SequenceOver DEF CompOK
<1>3. c.Deps \in Seq(Dep) /\ IsSequence(c.Deps)
  BY <1>2, CompFields
<1>4. dep \in Dep /\ dep.th.type = t /\ TypesOf(dep.hps) = Range(reqs)
  BY NodesOfTypes DEF Dep
<1> HIDE DEF dep
<1> DEFINE deps == <<dep>> \o c.Deps
<1>5. deps \in Seq(Dep)
  BY <1>3, <1>4
<1>6. /\ DOMAIN deps = 1 .. Len(c.Deps) + 1 /\ deps[1] = dep
      /\ Len(c.Deps) \in Nat /\ DOMAIN c.Deps = 1 .. Len(c.Deps)
      /\ \A k \in 1 .. Len(c.Deps) + 1 :
           k = 1 \/ (k - 1 \in 1 .. Len(c.Deps) /\ deps[k] = c.Deps[k - 1])
  BY <1>3
<1>7. \A k \in 1 .. Len(c.Deps) : k + 1 \in 1 .. Len(c.Deps) + 1 /\ deps[k + 1] = c.Deps[k]
  BY <1>3
<1> HIDE DEF deps
<1>8. non \subseteq GraphType
  BY <1>2
<1>9. /\ r \in CompRecord
      /\ r.Ps = c.Ps \cup {t} /\ r.RsSuperset = c.RsSuperset \cup Range(reqs)
      /\ r.NonConstRsPs = c.NonConstRsPs \cup nonConst \cup (IF isNonConst THEN {t} ELSE {})
      /\ r.Deps = deps
      /\ r.InterfaceBindings = c.InterfaceBindings
      /\ r.DeferredBindingFunctors = c.DeferredBindingFunctors
  <2> DEFINE non2 == c.NonConstRsPs \cup non
             rs == c.RsSuperset \cup Range(reqs)
             ps == c.Ps \cup {t}
  <2>1. /\ non2 \in SUBSET GraphType /\ rs \in SUBSET GraphType /\ ps \in SUBSET GraphType
    BY <1>2, <1>8, CompFields
  <2>2. r = [c EXCEPT !.RsSuperset = rs, !.Ps = ps, !.NonConstRsPs = non2, !.Deps = deps]
    <3>1. c.NonConstRsPs \cup nonConst \cup (IF isNonConst THEN {t} ELSE {}) = non2
      OBVIOUS
    <3> QED BY <1>1, <3>1 DEF deps
  <2>3. c.NonConstRsPs \cup nonConst \cup (IF isNonConst THEN {t} ELSE {}) = non2
    OBVIOUS
  <2> HIDE DEF non2, rs, ps, non, q
  <2>4. /\ r \in CompRecord
        /\ r.Ps = ps /\ r.RsSuperset = rs /\ r.NonConstRsPs = non2
        /\ r.Deps = deps
        /\ r.InterfaceBindings = c.InterfaceBindings
        /\ r.DeferredBindingFunctors = c.DeferredBindingFunctors
    BY ONLY <1>2, <1>5, <2>1, <2>2 DEF CompRecord
  <2> QED BY <2>3, <2>4 DEF rs, ps
<1> HIDE DEF q
<1>10. IsFiniteSet(r.RsSuperset)
  <2>1. IsFiniteSet(Range(reqs))
    BY <1>2, FiniteRange
  <2>2. IsFiniteSet(c.RsSuperset)
    BY DEF CompOK
  <2>3. r.RsSuperset = c.RsSuperset \cup Range(reqs)
    BY <1>9
  <2> QED BY ONLY <2>1, <2>2, <2>3, FS_Union
<1>11. \A k \in DOMAIN c.Deps : c.Deps[k].th.type # t
  BY <1>1 DEF CompOK
<1>12. ASSUME NEW i \in DOMAIN deps, NEW j \in DOMAIN deps, deps[i].th.type = deps[j].th.type
       PROVE  i = j
  <2>1. CASE i = 1 \/ j = 1
    BY <1>4, <1>6, <1>11, <1>12, <2>1
  <2>2. CASE i # 1 /\ j # 1
    <3>1. /\ i - 1 \in DOMAIN c.Deps /\ deps[i] = c.Deps[i - 1]
          /\ j - 1 \in DOMAIN c.Deps /\ deps[j] = c.Deps[j - 1]
      BY <1>6, <2>2
    <3>2. \A k, l \in DOMAIN c.Deps : c.Deps[k].th.type = c.Deps[l].th.type => k = l
      BY DEF CompOK
    <3>3. i - 1 = j - 1
      BY ONLY <1>12, <3>1, <3>2
    <3> QED BY <1>6, <3>3
  <2> QED BY <2>1, <2>2
<1>13. r.Ps = {deps[k].th.type : k \in DOMAIN deps}
  <2>1. c.Ps = {c.Deps[k].th.type : k \in 1 .. Len(c.Deps)}
    BY <1>6 DEF CompOK
  <2>2. \A k \in DOMAIN deps : deps[k].th.type \in r.Ps
    BY <1>4, <1>6, <1>9, <2>1
  <2>3. \A u \in c.Ps : \E k \in DOMAIN deps : deps[k].th.type = u
    BY <1>6, <1>7, <2>1
  <2>4. 1 \in DOMAIN deps /\ deps[1].th.type = t
    BY <1>4, <1>6
  <2> QED BY <1>9, <2>2, <2>3, <2>4
<1>14. \A k \in DOMAIN deps : TypesOf(deps[k].hps) \subseteq r.RsSuperset
  <2>1. \A k \in 1 .. Len(c.Deps) : TypesOf(c.Deps[k].hps) \subseteq c.RsSuperset
    BY <1>6 DEF CompOK
  <2> QED BY ONLY <1>4, <1>6, <1>9, <2>1
<1>15. r.NonConstRsPs \subseteq r.RsSuperset \cup r.Ps
  BY <1>9 DEF CompOK
<1>16. CompOK(r)
  <2>1. \A i, j \in DOMAIN r.Deps : r.Deps[i].th.type = r.Deps[j].th.type => i = j
    BY <1>9, <1>12
  <2>2. r.Ps = {r.Deps[k].th.type : k \in DOMAIN r.Deps}
    BY <1>9, <1>13
  <2>3. \A k \in DOMAIN r.Deps : TypesOf(r.Deps[k].hps) \subseteq r.RsSuperset
    BY <1>9, <1>14
  <2>4. r \in CompRecord
    BY <1>9
  <2> QED BY ONLY <1>10, <1>15, <2>1, <2>2, <2>3, <2>4 DEF CompOK
<1>17. ConstPs(c) \subseteq ConstPs(r)
  BY <1>1, <1>9 DEF ConstPs
<1> QED BY <1>1, <1>9, <1>16, <1>17 DEF Extends, SameBinds

(* The Comp that stands for a declared type.                                    *)
LEMMA ConstructedComp ==
  ASSUME NEW d, WellDeclared(d)
  PROVE  LET o == ConstructComponentImpl(d)
         IN  /\ CompOK(o) /\ ~IsError(o)
             /\ o.RsSuperset = TypesOf(d.Rs) /\ o.Ps = TypesOf(d.Ps)
             /\ o.NonConstRsPs = NonConstTypesOf(d.Rs \o d.Ps)
             /\ TypesOf(d.Rs) \cap TypesOf(d.Ps) = {}
             /\ ConstTypesOf(d.Ps) \subseteq ConstPs(o)
<1> DEFINE n == Len(d.Rs)
           m == Len(d.Ps)
           ds == d.Rs \o d.Ps
           deps == [i \in DOMAIN d.Ps |-> [th |-> d.Ps[i], hps |-> d.Rs]]
           o == ConsComp(TypesOf(d.Rs), TypesOf(d.Ps), NonConstTypesOf(ds), deps)
<1>1. d.Rs \in Seq(Parameter) /\ d.Ps \in Seq(Parameter)
  BY DEF WellDeclared, ComponentType
<1>2. /\ n \in Nat /\ m \in Nat /\ DOMAIN d.Rs = 1 .. n /\ DOMAIN d.Ps = 1 .. m
      /\ IsSequence(d.Rs) /\ IsSequence(d.Ps)
      /\ Range(d.Rs) \subseteq Parameter /\ Range(d.Ps) \subseteq Parameter
  BY <1>1, SequenceOver
<1>3. ConstructComponentImpl(d) = o
  BY DEF WellDeclared, ConstructComponentImpl
<1> HIDE DEF n, m
<1>4. /\ DOMAIN ds = 1 .. n + m
      /\ \A i \in 1 .. n : i \in 1 .. n + m /\ ds[i] = d.Rs[i]
      /\ \A i \in 1 .. m : n + i \in 1 .. n + m /\ ds[n + i] = d.Ps[i] /\ n + i \notin 1 .. n
      /\ Range(ds) = Range(d.Rs) \cup Range(d.Ps)
  <2>1. /\ DOMAIN ds = 1 .. Len(d.Rs) + Len(d.Ps)
        /\ \A i \in 1 .. n : ds[i] = d.Rs[i]
        /\ \A i \in 1 .. m : ds[Len(d.Rs) + i] = d.Ps[i]
        /\ Range(ds) = Range(d.Rs) \cup Range(d.Ps)
    <3>1. IsJoin(ds, d.Rs, d.Ps)
      BY <1>2, Joined
    <3> HIDE DEF ds
    <3> QED BY <1>2, <3>1 DEF IsJoin, n, m
  <2>2. Len(d.Rs) = n /\ Len(d.Ps) = m
    BY DEF n, m
  <2> HIDE DEF ds
  <2> QED BY <1>2, <2>1, <2>2
<1> HIDE DEF ds
<1>5. \A i, j \in 1 .. n + m : i # j => ds[i].type # ds[j].type
  BY <1>4 DEF WellDeclared, HasDuplicates, ds
<1>6. \A p \in Parameter : p.type \in GraphType /\ p.const \in BOOLEAN
  BY DEF Parameter
<1>7. TypesOf(d.Rs) \cap TypesOf(d.Ps) = {}
  BY <1>2, <1>4, <1>5 DEF TypesOf
<1>8. TypesOf(d.Rs) \subseteq GraphType /\ TypesOf(d.Ps) \subseteq GraphType
  BY <1>2, <1>6 DEF TypesOf, Range
<1>9. NonConstTypesOf(ds) \subseteq TypesOf(d.Rs) \cup TypesOf(d.Ps)
  <2>1. ASSUME NEW i \in DOMAIN ds
        PROVE  ds[i] \in Range(d.Rs) \cup Range(d.Ps)
    BY <1>4 DEF Range
  <2> QED BY <2>1 DEF NonConstTypesOf, TypesOf, Range
<1>10. /\ DOMAIN deps = 1 .. m /\ deps \in Seq(Dep)
       /\ \A i \in 1 .. m : deps[i].th = d.Ps[i] /\ deps[i].hps = d.Rs
  BY <1>1, <1>2 DEF Dep
<1> HIDE DEF deps
<1>11. /\ o.RsSuperset = TypesOf(d.Rs) /\ o.Ps = TypesOf(d.Ps)
       /\ o.NonConstRsPs = NonConstTypesOf(ds) /\ o.Deps = deps
  BY DEF ConsComp
<1>12. o \in CompRecord
  <2>1. <<>> \in Seq([i : ObjectType, c : ObjectType]) /\ <<>> \in Seq(DeferredFunctor)
    OBVIOUS
  <2>2. /\ TypesOf(d.Rs) \in SUBSET GraphType /\ TypesOf(d.Ps) \in SUBSET GraphType
        /\ NonConstTypesOf(ds) \in SUBSET GraphType
    BY <1>8, <1>9
  <2> QED BY ONLY <1>10, <2>1, <2>2 DEF ConsComp, CompRecord
<1> HIDE DEF o
<1>13. IsFiniteSet(o.RsSuperset)
  <2>1. IsFiniteSet(1 .. n)
    BY <1>2, FS_Interval
  <2> DEFINE types == [i \in 1 .. n |-> d.Rs[i].type]
  <2>2. IsSequence(types) /\ Range(types) = TypesOf(d.Rs)
    <3>1. DOMAIN types = 1 .. n /\ types = [i \in 1 .. n |-> types[i]]
      OBVIOUS
    <3>2. Range(types) = TypesOf(d.Rs)
      BY <1>2 DEF Range, TypesOf
    <3> HIDE DEF types
    <3> QED BY <1>2, <3>1, <3>2, FunctionIsSequence
  <2> QED BY <1>11, <2>2, FiniteRange
<1>14. \A i, j \in DOMAIN o.Deps : o.Deps[i].th.type = o.Deps[j].th.type => i = j
  <2> SUFFICES ASSUME NEW i \in 1 .. m, NEW j \in 1 .. m, i # j
               PROVE  d.Ps[i].type # d.Ps[j].type
    BY <1>10, <1>11
  <2>1. n + i \in 1 .. n + m /\ n + j \in 1 .. n + m /\ n + i # n + j
    BY <1>2
  <2> QED BY <1>4, <1>5, <2>1
<1>15. o.Ps = {o.Deps[k].th.type : k \in DOMAIN o.Deps}
  BY <1>2, <1>10, <1>11 DEF TypesOf
<1>16. \A k \in DOMAIN o.Deps : TypesOf(o.Deps[k].hps) \subseteq o.RsSuperset
  BY <1>10, <1>11
<1>17. o.NonConstRsPs \subseteq o.RsSuperset \cup o.Ps
  BY <1>9, <1>11
<1>18. CompOK(o)
  BY <1>12, <1>13, <1>14, <1>15, <1>16, <1>17 DEF CompOK
<1>19. ~IsError(o)
  BY <1>12, CompFields
<1>20. ConstTypesOf(d.Ps) \subseteq ConstPs(o)
  <2> SUFFICES ASSUME NEW i \in 1 .. m, d.Ps[i].const
               PROVE  d.Ps[i].type \in ConstPs(o)
    BY <1>2 DEF ConstTypesOf
  <2>1. d.Ps[i].type \in o.Ps
    BY <1>2, <1>11 DEF TypesOf
  <2>2. ASSUME NEW j \in DOMAIN ds, ~ds[j].const, ds[j].type = d.Ps[i].type
        PROVE  FALSE
    <3>1. j = n + i
      BY <1>4, <1>5, <2>2
    <3> QED BY <1>4, <2>2, <3>1
  <2>3. d.Ps[i].type \notin o.NonConstRsPs
    BY <1>11, <2>2 DEF NonConstTypesOf
  <2> QED BY <2>1, <2>3 DEF ConstPs
<1> QED BY <1>3, <1>7, <1>11, <1>18, <1>19, <1>20 DEF ds

LEMMA Merging ==
  ASSUME NEW c, CompOK(c), NEW o, CompOK(o), ~IsError(Installed(c, o))
  PROVE  LET r == Installed(c, o)
         IN  /\ CompOK(r) /\ Extends(c, r) /\ SameBinds(c, r) /\ ConstPs(o) \subseteq ConstPs(r)
             /\ r.Ps = c.Ps \cup o.Ps /\ c.Ps \cap o.Ps = {}
<1> DEFINE ps == c.Ps \cup o.Ps
           rs == c.RsSuperset \cup o.RsSuperset
           non == c.NonConstRsPs \cup o.NonConstRsPs
           deps == o.Deps \o c.Deps
           n == Len(o.Deps)
           m == Len(c.Deps)
           r == [c EXCEPT !.RsSuperset = rs, !.Ps = ps, !.NonConstRsPs = non, !.Deps = deps]
<1>1. /\ DuplicatesWith(c, o) = {} /\ Installed(c, o) = r
      /\ ConstPs(c) \cap NonConstRs(o) = {} /\ NonConstRs(c) \cap ConstPs(o) = {}
  BY Errors DEF Installed, Merged
<1>2. c.Ps \cap o.Ps = {}
  BY <1>1 DEF DuplicatesWith
<1>3. /\ c \in CompRecord /\ o \in CompRecord
      /\ c.Deps \in Seq(Dep) /\ IsSequence(c.Deps)
      /\ o.Deps \in Seq(Dep) /\ IsSequence(o.Deps)
  BY CompFields DEF CompOK
<1>4. /\ n \in Nat /\ m \in Nat /\ DOMAIN o.Deps = 1 .. n /\ DOMAIN c.Deps = 1 .. m
  BY <1>3, SequenceFacts
<1>5. deps \in Seq(Dep)
  BY <1>3
<1>6. IsJoin(deps, o.Deps, c.Deps)
  BY <1>3, Joined
<1>7. ps \in SUBSET GraphType /\ rs \in SUBSET GraphType /\ non \in SUBSET GraphType
  BY <1>3, CompFields
<1> HIDE DEF deps, n, m
<1>8. /\ r \in CompRecord
      /\ r.Ps = ps /\ r.RsSuperset = rs /\ r.NonConstRsPs = non
      /\ r.Deps = deps
      /\ r.InterfaceBindings = c.InterfaceBindings
      /\ r.DeferredBindingFunctors = c.DeferredBindingFunctors
  <2> HIDE DEF ps, rs, non
  <2> QED BY ONLY <1>3, <1>5, <1>7 DEF CompRecord
<1> HIDE DEF r
<1>9. \A k \in 1 .. n + m :
        \/ k \in 1 .. n /\ deps[k] = o.Deps[k]
        \/ k - n \in 1 .. m /\ deps[k] = c.Deps[k - n]
  BY <1>6 DEF IsJoin, n, m
<1>10. /\ \A k \in 1 .. n : k \in 1 .. n + m /\ deps[k] = o.Deps[k]
       /\ \A k \in 1 .. m : n + k \in 1 .. n + m /\ deps[n + k] = c.Deps[k]
       /\ DOMAIN deps = 1 .. n + m
  BY <1>6 DEF IsJoin, n, m
<1>11. /\ o.Ps = {o.Deps[k].th.type : k \in 1 .. n}
       /\ c.Ps = {c.Deps[k].th.type : k \in 1 .. m}
       /\ \A i, j \in 1 .. n : o.Deps[i].th.type = o.Deps[j].th.type => i = j
       /\ \A i, j \in 1 .. m : c.Deps[i].th.type = c.Deps[j].th.type => i = j
       /\ \A k \in 1 .. n : TypesOf(o.Deps[k].hps) \subseteq o.RsSuperset
       /\ \A k \in 1 .. m : TypesOf(c.Deps[k].hps) \subseteq c.RsSuperset
  BY <1>4 DEF CompOK
<1>12. ASSUME NEW i \in 1 .. n + m, NEW j \in 1 .. n + m, deps[i].th.type = deps[j].th.type
       PROVE  i = j
  <2>1. CASE i \in 1 .. n /\ j \in 1 .. n
    BY <1>10, <1>11, <1>12, <2>1
  <2>2. CASE i \notin 1 .. n /\ j \notin 1 .. n
    <3>1. /\ i - n \in 1 .. m /\ deps[i] = c.Deps[i - n]
          /\ j - n \in 1 .. m /\ deps[j] = c.Deps[j - n]
      BY <1>9, <2>2
    <3>2. i - n = j - n
      BY <1>11, <1>12, <3>1
    <3> QED BY <1>4, <3>2
  <2>3. CASE i \in 1 .. n /\ j \notin 1 .. n
    <3>1. deps[i].th.type \in o.Ps /\ deps[j].th.type \in c.Ps
      BY <1>9, <1>10, <1>11, <2>3
    <3> QED BY <1>2, <1>12, <3>1
  <2>4. CASE i \notin 1 .. n /\ j \in 1 .. n
    <3>1. deps[j].th.type \in o.Ps /\ deps[i].th.type \in c.Ps
      BY <1>9, <1>10, <1>11, <2>4
    <3> QED BY <1>2, <1>12, <3>1
  <2> QED BY <2>1, <2>2, <2>3, <2>4
<1>13. r.Ps = {r.Deps[k].th.type : k \in DOMAIN r.Deps}
  <2>1. \A k \in 1 .. n + m : deps[k].th.type \in ps
    BY <1>9, <1>11
  <2>2. \A t \in ps : \E k \in 1 .. n + m : deps[k].th.type = t
    BY <1>10, <1>11
  <2> QED BY <1>8, <1>10, <2>1, <2>2
<1>14. \A k \in DOMAIN r.Deps : TypesOf(r.Deps[k].hps) \subseteq r.RsSuperset
  BY <1>8, <1>9, <1>10, <1>11
<1>15. r.NonConstRsPs \subseteq r.RsSuperset \cup r.Ps
  BY <1>8 DEF CompOK
<1>16. IsFiniteSet(r.RsSuperset)
  <2>1. IsFiniteSet(c.RsSuperset) /\ IsFiniteSet(o.RsSuperset)
    BY DEF CompOK
  <2>2. r.RsSuperset = c.RsSuperset \cup o.RsSuperset
    BY <1>8
  <2> QED BY ONLY <2>1, <2>2, FS_Union
<1>17. \A i, j \in DOMAIN r.Deps : r.Deps[i].th.type = r.Deps[j].th.type => i = j
  BY <1>8, <1>10, <1>12
<1>18. CompOK(r)
  BY ONLY <1>8, <1>13, <1>14, <1>15, <1>16, <1>17 DEF CompOK
<1>19. ConstPs(c) \subseteq ConstPs(r)
  <2> SUFFICES ASSUME NEW t \in ConstPs(c), t \in o.NonConstRsPs
               PROVE  FALSE
    BY <1>8 DEF ConstPs
  <2>1. t \in o.RsSuperset \ o.Ps
    BY <1>2 DEF ConstPs, CompOK
  <2> QED BY <1>1, <2>1 DEF NonConstRs, RequirementsOf
<1>20. ConstPs(o) \subseteq ConstPs(r)
  <2> SUFFICES ASSUME NEW t \in ConstPs(o), t \in c.NonConstRsPs
               PROVE  FALSE
    BY <1>8 DEF ConstPs
  <2>1. t \in c.RsSuperset \ c.Ps
    BY <1>2 DEF ConstPs, CompOK
  <2> QED BY <1>1, <2>1 DEF NonConstRs, RequirementsOf
<1> QED BY <1>1, <1>2, <1>8, <1>18, <1>19, <1>20 DEF Extends, SameBinds

-----------------------------------------------------------------------------
(* What the call of the functor at the head of the agenda does, whichever it    *)
(* is: the new Comp, the functors and the entries that it makes, its number of   *)
(* entries and what they will request.                                          *)
Inv == TypeInv /\ CompInv /\ EnsureInv /\ ConstInv /\ CapacityInv /\ CompressibleInv

Called == Head(agenda)
Makes(c, fs, pushed, num, use) ==
  /\ Compiling /\ agenda # <<>>
  /\ comp' = c /\ agenda' = fs \o Tail(agenda)
  /\ entries' = pushed \o entries /\ numEntries' = numEntries + num
  /\ uses' = uses \cup use
  /\ built' = built /\ calls' = calls /\ declared' = declared /\ status' = status
Fails ==
  /\ comp' = comp /\ agenda' = agenda /\ entries' = entries
  /\ numEntries' = numEntries /\ uses' = uses
  /\ built' = built /\ calls' = calls /\ declared' = declared /\ status' = "error"

TypeStep(fs, pushed, num) ==
  /\ IsSequence(fs) /\ \A y \in Range(fs) : FunctorOK(y)
  /\ IsSequence(pushed) /\ num = Len(pushed)
  /\ status = "binding" => \A y \in Range(fs) : y.f \in BindingFunctor
  /\ status = "converting" => \A y \in Range(fs) :
       \/ y.f \in PostProcess /\ Called.f = "ProcessDeferredBindings"
       \/ y.f \in EnsureFunctor /\ Called.f \in EnsureFunctor \cup {"ConvertComponent"}
  /\ Called.f \in PostProcess => fs = <<>>

CompStep(c) == CompOK(c) /\ Extends(comp, c)

EnsureStep(c, fs) ==
  /\ \A t, nonConst : Ensures(Called, t, nonConst) =>
       \/ t \in c.Ps \/ InTargetRequirements(t, nonConst)
       \/ \E y \in Range(fs) : Ensures(y, t, nonConst)
  /\ \A t \in Target.Ps : Ensures(Called, t, TRUE) =>
       t \in c.NonConstRsPs \/ \E y \in Range(fs) : Ensures(y, t, TRUE)
  /\ c.RsSuperset \subseteq comp.RsSuperset \cup Needs(Called)
  /\ c.NonConstRsPs \subseteq comp.NonConstRsPs \cup NonConstNeeds(Called) \cup c.Ps
  /\ \A y \in Range(fs) :
       /\ \A t \in Needs(y) : \E z \in Range(fs) : Ensures(z, t, FALSE)
       /\ \A t \in NonConstNeeds(y) : \E z \in Range(fs) : Ensures(z, t, TRUE)

ConstStep(c, fs, pushed, use) ==
  /\ \A u \in use : u.nonConst => u.type \in c.NonConstRsPs
  /\ Called.f \in PreProcess => Processed(Called.sig, c)
  /\ \A k \in DOMAIN fs : fs[k].f \in PostProcess =>
       \/ Processed(fs[k].sig, c)
       \/ \E j \in 1 .. k - 1 : fs[j].f \in PreProcess /\ fs[j].sig = fs[k].sig
  /\ \A y \in Range(c.DeferredBindingFunctors) :
       \/ y \in Range(comp.DeferredBindingFunctors)
       \/ \E j \in DOMAIN fs : fs[j].f \in PreProcess /\ fs[j].sig = y.sig
  /\ \A d \in ToInstall(Called) :
       \/ ConstTypesOf(built[d].declared.Ps) \subseteq ConstPs(c)
       \/ \E y \in Range(fs) : d \in ToInstall(y)
  /\ \A e \in Range(pushed) : e.kind # "lazy"

CompressibleStep(c, pushed) ==
  /\ status = "binding" => \A e \in Range(pushed) : IsMade(e) => e.type.shape # "object"
  /\ status = "converting" =>
       c.InterfaceBindings = comp.InterfaceBindings /\ MadeWithCompressed(pushed)

(* The step of a functor that keeps all invariants.                             *)
StepOK(c, fs, pushed, num, use) ==
  /\ TypeStep(fs, pushed, num) /\ CompStep(c)
  /\ (status = "converting" /\ Ensuring) => EnsureStep(c, fs)
  /\ ConstStep(c, fs, pushed, use) /\ CompressibleStep(c, pushed)

(* A sequence whose head is replaced.                                           *)
IsReplaced(r, fs, a) ==
  /\ IsSequence(r) /\ Range(r) = Range(fs) \cup Range(Tail(a))
  /\ Range(a) = {Head(a)} \cup Range(Tail(a))
  /\ Len(fs) \in Nat /\ Len(a) \in Nat /\ Len(a) >= 1
  /\ DOMAIN fs = 1 .. Len(fs) /\ DOMAIN a = 1 .. Len(a) /\ Head(a) = a[1]
  /\ Len(r) = Len(fs) + Len(a) - 1 /\ DOMAIN r = 1 .. Len(fs) + Len(a) - 1
  /\ \A k \in 1 .. Len(fs) : k \in DOMAIN r /\ r[k] = fs[k]
  /\ \A k \in 2 .. Len(a) : /\ Len(fs) + (k - 1) \in DOMAIN r
                            /\ r[Len(fs) + (k - 1)] = a[k]
  /\ \A k \in DOMAIN r : \/ k \in 1 .. Len(fs)
                         \/ /\ (k - Len(fs)) + 1 \in 2 .. Len(a)
                            /\ r[k] = a[(k - Len(fs)) + 1]

LEMMA Replacing ==
  ASSUME NEW a, IsSequence(a), a # <<>>, NEW fs, IsSequence(fs)
  PROVE  IsReplaced(fs \o Tail(a), fs, a)
<1> DEFINE t == Tail(a)
           r == fs \o t
<1>1. /\ IsSequence(t) /\ Len(t) = Len(a) - 1 /\ Len(a) >= 1
      /\ DOMAIN t = 1 .. Len(a) - 1
      /\ \A i \in DOMAIN t : t[i] = a[i + 1]
      /\ Head(a) = a[1] /\ Range(a) = {Head(a)} \cup Range(t)
  BY Rest
<1>2. Len(a) \in Nat /\ DOMAIN a = 1 .. Len(a)
  BY SequenceFacts
<1>3. IsJoin(r, fs, t)
  BY <1>1, Joined
<1> HIDE DEF r, t
<1>4. \A k \in 1 .. Len(fs) : k \in DOMAIN r /\ r[k] = fs[k]
  BY <1>3 DEF IsJoin
<1>5. ASSUME NEW k \in 2 .. Len(a)
      PROVE  Len(fs) + (k - 1) \in DOMAIN r /\ r[Len(fs) + (k - 1)] = a[k]
  <2>1. k - 1 \in DOMAIN t /\ (k - 1) + 1 = k /\ t[k - 1] = a[(k - 1) + 1]
    BY <1>1, <1>2
  <2>2. k - 1 \in 1 .. Len(t)
    BY <1>1, <1>2
  <2> QED BY <1>3, <2>1, <2>2 DEF IsJoin
<1>6. ASSUME NEW k \in DOMAIN r, k \notin 1 .. Len(fs)
      PROVE  (k - Len(fs)) + 1 \in 2 .. Len(a) /\ r[k] = a[(k - Len(fs)) + 1]
  <2>1. k - Len(fs) \in 1 .. Len(t) /\ Len(fs) + (k - Len(fs)) = k
    BY <1>3, <1>6 DEF IsJoin
  <2>2. r[k] = t[k - Len(fs)]
    BY <1>3, <2>1 DEF IsJoin
  <2> QED BY <1>1, <1>2, <2>1, <2>2
<1>7. /\ IsSequence(r) /\ Range(r) = Range(fs) \cup Range(t)
      /\ Len(fs) \in Nat /\ DOMAIN fs = 1 .. Len(fs)
      /\ Len(r) = Len(fs) + Len(a) - 1 /\ DOMAIN r = 1 .. Len(fs) + Len(a) - 1
  BY <1>1, <1>2, <1>3 DEF IsJoin
<1> QED BY <1>1, <1>2, <1>4, <1>5, <1>6, <1>7 DEF IsReplaced, r, t

LEMMA StepTypes ==
  ASSUME Inv, NEW c, NEW fs, NEW pushed, NEW num, NEW use,
         Makes(c, fs, pushed, num, use), StepOK(c, fs, pushed, num, use)
  PROVE  TypeInv' /\ CompInv' /\ CapacityInv'
<1> USE DEF StepOK, TypeStep
<1>1. IsSequence(agenda) /\ agenda # <<>> /\ IsSequence(fs) /\ agenda' = fs \o Tail(agenda)
  BY DEF Inv, TypeInv, Makes
<1>r. IsReplaced(agenda', fs, agenda)
  BY <1>1, Replacing
<1>2. IsSequence(agenda') /\ \A x \in Range(agenda') : x \in Range(fs) \/ x \in Range(agenda)
  BY <1>r DEF IsReplaced
<1>3. \A x \in Range(agenda') : FunctorOK(x)'
  BY <1>2 DEF Inv, TypeInv, FunctorOK, Makes
<1>4. IsJoin(entries', pushed, entries)
  BY Joined DEF Inv, TypeInv, Makes
<1>5. IsSequence(entries') /\ numEntries' \in Nat
  BY <1>4 DEF Inv, TypeInv, Makes, IsJoin
<1>6. CapacityInv'
  BY <1>4 DEF Inv, TypeInv, CapacityInv, Makes, IsJoin
<1>7. CompInv'
  BY DEF CompStep, CompInv, Makes
<1>8. status' = "binding" => \A x \in Range(agenda') : x.f \in BindingFunctor
  BY <1>2 DEF Inv, TypeInv, Makes
<1>9. ASSUME status = "converting"
      PROVE  Deferring' \/ Ensuring'
  <2>1. CASE Ensuring
    <3>1. Called.f \in EnsureFunctor
      BY <1>r, <2>1 DEF IsReplaced, Ensuring, Called
    <3>2. Called.f # "ProcessDeferredBindings"
      BY <3>1 DEF EnsureFunctor, PreProcess, PostProcess
    <3>3. \A y \in Range(fs) : y.f \in EnsureFunctor
      BY <1>9, <3>2
    <3> QED BY <1>2, <2>1, <3>3 DEF Ensuring
  <2>2. CASE Deferring
    <3>1. /\ Len(agenda) \in Nat /\ Len(agenda) >= 1 /\ Called = agenda[1]
          /\ DOMAIN agenda = 1 .. Len(agenda)
      BY <1>r DEF IsReplaced, Called
    <3>2. CASE Len(agenda) = 1
      <4>1. Called.f = "ConvertComponent"
        BY <2>2, <3>1, <3>2 DEF Deferring
      <4>2. \A y \in Range(fs) : y.f \in EnsureFunctor
        BY <1>9, <4>1
      <4>3. Range(Tail(agenda)) = {}
        <5>1. IsSequence(Tail(agenda)) /\ Len(Tail(agenda)) = 0
          BY <1>1, <3>2, Rest
        <5> QED BY <5>1, SequenceFacts, Empty
      <4>4. Range(agenda') = Range(fs)
        BY <1>r, <4>3 DEF IsReplaced
      <4> QED BY <4>2, <4>4 DEF Ensuring
    <3>3. CASE Len(agenda) # 1
      <4>1. Called.f \in PostProcess \cup {"ProcessDeferredBindings"}
        BY <2>2, <3>1, <3>3 DEF Deferring
      <4>2. \A y \in Range(fs) : y.f \in PostProcess
        <5>1. CASE Called.f \in PostProcess
          BY <5>1, Empty
        <5>2. CASE Called.f = "ProcessDeferredBindings"
          <6>1. Called.f \notin EnsureFunctor \cup {"ConvertComponent"}
            BY <5>2 DEF EnsureFunctor, PreProcess, PostProcess
          <6> QED BY <1>9, <6>1
        <5> QED BY <4>1, <5>1, <5>2
      <4>3. /\ Len(fs) \in Nat /\ DOMAIN fs = 1 .. Len(fs)
            /\ Len(agenda') = Len(fs) + Len(agenda) - 1
            /\ DOMAIN agenda' = 1 .. Len(fs) + Len(agenda) - 1
            /\ \A k \in 1 .. Len(fs) : agenda'[k] = fs[k]
            /\ \A k \in 2 .. Len(agenda) : agenda'[Len(fs) + (k - 1)] = agenda[k]
            /\ \A k \in DOMAIN agenda' : \/ k \in 1 .. Len(fs)
                                         \/ /\ (k - Len(fs)) + 1 \in 2 .. Len(agenda)
                                            /\ agenda'[k] = agenda[(k - Len(fs)) + 1]
        BY <1>r DEF IsReplaced
      <4>4. Len(agenda') >= 1 /\ agenda'[Len(agenda')].f = "ConvertComponent"
        <5>1. Len(agenda) \in 2 .. Len(agenda) /\ Len(fs) + (Len(agenda) - 1) = Len(agenda')
          BY <3>1, <3>3, <4>3
        <5>2. agenda'[Len(agenda')] = agenda[Len(agenda)]
          BY <4>3, <5>1
        <5> QED BY <2>2, <3>1, <3>3, <4>3, <5>2 DEF Deferring
      <4>5. ASSUME NEW k \in 1 .. Len(agenda') - 1
            PROVE  agenda'[k].f \in PostProcess \cup {"ProcessDeferredBindings"}
        <5>1. CASE k \in 1 .. Len(fs)
          BY <4>2, <4>3, <5>1 DEF Range
        <5>2. CASE k \notin 1 .. Len(fs)
          <6>1. k \in DOMAIN agenda'
            BY <3>1, <4>3
          <6>2. (k - Len(fs)) + 1 \in 1 .. Len(agenda) - 1 /\ agenda'[k] = agenda[(k - Len(fs)) + 1]
            BY <3>1, <4>3, <5>2, <6>1
          <6> QED BY <2>2, <6>2 DEF Deferring
        <5> QED BY <5>1, <5>2
      <4> QED BY <4>4, <4>5 DEF Deferring
    <3> QED BY <3>2, <3>3
  <2> QED BY <1>9, <2>1, <2>2 DEF Inv, TypeInv
<1>10. status' \in {"binding", "converting"}
  BY DEF Makes, Compiling
<1>11. TypeInv'
  <2>1. \A k \in DOMAIN calls' : InstalledBy(calls'[k]) \subseteq DOMAIN built'
    BY DEF Inv, TypeInv, Makes
  <2>2. status' = "converting" => WellDeclared(declared') /\ (Deferring' \/ Ensuring')
    BY <1>9 DEF Inv, TypeInv, Makes
  <2>3. IsSequence(built') /\ \A k \in DOMAIN built' : WellDeclared(built'[k].declared)
    BY DEF Inv, TypeInv, Makes
  <2>4. calls' \in Seq(BindingCall) /\ declared' \in ComponentType
    BY DEF Inv, TypeInv, Makes
  <2>5. Len(built') < Len(BindingsOf)
    BY <1>10 DEF Inv, TypeInv, Makes
  <2> QED BY <1>2, <1>3, <1>5, <1>8, <1>10, <2>1, <2>2, <2>3, <2>4, <2>5 DEF TypeInv
<1> QED BY <1>6, <1>7, <1>11

LEMMA StepEnsures ==
  ASSUME Inv, NEW c, NEW fs, NEW pushed, NEW num, NEW use,
         Makes(c, fs, pushed, num, use), StepOK(c, fs, pushed, num, use),
         status = "converting" => Ensuring
  PROVE  EnsureInv'
<1>1. SUFFICES ASSUME status' = "converting"
               PROVE  EnsureInv'
  BY DEF EnsureInv, Makes, Compiling
<1>2. status = "converting" /\ Ensuring /\ EnsureInv /\ EnsureStep(c, fs)
  BY <1>1 DEF Makes, Inv, StepOK
<1>3. IsReplaced(agenda', fs, agenda)
  BY Replacing DEF Makes, Inv, TypeInv, StepOK, TypeStep
<1>4. /\ Range(agenda') = Range(fs) \cup Range(Tail(agenda))
      /\ Range(agenda) = {Called} \cup Range(Tail(agenda))
  BY <1>3 DEF IsReplaced, Called
<1>5. comp' = c /\ Target' = Target /\ comp.Ps \subseteq c.Ps
      /\ comp.NonConstRsPs \subseteq c.NonConstRsPs
  BY DEF Makes, Target, StepOK, CompStep, Extends
<1>6. ASSUME NEW t, NEW nonConst
      PROVE  InTargetRequirements(t, nonConst)' <=> InTargetRequirements(t, nonConst)
  BY <1>5 DEF InTargetRequirements, TargetRequirements, TargetNonConstRequirements
<1>7. ASSUME NEW t, NEW nonConst, Pending(t, nonConst)
      PROVE  Covered(t, nonConst)'
  <2>1. PICK x \in Range(agenda) : Ensures(x, t, nonConst)
    BY <1>7 DEF Pending
  <2>2. CASE x = Called
    <3>1. \/ t \in c.Ps \/ InTargetRequirements(t, nonConst)
          \/ \E y \in Range(fs) : Ensures(y, t, nonConst)
      BY <1>2, <2>1, <2>2 DEF EnsureStep
    <3> QED BY <1>4, <1>5, <1>6, <3>1 DEF Covered, Pending
  <2>3. CASE x \in Range(Tail(agenda))
    BY <1>4, <2>1, <2>3 DEF Covered, Pending
  <2> QED BY <1>4, <2>1, <2>2, <2>3
<1>8. ASSUME NEW t, NEW nonConst, Covered(t, nonConst)
      PROVE  Covered(t, nonConst)'
  BY <1>5, <1>6, <1>7, <1>8 DEF Covered
<1>9. ASSUME NEW t, NEW nonConst, NEW y \in Range(fs), Ensures(y, t, nonConst)
      PROVE  Covered(t, nonConst)'
  BY <1>4, <1>9 DEF Covered, Pending
<1>10. \A x \in Range(agenda) : /\ \A t \in Needs(x) : Covered(t, FALSE)'
                                /\ \A t \in NonConstNeeds(x) : Covered(t, TRUE)'
  BY <1>2, <1>8 DEF EnsureInv
<1>11. \A t \in Target.Ps \cup c.RsSuperset : Covered(t, FALSE)'
  <2>1. \A t \in Target.Ps \cup comp.RsSuperset : Covered(t, FALSE)'
    BY <1>2, <1>8 DEF EnsureInv
  <2>2. \A t \in Needs(Called) : Covered(t, FALSE)'
    BY <1>4, <1>10
  <2> QED BY <1>2, <2>1, <2>2 DEF EnsureStep
<1>12. \A t \in c.NonConstRsPs : Covered(t, TRUE)'
  <2>1. \A t \in comp.NonConstRsPs : Covered(t, TRUE)'
    BY <1>2, <1>8 DEF EnsureInv
  <2>2. \A t \in NonConstNeeds(Called) : Covered(t, TRUE)'
    BY <1>4, <1>10
  <2>3. \A t \in c.Ps : Covered(t, TRUE)'
    BY <1>5 DEF Covered
  <2> QED BY <1>2, <2>1, <2>2, <2>3 DEF EnsureStep
<1>13. ASSUME NEW t \in Target.Ps \cap Target.NonConstRsPs
       PROVE  t \in c.NonConstRsPs \/ Pending(t, TRUE)'
  <2>1. CASE t \in comp.NonConstRsPs
    BY <1>5, <2>1
  <2>2. ASSUME NEW x \in Range(agenda), Ensures(x, t, TRUE)
        PROVE  t \in c.NonConstRsPs \/ Pending(t, TRUE)'
    <3>1. CASE x = Called
      <4>1. t \in c.NonConstRsPs \/ \E y \in Range(fs) : Ensures(y, t, TRUE)
        BY <1>2, <2>2, <3>1 DEF EnsureStep
      <4> QED BY <1>4, <4>1 DEF Pending
    <3>2. CASE x \in Range(Tail(agenda))
      BY <1>4, <2>2, <3>2 DEF Pending
    <3> QED BY <1>4, <3>1, <3>2
  <2> QED BY <1>2, <2>1, <2>2 DEF EnsureInv, Pending
<1>14. ASSUME NEW x \in Range(agenda')
       PROVE  /\ \A t \in Needs(x) : Covered(t, FALSE)'
              /\ \A t \in NonConstNeeds(x) : Covered(t, TRUE)'
  <2>1. CASE x \in Range(fs)
    BY <1>2, <1>9, <2>1 DEF EnsureStep
  <2>2. CASE x \in Range(agenda)
    BY <1>10, <2>2
  <2> QED BY <1>4, <2>1, <2>2
<1> QED BY <1>5, <1>11, <1>12, <1>13, <1>14 DEF EnsureInv

LEMMA StepConst ==
  ASSUME Inv, NEW c, NEW fs, NEW pushed, NEW num, NEW use,
         Makes(c, fs, pushed, num, use), StepOK(c, fs, pushed, num, use)
  PROVE  ConstInv'
<1>1. /\ status \in {"binding", "converting"} /\ status' = status /\ comp' = c
      /\ calls' = calls /\ built' = built /\ uses' = uses \cup use
      /\ comp.NonConstRsPs \subseteq c.NonConstRsPs /\ ConstPs(comp) \subseteq ConstPs(c)
  BY DEF Makes, Compiling, StepOK, CompStep, Extends
<1>2. ConstInv /\ ConstStep(c, fs, pushed, use)
  BY DEF Inv, StepOK
<1>3. IsReplaced(agenda', fs, agenda)
  BY Replacing DEF Makes, Inv, TypeInv, StepOK, TypeStep
<1>4. /\ Range(agenda') = Range(fs) \cup Range(Tail(agenda))
      /\ Range(agenda) = {Called} \cup Range(Tail(agenda))
      /\ Called = agenda[1]
      /\ Len(fs) \in Nat /\ DOMAIN fs = 1 .. Len(fs)
      /\ Len(agenda) \in Nat /\ DOMAIN agenda = 1 .. Len(agenda)
      /\ \A k \in 1 .. Len(fs) : k \in DOMAIN agenda' /\ agenda'[k] = fs[k]
      /\ \A k \in 2 .. Len(agenda) : /\ Len(fs) + (k - 1) \in DOMAIN agenda'
                                     /\ agenda'[Len(fs) + (k - 1)] = agenda[k]
      /\ \A k \in DOMAIN agenda' : \/ k \in 1 .. Len(fs)
                                   \/ /\ (k - Len(fs)) + 1 \in 2 .. Len(agenda)
                                      /\ agenda'[k] = agenda[(k - Len(fs)) + 1]
      /\ DOMAIN agenda' \subseteq Nat
  BY <1>3 DEF IsReplaced, Called
<1>5. \A u \in uses' : u.nonConst => u.type \in comp'.NonConstRsPs
  BY <1>1, <1>2 DEF ConstInv, ConstStep
<1>6. \A sig : Processed(sig, comp) => Processed(sig, comp')
  BY <1>1 DEF Processed
<1>7. ASSUME NEW sig, NEW j \in DOMAIN agenda, WillProcess(agenda, j, sig)
      PROVE  \/ Processed(sig, comp')
             \/ /\ j \in 2 .. Len(agenda) /\ Len(fs) + (j - 1) \in DOMAIN agenda'
                /\ WillProcess(agenda', Len(fs) + (j - 1), sig)
  <2>1. CASE j = 1
    <3>1. Called.f \in PreProcess /\ Called.sig = sig
      BY <1>4, <1>7, <2>1 DEF WillProcess
    <3> QED BY <1>1, <1>2, <3>1 DEF ConstStep
  <2>2. CASE j # 1
    <3>1. j \in 2 .. Len(agenda)
      BY <1>4, <2>2
    <3>2. Len(fs) + (j - 1) \in DOMAIN agenda' /\ agenda'[Len(fs) + (j - 1)] = agenda[j]
      BY <1>4, <3>1
    <3> QED BY <1>7, <3>1, <3>2 DEF WillProcess
  <2> QED BY <2>1, <2>2
<1>8. ASSUME NEW k \in DOMAIN agenda', agenda'[k].f \in PostProcess
      PROVE  \/ Processed(agenda'[k].sig, comp')
             \/ \E j \in 1 .. k - 1 : WillProcess(agenda', j, agenda'[k].sig)
  <2>1. CASE k \in 1 .. Len(fs)
    <3>1. agenda'[k] = fs[k] /\ k \in DOMAIN fs
      BY <1>4, <2>1
    <3>2. CASE Processed(fs[k].sig, c)
      BY <1>1, <3>1, <3>2
    <3>3. ASSUME NEW j \in 1 .. k - 1, fs[j].f \in PreProcess, fs[j].sig = fs[k].sig
          PROVE  WillProcess(agenda', j, agenda'[k].sig)
      <4>1. j \in 1 .. Len(fs)
        BY <1>4, <2>1
      <4>2. agenda'[j] = fs[j]
        BY <1>4, <4>1
      <4> QED BY <3>1, <3>3, <4>2 DEF WillProcess
    <3> QED BY <1>2, <1>8, <3>1, <3>2, <3>3 DEF ConstStep
  <2>2. CASE k \notin 1 .. Len(fs)
    <3> DEFINE i == (k - Len(fs)) + 1
    <3>1. i \in 2 .. Len(agenda) /\ agenda'[k] = agenda[i] /\ k \in Nat
      BY <1>4, <2>2
    <3>2. i \in DOMAIN agenda /\ agenda[i].f \in PostProcess
      BY <1>4, <1>8, <3>1
    <3>3. CASE Processed(agenda[i].sig, comp)
      BY <1>6, <3>1, <3>3
    <3>4. ASSUME NEW j \in 1 .. i - 1, WillProcess(agenda, j, agenda[i].sig)
          PROVE  \/ Processed(agenda'[k].sig, comp')
                 \/ \E l \in 1 .. k - 1 : WillProcess(agenda', l, agenda'[k].sig)
      <4>1. j \in DOMAIN agenda
        BY <1>4, <3>1
      <4>2. \/ Processed(agenda[i].sig, comp')
            \/ j \in 2 .. Len(agenda) /\ WillProcess(agenda', Len(fs) + (j - 1), agenda[i].sig)
        BY <1>7, <3>4, <4>1
      <4>3. Len(fs) + (j - 1) <= k - 1 /\ (j >= 2 => Len(fs) + (j - 1) >= 1)
        BY <1>4, <3>1
      <4>4. Len(fs) + (j - 1) \in Int
        BY <1>4
      <4>5. j \in 2 .. Len(agenda) => Len(fs) + (j - 1) \in 1 .. k - 1
        BY <1>4, <3>1, <4>3, <4>4
      <4> HIDE DEF i
      <4> QED BY <3>1, <4>2, <4>5
    <3>5. Processed(agenda[i].sig, comp) \/ \E j \in 1 .. i - 1 : WillProcess(agenda, j, agenda[i].sig)
      <4> HIDE DEF i
      <4> QED BY <1>1, <1>2, <3>2 DEF ConstInv
    <3> HIDE DEF i
    <3> QED BY <3>3, <3>4, <3>5
  <2> QED BY <2>1, <2>2
<1>9. ASSUME NEW x \in Range(comp'.DeferredBindingFunctors)
      PROVE  Processed(x.sig, comp') \/ \E j \in DOMAIN agenda' : WillProcess(agenda', j, x.sig)
  <2>1. CASE x \in Range(comp.DeferredBindingFunctors)
    <3>1. Processed(x.sig, comp) \/ \E j \in DOMAIN agenda : WillProcess(agenda, j, x.sig)
      BY <1>1, <1>2, <2>1 DEF ConstInv
    <3>2. ASSUME NEW j \in DOMAIN agenda, WillProcess(agenda, j, x.sig)
          PROVE  Processed(x.sig, comp') \/ \E l \in DOMAIN agenda' : WillProcess(agenda', l, x.sig)
      BY <1>7, <3>2
    <3> QED BY <1>6, <3>1, <3>2
  <2>2. ASSUME NEW j \in DOMAIN fs, fs[j].f \in PreProcess, fs[j].sig = x.sig
        PROVE  j \in DOMAIN agenda' /\ WillProcess(agenda', j, x.sig)
    BY <1>4, <2>2 DEF WillProcess
  <2> QED BY <1>1, <1>2, <2>1, <2>2 DEF ConstStep
<1>10. ASSUME NEW k \in DOMAIN calls', NEW d \in InstalledBy(calls'[k])
       PROVE  \/ ConstTypesOf(built'[d].declared.Ps) \subseteq ConstPs(comp')
              \/ \E x \in Range(agenda') : d \in ToInstall(x)
  <2>1. CASE ConstTypesOf(built[d].declared.Ps) \subseteq ConstPs(comp)
    BY <1>1, <2>1
  <2>2. ASSUME NEW x \in Range(agenda), d \in ToInstall(x)
        PROVE  \/ ConstTypesOf(built'[d].declared.Ps) \subseteq ConstPs(comp')
               \/ \E y \in Range(agenda') : d \in ToInstall(y)
    <3>1. CASE x = Called
      <4>1. \/ ConstTypesOf(built[d].declared.Ps) \subseteq ConstPs(c)
            \/ \E y \in Range(fs) : d \in ToInstall(y)
        BY <1>2, <2>2, <3>1 DEF ConstStep
      <4> QED BY <1>1, <1>4, <4>1
    <3>2. CASE x \in Range(Tail(agenda))
      BY <1>4, <2>2, <3>2
    <3> QED BY <1>4, <3>1, <3>2
  <2> QED BY <1>1, <1>2, <2>1, <2>2 DEF ConstInv
<1>11. Compiling' => \A e \in Range(entries') : e.kind # "lazy"
  <2>1. IsJoin(entries', pushed, entries)
    BY Joined DEF Inv, TypeInv, Makes, StepOK, TypeStep
  <2>2. Range(entries') = Range(pushed) \cup Range(entries)
    BY <2>1 DEF IsJoin
  <2> QED BY <1>1, <1>2, <2>2 DEF ConstInv, ConstStep, Compiling
<1>12. ~Compiled'
  BY <1>1 DEF Compiled
<1> QED BY <1>1, <1>5, <1>8, <1>9, <1>10, <1>11, <1>12 DEF ConstInv

LEMMA StepCompressible ==
  ASSUME Inv, NEW c, NEW fs, NEW pushed, NEW num, NEW use,
         Makes(c, fs, pushed, num, use), StepOK(c, fs, pushed, num, use)
  PROVE  CompressibleInv'
<1>1. /\ status \in {"binding", "converting"} /\ status' = status /\ comp' = c
      /\ c \in CompRecord /\ CompressibleStep(c, pushed) /\ CompressibleInv
  BY DEF Makes, Compiling, StepOK, CompStep, CompOK, Inv
<1>2. IsJoin(entries', pushed, entries)
  BY Joined DEF Inv, TypeInv, Makes, StepOK, TypeStep
<1>3. CASE status = "binding"
  <2>1. \A e \in Range(entries') : IsMade(e) => e.type.shape # "object"
    BY <1>1, <1>2, <1>3 DEF CompressibleInv, CompressibleStep, IsJoin
  <2>2. \A t : IsImplementation(t)' => t.shape = "object"
    <3>1. c.InterfaceBindings \in Seq([i : ObjectType, c : ObjectType])
      BY <1>1, CompFields
    <3>2. \A b \in [i : ObjectType, c : ObjectType] : b.c \in ObjectType
      OBVIOUS
    <3>3. \A j \in DOMAIN c.InterfaceBindings :
            c.InterfaceBindings[j] \in [i : ObjectType, c : ObjectType]
      <4> DEFINE S == [i : ObjectType, c : ObjectType]
                 q == c.InterfaceBindings
      <4>1. q \in Seq(S)
        BY <3>1
      <4> HIDE DEF S, q
      <4>2. Range(q) \subseteq S
        BY <4>1, SequenceOver
      <4>3. \A j \in DOMAIN q : q[j] \in S
        BY <4>2 DEF Range
      <4> QED BY <4>3 DEF S, q
    <3>4. \A j \in DOMAIN c.InterfaceBindings : c.InterfaceBindings[j].c \in ObjectType
      BY <3>2, <3>3
    <3> QED BY <1>1, <3>4 DEF IsImplementation, ObjectType
  <2>3. \A k \in DOMAIN entries' : entries'[k] \in Range(entries')
    BY DEF Range
  <2>4. MadeWithCompressed(entries)'
    BY <2>1, <2>2, <2>3 DEF MadeWithCompressed
  <2> QED BY <1>1, <2>1, <2>4 DEF CompressibleInv, Compiling, Compiled
<1>4. CASE status = "converting"
  <2>1. \A t : IsImplementation(t)' <=> IsImplementation(t)
    BY <1>1, <1>4 DEF IsImplementation, CompressibleStep
  <2>2. MadeWithCompressed(pushed) /\ MadeWithCompressed(entries)
    BY <1>1, <1>4 DEF CompressibleInv, CompressibleStep, Compiling
  <2>3. ASSUME NEW k \in DOMAIN entries', IsMade(entries'[k]), IsImplementation(entries'[k].type)
        PROVE  k > 1 /\ entries'[k - 1].kind = "compressed"
               /\ entries'[k - 1].c_type = entries'[k].type
    <3>1. CASE k \in 1 .. Len(pushed)
      <4>1. k \in DOMAIN pushed /\ entries'[k] = pushed[k]
        BY <1>2, <3>1 DEF IsJoin
      <4>2. /\ k > 1 /\ pushed[k - 1].kind = "compressed"
            /\ pushed[k - 1].c_type = pushed[k].type
        BY <2>2, <2>3, <4>1 DEF MadeWithCompressed
      <4>3. k - 1 \in 1 .. Len(pushed)
        BY <1>2, <3>1, <4>2 DEF IsJoin
      <4>4. entries'[k - 1] = pushed[k - 1]
        BY <1>2, <4>3 DEF IsJoin
      <4> QED BY <4>1, <4>2, <4>4
    <3>2. CASE k \notin 1 .. Len(pushed)
      <4> DEFINE i == k - Len(pushed)
      <4>1. i \in 1 .. Len(entries) /\ Len(pushed) + i = k /\ Len(pushed) \in Nat
        BY <1>2, <3>2 DEF IsJoin
      <4>2. i \in DOMAIN entries /\ entries'[k] = entries[i]
        BY <1>2, <4>1 DEF IsJoin
      <4>3. /\ i > 1 /\ entries[i - 1].kind = "compressed"
            /\ entries[i - 1].c_type = entries[i].type
        <5> HIDE DEF i
        <5> QED BY <2>2, <2>3, <4>2 DEF MadeWithCompressed
      <4>4. i - 1 \in 1 .. Len(entries) /\ Len(pushed) + (i - 1) = k - 1 /\ k > 1
        BY <4>1, <4>3
      <4>5. entries'[k - 1] = entries[i - 1]
        BY <1>2, <4>4 DEF IsJoin
      <4> HIDE DEF i
      <4> QED BY <4>2, <4>3, <4>4, <4>5
    <3> QED BY <3>1, <3>2
  <2>4. MadeWithCompressed(entries)'
    BY <2>1, <2>3 DEF MadeWithCompressed
  <2> QED BY <1>1, <1>4, <2>4 DEF CompressibleInv
<1> QED BY <1>1, <1>3, <1>4

LEMMA FailStep ==
  ASSUME Inv, Fails
  PROVE  Inv'
<1>1. /\ status' = "error" /\ comp' = comp /\ agenda' = agenda /\ entries' = entries
      /\ numEntries' = numEntries /\ uses' = uses
      /\ built' = built /\ calls' = calls /\ declared' = declared
  BY DEF Fails
<1>2. TypeInv'
  BY <1>1 DEF Inv, TypeInv, FunctorOK
<1>3. CompInv'
  BY <1>1 DEF Inv, CompInv
<1>4. EnsureInv' /\ ConstInv' /\ CapacityInv' /\ CompressibleInv'
  BY <1>1 DEF EnsureInv, ConstInv, CapacityInv, CompressibleInv, Compiling, Compiled
<1> QED BY <1>2, <1>3, <1>4 DEF Inv

-----------------------------------------------------------------------------
(* Every functor makes a step that keeps the invariants, or fails.              *)
Keeps ==
  Fails \/ \E c, fs, pushed, num, use :
             Makes(c, fs, pushed, num, use) /\ StepOK(c, fs, pushed, num, use)

LEMMA CalledFunctor ==
  ASSUME Inv, NEW f, Calling(f)
  PROVE  /\ Compiling /\ status \in {"binding", "converting"} /\ agenda # <<>>
         /\ Called.f = f /\ FunctorOK(Called)
         /\ Called \in Range(agenda) /\ 1 \in DOMAIN agenda /\ Called = agenda[1]
         /\ CompOK(comp) /\ comp \in CompRecord /\ CompStep(comp)
         /\ status = "binding" => f \in BindingFunctor
         /\ (status = "converting" /\ Ensuring) => f \in EnsureFunctor
         /\ status = "converting" =>
              f \in EnsureFunctor \cup {"ProcessDeferredBindings", "ConvertComponent"}
<1>1. Compiling /\ status \in {"binding", "converting"} /\ agenda # <<>> /\ Called.f = f
  BY DEF Calling, Compiling, Called
<1>2. /\ Called \in Range(agenda) /\ 1 \in DOMAIN agenda /\ Called = agenda[1]
      /\ Len(agenda) \in Nat
  BY <1>1, Rest, SequenceFacts DEF Inv, TypeInv, Called
<1>3. CompOK(comp) /\ comp \in CompRecord /\ CompStep(comp)
  BY DEF Inv, CompInv, CompOK, CompStep, Extends
<1>4. FunctorOK(Called)
  BY <1>2 DEF Inv, TypeInv
<1>5. status = "binding" => f \in BindingFunctor
  BY <1>1, <1>2 DEF Inv, TypeInv
<1>6. Ensuring => f \in EnsureFunctor
  BY <1>1, <1>2 DEF Ensuring
<1>7. Deferring => f \in PostProcess \cup {"ProcessDeferredBindings", "ConvertComponent"}
  BY <1>1, <1>2 DEF Deferring
<1>8. PostProcess \subseteq EnsureFunctor
  BY DEF EnsureFunctor
<1> QED BY <1>1, <1>2, <1>3, <1>4, <1>5, <1>6, <1>7, <1>8 DEF Inv, TypeInv

LEMMA Nothing ==
  ASSUME NEW s, IsSequence(s)
  PROVE  <<>> \o s = s
BY DEF IsSequence

LEMMA ComposeMakes ==
  ASSUME Inv, NEW f, Calling(f), NEW c, NEW fs, ComposeFunctors(c, fs)
  PROVE  Makes(c, fs, <<>>, 0, {})
<1>1. Compiling /\ agenda # <<>>
  BY CalledFunctor
<1>2. IsSequence(entries) /\ numEntries \in Nat
  BY DEF Inv, TypeInv
<1>3. <<>> \o entries = entries /\ numEntries + 0 = numEntries
  BY <1>2, Nothing
<1> QED BY <1>1, <1>3 DEF Makes, ComposeFunctors

LEMMA CallOpMakes ==
  ASSUME Inv, NEW f, Calling(f), NEW c, NEW pushed, NEW num, NEW use, NEW const,
         CallOp(c, pushed, num, use, const)
  PROVE  Makes(c, <<>>, pushed, num, use)
<1>1. Compiling /\ agenda # <<>>
  BY CalledFunctor
<1>2. <<>> \o Tail(agenda) = Tail(agenda)
  BY <1>1, Rest, Nothing DEF Inv, TypeInv
<1> QED BY <1>1, <1>2 DEF Makes, CallOp

LEMMA FailMakes ==
  ASSUME NEW e, Fail(e)
  PROVE  Keeps
BY DEF Fail, Fails, Keeps

LEMMA OpMakes ==
  ASSUME Inv, NEW f, Calling(f), NEW c, NEW pushed, NEW num, NEW use, NEW const,
         Op(c, pushed, num, use, const)
  PROVE  Keeps \/ (~IsError(c) /\ Makes(c, <<>>, pushed, num, use))
BY CallOpMakes, FailMakes DEF Op

(* A functor that calls no other one.                                           *)
LEMMA LastFunctor ==
  ASSUME NEW c, NEW pushed, NEW num, NEW use,
         IsSequence(pushed), num = Len(pushed), CompStep(c),
         (status = "converting" /\ Ensuring) =>
            /\ \A t, nonConst : Ensures(Called, t, nonConst) =>
                 t \in c.Ps \/ InTargetRequirements(t, nonConst)
            /\ \A t \in Target.Ps : Ensures(Called, t, TRUE) => t \in c.NonConstRsPs
            /\ c.RsSuperset \subseteq comp.RsSuperset \cup Needs(Called)
            /\ c.NonConstRsPs \subseteq comp.NonConstRsPs \cup NonConstNeeds(Called) \cup c.Ps,
         \A u \in use : u.nonConst => u.type \in c.NonConstRsPs,
         Called.f \in PreProcess => Processed(Called.sig, c),
         Range(c.DeferredBindingFunctors) \subseteq Range(comp.DeferredBindingFunctors),
         \A d \in ToInstall(Called) : ConstTypesOf(built[d].declared.Ps) \subseteq ConstPs(c),
         \A e \in Range(pushed) : e.kind # "lazy",
         CompressibleStep(c, pushed)
  PROVE  StepOK(c, <<>>, pushed, num, use)
<1>1. IsSequence(<<>>) /\ Range(<<>>) = {} /\ DOMAIN <<>> = {}
  BY Empty
<1>2. TypeStep(<<>>, pushed, num)
  BY <1>1 DEF TypeStep
<1>3. (status = "converting" /\ Ensuring) => EnsureStep(c, <<>>)
  BY <1>1 DEF EnsureStep
<1>4. ConstStep(c, <<>>, pushed, use)
  BY <1>1 DEF ConstStep
<1> QED BY <1>2, <1>3, <1>4 DEF StepOK

LEMMA NothingPushed ==
  ASSUME NEW c, c.InterfaceBindings = comp.InterfaceBindings
  PROVE  /\ CompressibleStep(c, <<>>)
         /\ IsSequence(<<>>) /\ Len(<<>>) = 0 /\ \A e \in Range(<<>>) : e.kind # "lazy"
<1>1. IsSequence(<<>>) /\ Range(<<>>) = {} /\ DOMAIN <<>> = {} /\ Len(<<>>) = 0
  BY Empty
<1> QED BY <1>1 DEF CompressibleStep, MadeWithCompressed

(* Functors that do nothing: their types are there already.                     *)
LEMMA IdleFunctor ==
  ASSUME Inv, NEW f, Calling(f), f \notin PreProcess, ComposeFunctors(comp, <<>>),
         ToInstall(Called) = {},
         \A t, nonConst : Ensures(Called, t, nonConst) =>
           t \in comp.Ps \/ InTargetRequirements(t, nonConst),
         \A t \in Target.Ps : Ensures(Called, t, TRUE) => t \in comp.NonConstRsPs
  PROVE  Keeps
<1>1. Makes(comp, <<>>, <<>>, 0, {})
  BY ComposeMakes
<1>2. CompStep(comp) /\ Called.f = f
  BY CalledFunctor
<1>3. /\ CompressibleStep(comp, <<>>)
      /\ IsSequence(<<>>) /\ Len(<<>>) = 0 /\ \A e \in Range(<<>>) : e.kind # "lazy"
  BY NothingPushed
<1>4. StepOK(comp, <<>>, <<>>, 0, {})
  BY <1>2, <1>3, LastFunctor
<1> QED BY <1>1, <1>4 DEF Keeps

LEMMA KeepsIdentity ==
  ASSUME Inv, ComponentFunctorIdentity \/ LeaveCatch
  PROVE  Keeps
<1>1. ASSUME NEW f \in {"ComponentFunctorIdentity", "Catch"}, Calling(f),
             ComposeFunctors(comp, <<>>)
      PROVE  Keeps
  <2>1. Called.f = f
    BY <1>1, CalledFunctor
  <2>2. f \notin PreProcess /\ ToInstall(Called) = {}
    BY <2>1 DEF PreProcess, ToInstall
  <2>3. \A t, nonConst : ~Ensures(Called, t, nonConst)
    BY <2>1 DEF Ensures, PreProcess
  <2> QED BY <1>1, <2>2, <2>3, IdleFunctor
<1> QED BY <1>1 DEF ComponentFunctorIdentity, LeaveCatch

-----------------------------------------------------------------------------
(* The bindings of interfaces.                                                  *)
LEMMA OneRequirement ==
  ASSUME NEW t \in GraphType
  PROVE  <<t>> \in Seq(GraphType) /\ Range(<<t>>) = {t} /\ {t} \subseteq Range(<<t>>)
<1>1. <<t>> \in Seq(GraphType)
  OBVIOUS
<1>2. Range(<<t>>) = {t}
  BY Singleton
<1> QED BY <1>1, <1>2

(* The interface t of an implementation i is provided.                          *)
LEMMA NewProvidedInterface ==
  ASSUME NEW c, CompOK(c), NEW t \in GraphType, NEW i \in GraphType, NEW isNonConst,
         NEW r, ~IsError(r),
         r = AddProvidedTypeIgnoringInterfaceBindings(c, t, isNonConst, <<i>>, IfNonConst(isNonConst, i))
  PROVE  Provided(c, t, isNonConst, {i}, IfNonConst(isNonConst, i), r)
<1>1. <<i>> \in Seq(GraphType) /\ Range(<<i>>) = {i}
  BY OneRequirement
<1>2. IfNonConst(isNonConst, i) \subseteq Range(<<i>>)
  BY <1>1 DEF IfNonConst
<1>3. Providing(c, t, isNonConst, <<i>>, IfNonConst(isNonConst, i), r)
  BY <1>1, <1>2 DEF Providing
<1>4. Provided(c, t, isNonConst, Range(<<i>>), IfNonConst(isNonConst, i), r)
  BY <1>3, NewProvidedType
<1> QED BY <1>1, <1>4

LEMMA ObjectTypes == ObjectType \subseteq GraphType
BY DEF ObjectType

LEMMA KeepsDeferredInterface ==
  ASSUME Inv, AddDeferredInterfaceBinding
  PROVE  Keeps
<1> DEFINE b == Called
           r == [comp EXCEPT !.InterfaceBindings = <<[i |-> b.i, c |-> b.c]>> \o @]
<1>1. Calling("AddDeferredInterfaceBinding")
  BY DEF AddDeferredInterfaceBinding
<1>2. /\ Called.f = "AddDeferredInterfaceBinding" /\ FunctorOK(Called)
      /\ CompOK(comp) /\ comp \in CompRecord
      /\ status \in {"binding", "converting"}
      /\ status = "converting" =>
           Called.f \in EnsureFunctor \cup {"ProcessDeferredBindings", "ConvertComponent"}
  BY <1>1, CalledFunctor
<1>3. status = "binding"
  BY <1>2 DEF EnsureFunctor, PreProcess, PostProcess
<1>4. PICK q : /\ Keeps \/ (~IsError(q) /\ Makes(q, <<>>, <<>>, 0, {}))
               /\ ~IsError(q) => q = r
  <2> DEFINE bound == comp.Ps \cup {comp.InterfaceBindings[k].i : k \in DOMAIN comp.InterfaceBindings}
             q == IF b.i = b.c THEN ConstructError("InterfaceBindingToSelf", b.c)
                  ELSE IF ~IsBaseOf(b.i.class, b.c.class) THEN ConstructError("NotABaseClassOf", b.i)
                  ELSE IF b.i \in bound THEN ConstructError("TypeAlreadyBound", b.i)
                  ELSE r
  <2>1. Op(q, <<>>, 0, {}, {})
    BY DEF AddDeferredInterfaceBinding, Called
  <2>2. ~IsError(q) => q = r
    BY Errors
  <2> HIDE DEF q
  <2> QED BY <1>1, <2>1, <2>2, OpMakes
<1>5. r \in CompRecord
  <2>1. b.i \in ObjectType /\ b.c \in ObjectType
    BY <1>2 DEF FunctorOK
  <2>2. comp.InterfaceBindings \in Seq([i : ObjectType, c : ObjectType])
    BY <1>2, CompFields
  <2> DEFINE S == [i : ObjectType, c : ObjectType]
             x == [i |-> b.i, c |-> b.c]
             new == <<x>> \o comp.InterfaceBindings
  <2>3. x \in S
    BY <2>1
  <2>4. new \in Seq(S)
    <3> HIDE DEF x, S
    <3> QED BY <2>2, <2>3 DEF S
  <2>5. r = [comp EXCEPT !.InterfaceBindings = new]
    OBVIOUS
  <2> HIDE DEF r, new
  <2> QED BY <1>2, <2>4, <2>5 DEF CompRecord
<1>6. /\ r.RsSuperset = comp.RsSuperset /\ r.Ps = comp.Ps /\ r.Deps = comp.Deps
      /\ r.NonConstRsPs = comp.NonConstRsPs
      /\ r.DeferredBindingFunctors = comp.DeferredBindingFunctors
  BY <1>2 DEF CompRecord
<1> HIDE DEF r
<1>7. CompStep(r)
  BY <1>2, <1>5, <1>6 DEF CompStep, CompOK, Extends, ConstPs
<1>8. Called.f \notin PreProcess /\ ToInstall(Called) = {}
  BY <1>2 DEF PreProcess, ToInstall
<1>9. CompressibleStep(r, <<>>)
  BY <1>3, Empty DEF CompressibleStep
<1>10. StepOK(r, <<>>, <<>>, 0, {})
  BY <1>3, <1>6, <1>7, <1>8, <1>9, Empty, LastFunctor
<1> QED BY <1>4, <1>10 DEF Keeps

LEMMA KeepsInterfaceBinding ==
  ASSUME Inv, ProcessInterfaceBinding
  PROVE  Keeps
<1> DEFINE b == Called
           non == IF b.nonConst THEN {b.c} ELSE {}
           r == AddProvidedTypeIgnoringInterfaceBindings(comp, b.i, b.nonConst, <<b.c>>, non)
           use == {[type |-> b.c, nonConst |-> b.nonConst]}
           pushed == Bind(b.i, b.c)
<1>1. Calling("ProcessInterfaceBinding")
  BY DEF ProcessInterfaceBinding
<1>2. /\ Called.f = "ProcessInterfaceBinding" /\ FunctorOK(Called)
      /\ CompOK(comp) /\ comp \in CompRecord
      /\ status \in {"binding", "converting"}
      /\ status = "binding" => Called.f \in BindingFunctor
  BY <1>1, CalledFunctor
<1>3. status = "converting"
  BY <1>2 DEF BindingFunctor, PreProcess
<1>4. Keeps \/ (~IsError(r) /\ Makes(r, <<>>, pushed, 1, use))
  <2>1. Op(r, pushed, 1, use, IF b.nonConst THEN {} ELSE {b.i})
    BY DEF ProcessInterfaceBinding, Called
  <2> HIDE DEF r, pushed, use
  <2> QED BY <1>1, <2>1, OpMakes
<1>5. b.i \in GraphType /\ b.c \in GraphType /\ b.nonConst \in BOOLEAN
  BY <1>2, ObjectTypes DEF FunctorOK
<1>7. SUFFICES ASSUME ~IsError(r)
               PROVE  StepOK(r, <<>>, pushed, 1, use)
  BY <1>4 DEF Keeps
<1>8. /\ CompOK(r) /\ Extends(comp, r) /\ SameBinds(comp, r)
      /\ r.Ps = comp.Ps \cup {b.i} /\ r.RsSuperset = comp.RsSuperset \cup {b.c}
      /\ r.NonConstRsPs = comp.NonConstRsPs \cup non \cup IfNonConst(b.nonConst, b.i)
  <2>1. r = AddProvidedTypeIgnoringInterfaceBindings(comp, b.i, b.nonConst, <<b.c>>,
                                                     IfNonConst(b.nonConst, b.c))
    BY DEF IfNonConst
  <2> HIDE DEF r
  <2>2. Provided(comp, b.i, b.nonConst, {b.c}, IfNonConst(b.nonConst, b.c), r)
    BY <1>2, <1>5, <1>7, <2>1, NewProvidedInterface
  <2> QED BY <2>2 DEF Provided, IfNonConst
<1> HIDE DEF r
<1>9. CompStep(r)
  BY <1>8 DEF CompStep
<1>10. /\ Needs(Called) = {b.c} /\ NonConstNeeds(Called) = non
       /\ Called.f \notin PreProcess /\ ToInstall(Called) = {}
  BY <1>2 DEF Needs, NonConstNeeds, PreProcess, ToInstall
<1>11. \A t, nonConst : Ensures(Called, t, nonConst) => t = b.i /\ (nonConst => b.nonConst)
  BY <1>2 DEF Ensures, PreProcess
<1>12. /\ \A t, nonConst : Ensures(Called, t, nonConst) =>
            t \in r.Ps \/ InTargetRequirements(t, nonConst)
       /\ \A t \in Target.Ps : Ensures(Called, t, TRUE) => t \in r.NonConstRsPs
       /\ r.RsSuperset \subseteq comp.RsSuperset \cup Needs(Called)
       /\ r.NonConstRsPs \subseteq comp.NonConstRsPs \cup NonConstNeeds(Called) \cup r.Ps
  BY <1>8, <1>10, <1>11 DEF IfNonConst
<1>13. \A u \in use : u.nonConst => u.type \in r.NonConstRsPs
  BY <1>8
<1>14. /\ IsSequence(pushed) /\ 1 = Len(pushed) /\ DOMAIN pushed = {1}
       /\ \A e \in Range(pushed) : e.kind # "lazy" /\ ~IsMade(e)
  <2> DEFINE e == [kind |-> "needs_no_allocation", type |-> b.i, deps |-> {b.c},
                   create |-> [fn |-> "bind", c |-> b.c, i |-> b.i]]
  <2>1. pushed = <<e>>
    BY DEF Bind
  <2>2. e.kind # "lazy" /\ ~IsMade(e)
    BY DEF IsMade
  <2> HIDE DEF e, pushed
  <2> QED BY <2>1, <2>2, Singleton
<1> HIDE DEF pushed
<1>15. CompressibleStep(r, pushed)
  BY <1>3, <1>8, <1>14 DEF CompressibleStep, MadeWithCompressed, SameBinds, Range
<1> HIDE DEF use
<1> QED BY <1>8, <1>9, <1>10, <1>12, <1>13, <1>14, <1>15, LastFunctor DEF SameBinds

-----------------------------------------------------------------------------
(* The functors of a binding.                                                   *)
LEMMA OnlyWhileBinding ==
  ASSUME Inv, NEW f, Calling(f),
         f \in {"AddInterfaceMultibinding", "DeferredRegisterConstructor",
                "DeferredRegisterProvider", "RegisterMultibindingProvider",
                "RegisterInstance", "InstallComponent", "InstallComponentFunctions"}
  PROVE  status = "binding"
<1>1. f \notin EnsureFunctor \cup {"ProcessDeferredBindings", "ConvertComponent"}
  BY DEF EnsureFunctor, PreProcess, PostProcess
<1> QED BY <1>1, CalledFunctor

(* A functor of a binding that calls no other one and keeps the binds.          *)
LEMMA BindingStep ==
  ASSUME Inv, status = "binding", NEW c, CompOK(c), Extends(comp, c), SameBinds(comp, c),
         NEW pushed, NEW num, NEW use, IsSequence(pushed), num = Len(pushed),
         \A u \in use : u.nonConst => u.type \in c.NonConstRsPs,
         Called.f \notin PreProcess,
         \A d \in ToInstall(Called) : ConstTypesOf(built[d].declared.Ps) \subseteq ConstPs(c),
         \A e \in Range(pushed) : e.kind # "lazy" /\ (IsMade(e) => e.type.shape # "object")
  PROVE  StepOK(c, <<>>, pushed, num, use)
<1>1. CompStep(c) /\ CompressibleStep(c, pushed)
  BY DEF CompStep, CompressibleStep
<1>2. Range(c.DeferredBindingFunctors) \subseteq Range(comp.DeferredBindingFunctors)
  BY DEF SameBinds
<1> QED BY <1>1, <1>2, LastFunctor

LEMMA TwoEntries ==
  ASSUME NEW a, NEW b, a.kind # "lazy", ~IsMade(a), b.kind # "lazy", ~IsMade(b)
  PROVE  /\ IsSequence(<<a, b>>) /\ Len(<<a, b>>) = 2
         /\ \A e \in Range(<<a, b>>) : e.kind # "lazy" /\ ~IsMade(e)
<1>1. IsSequence(<<a, b>>) /\ Len(<<a, b>>) = 2 /\ Range(<<a, b>>) = {a, b}
  BY Pair
<1> QED BY <1>1

LEMMA MultibindingEntries ==
  ASSUME NEW i, NEW c, NEW deps
  PROVE  /\ IsSequence(AddMultibinding(i, c)) /\ Len(AddMultibinding(i, c)) = 2
         /\ \A e \in Range(AddMultibinding(i, c)) : e.kind # "lazy" /\ ~IsMade(e)
         /\ IsSequence(AddMultibindingProvider(c, deps)) /\ Len(AddMultibindingProvider(c, deps)) = 2
         /\ \A e \in Range(AddMultibindingProvider(c, deps)) : e.kind # "lazy" /\ ~IsMade(e)
<1> DEFINE x == [kind |-> "multibinding_needs_no_allocation", type |-> i, deps |-> {c},
                 create |-> [fn |-> "multibinding", c |-> c, i |-> i]]
           y == [kind |-> "multibinding_needs_allocation", type |-> c, deps |-> deps,
                 create |-> [fn |-> "multibinding_provider", c |-> c, i |-> c]]
           v == MultibindingVectorCreator(i)
           w == MultibindingVectorCreator(c)
<1>1. x.kind # "lazy" /\ y.kind # "lazy" /\ v.kind # "lazy" /\ w.kind # "lazy"
  BY DEF MultibindingVectorCreator
<1>2. ~IsMade(x) /\ ~IsMade(y) /\ ~IsMade(v) /\ ~IsMade(w)
  BY DEF MultibindingVectorCreator, IsMade, BindingKind
<1>3. AddMultibinding(i, c) = <<x, v>> /\ AddMultibindingProvider(c, deps) = <<y, w>>
  BY DEF AddMultibinding, AddMultibindingProvider
<1> HIDE DEF x, y, v, w
<1> QED BY <1>1, <1>2, <1>3, TwoEntries

LEMMA KeepsInterfaceMultibinding ==
  ASSUME Inv, AddInterfaceMultibinding
  PROVE  Keeps
<1> DEFINE b == Called
           r == AddRequirements(comp, <<b.c>>, {b.c})
           use == {[type |-> b.c, nonConst |-> TRUE]}
           pushed == AddMultibinding(b.i, b.c)
<1>1. Calling("AddInterfaceMultibinding")
  BY DEF AddInterfaceMultibinding
<1>2. Called.f = "AddInterfaceMultibinding" /\ FunctorOK(Called) /\ CompOK(comp)
  BY <1>1, CalledFunctor
<1>3. status = "binding"
  BY <1>1, OnlyWhileBinding
<1>4. PICK q : /\ Keeps \/ (~IsError(q) /\ Makes(q, <<>>, pushed, 2, use))
               /\ ~IsError(q) => q = r
  <2> DEFINE q == IF ~IsBaseOf(b.i.class, b.c.class) THEN ConstructError("NotABaseClassOf", b.i)
                  ELSE r
  <2>1. Op(q, pushed, 2, use, {})
    BY DEF AddInterfaceMultibinding, Called
  <2>2. ~IsError(q) => q = r
    BY Errors
  <2> HIDE DEF q, pushed, use
  <2> QED BY <1>1, <2>1, <2>2, OpMakes
<1>5. SUFFICES ASSUME ~IsError(r)
               PROVE  StepOK(r, <<>>, pushed, 2, use)
  BY <1>4 DEF Keeps
<1>6. Required(comp, {b.c}, {b.c}, r)
  <2>1. b.c \in GraphType
    BY <1>2, ObjectTypes DEF FunctorOK
  <2>2. <<b.c>> \in Seq(GraphType) /\ Range(<<b.c>>) = {b.c}
    BY <2>1, OneRequirement
  <2>3. Requiring(comp, <<b.c>>, {b.c}, r)
    BY <1>2, <1>5, <2>2 DEF Requiring
  <2> QED BY <2>2, <2>3, NewRequirements
<1> HIDE DEF r
<1>7. CompOK(r) /\ Extends(comp, r) /\ SameBinds(comp, r) /\ b.c \in r.NonConstRsPs
  BY <1>6 DEF Required
<1>8. \A u \in use : u.nonConst => u.type \in r.NonConstRsPs
  BY <1>7
<1>9. Called.f \notin PreProcess /\ ToInstall(Called) = {}
  BY <1>2 DEF PreProcess, ToInstall
<1>10. /\ IsSequence(pushed) /\ 2 = Len(pushed)
       /\ \A e \in Range(pushed) : e.kind # "lazy" /\ ~IsMade(e)
  BY MultibindingEntries
<1> HIDE DEF use, pushed
<1> QED BY <1>3, <1>7, <1>8, <1>9, <1>10, BindingStep

(* The arguments of a constructor or a provider that is registered.             *)
LEMMA RegisteredArguments ==
  ASSUME NEW sig \in Signature, NEW args, args = sig.args, args \in Seq(InjectedArg),
         NEW c, CompOK(c), NEW r, ~IsError(r)
  PROVE  /\ r = AddProvidedType(c, sig.result, TRUE, NormalizeTypeVector(args),
                                NormalizedNonConstTypesIn(args)) =>
              Provided(c, sig.result, TRUE, Range(NormalizeTypeVector(args)),
                       NormalizedNonConstTypesIn(args), r)
         /\ r = AddRequirements(c, NormalizeTypeVector(args), NormalizedNonConstTypesIn(args)) =>
              Required(c, Range(NormalizeTypeVector(args)), NormalizedNonConstTypesIn(args), r)
<1> DEFINE reqs == NormalizeTypeVector(args)
           non == NormalizedNonConstTypesIn(args)
           t == sig.result
<1>1. reqs \in Seq(GraphType) /\ non \subseteq Range(reqs) /\ t \in GraphType
  BY ArgumentTypes DEF Signature
<1> HIDE DEF reqs, non, t
<1>2. ASSUME r = AddProvidedType(c, t, TRUE, reqs, non)
      PROVE  Provided(c, t, TRUE, Range(reqs), non, r)
  <2>1. r = AddProvidedTypeIgnoringInterfaceBindings(c, t, TRUE, reqs, non)
    BY <1>2, Errors DEF AddProvidedType
  <2>2. Providing(c, t, TRUE, reqs, non, r)
    BY <1>1, <2>1 DEF Providing
  <2> QED BY <2>2, NewProvidedType
<1>3. ASSUME r = AddRequirements(c, reqs, non)
      PROVE  Required(c, Range(reqs), non, r)
  <2>1. Requiring(c, reqs, non, r)
    BY <1>1, <1>3 DEF Requiring
  <2> QED BY <2>1, NewRequirements
<1> QED BY <1>2, <1>3 DEF reqs, non, t

LEMMA UsedArguments ==
  ASSUME NEW args, NEW c, NormalizedNonConstTypesIn(args) \subseteq c.NonConstRsPs
  PROVE  \A u \in UsesOf(args) : u.nonConst => u.type \in c.NonConstRsPs
BY DEF UsesOf, NormalizedNonConstTypesIn

LEMMA KeepsMultibindingProvider ==
  ASSUME Inv, RegisterMultibindingProvider
  PROVE  Keeps
<1> DEFINE sig == Called.sig
           r == AddRequirements(comp, NormalizeTypeVector(sig.args),
                                NormalizedNonConstTypesIn(sig.args))
           use == UsesOf(sig.args)
           pushed == AddMultibindingProvider(sig.result, Range(NormalizeTypeVector(sig.args)))
<1>1. Calling("RegisterMultibindingProvider")
  BY DEF RegisterMultibindingProvider
<1>2. Called.f = "RegisterMultibindingProvider" /\ FunctorOK(Called) /\ CompOK(comp)
  BY <1>1, CalledFunctor
<1>3. status = "binding"
  BY <1>1, OnlyWhileBinding
<1>4. PICK q : /\ Keeps \/ (~IsError(q) /\ Makes(q, <<>>, pushed, 2, use))
               /\ ~IsError(q) => q = r /\ sig.wellFormed
  <2> DEFINE q == IF sig.returns = "value" /\ IsAbstract(sig.result.class)
                    THEN ConstructError("CannotConstructAbstractClass", sig.result)
                  ELSE IF ~IsWellFormed(sig)
                    THEN ConstructError("AnnotatedSignatureDifferentFromLambdaSignature", sig.result)
                  ELSE IF PointerToUndestructible(sig)
                    THEN ConstructError("MultibindingProviderReturningPointerToAbstractClassWithNoVirtualDestructor",
                                        sig.result)
                  ELSE r
  <2>1. Op(q, pushed, 2, use, {})
    BY DEF RegisterMultibindingProvider, Called
  <2>2. ~IsError(q) => q = r /\ sig.wellFormed
    BY Errors DEF IsWellFormed
  <2> HIDE DEF q, pushed, use
  <2> QED BY <1>1, <2>1, <2>2, OpMakes
<1>5. SUFFICES ASSUME ~IsError(r), sig.wellFormed
               PROVE  StepOK(r, <<>>, pushed, 2, use)
  BY <1>4 DEF Keeps
<1>6. sig \in Signature /\ sig.args \in Seq(InjectedArg)
  BY <1>2, <1>5 DEF FunctorOK, ProviderSignature
<1>7. Required(comp, Range(NormalizeTypeVector(sig.args)), NormalizedNonConstTypesIn(sig.args), r)
  BY <1>2, <1>5, <1>6, RegisteredArguments
<1> HIDE DEF r
<1>8. /\ CompOK(r) /\ Extends(comp, r) /\ SameBinds(comp, r)
      /\ NormalizedNonConstTypesIn(sig.args) \subseteq r.NonConstRsPs
  BY <1>7 DEF Required
<1>9. \A u \in use : u.nonConst => u.type \in r.NonConstRsPs
  BY <1>8, UsedArguments
<1>10. Called.f \notin PreProcess /\ ToInstall(Called) = {}
  BY <1>2 DEF PreProcess, ToInstall
<1>11. /\ IsSequence(pushed) /\ 2 = Len(pushed)
       /\ \A e \in Range(pushed) : e.kind # "lazy" /\ ~IsMade(e)
  BY MultibindingEntries
<1> HIDE DEF use, pushed
<1> QED BY <1>3, <1>8, <1>9, <1>10, <1>11, BindingStep

LEMMA KeepsInstance ==
  ASSUME Inv, RegisterInstance
  PROVE  Keeps
<1> DEFINE b == Called
           isNonConst == b.kind = "BindInstance"
           r == AddProvidedType(comp, b.type, isNonConst, <<>>, {})
<1>1. Calling("RegisterInstance")
  BY DEF RegisterInstance
<1>2. Called.f = "RegisterInstance" /\ FunctorOK(Called) /\ CompOK(comp)
  BY <1>1, CalledFunctor
<1>3. status = "binding"
  BY <1>1, OnlyWhileBinding
<1>4. Keeps \/ (~IsError(r) /\ Makes(r, <<>>, <<>>, 0, {}))
  <2>1. Op(r, <<>>, 0, {}, IF isNonConst THEN {} ELSE {b.type})
    BY DEF RegisterInstance, Called
  <2> HIDE DEF r
  <2> QED BY <1>1, <2>1, OpMakes
<1>5. SUFFICES ASSUME ~IsError(r)
               PROVE  StepOK(r, <<>>, <<>>, 0, {})
  BY <1>4 DEF Keeps
<1>6. r = AddProvidedTypeIgnoringInterfaceBindings(comp, b.type, isNonConst, <<>>, {})
  BY <1>5, Errors DEF AddProvidedType
<1>7. b.type \in GraphType
  BY <1>2 DEF FunctorOK
<1>8. <<>> \in Seq(GraphType) /\ {} \subseteq Range(<<>>)
  OBVIOUS
<1> HIDE DEF r, isNonConst
<1>9. Providing(comp, b.type, isNonConst, <<>>, {}, r)
  BY <1>2, <1>5, <1>6, <1>7, <1>8 DEF Providing
<1>10. CompOK(r) /\ Extends(comp, r) /\ SameBinds(comp, r)
  BY <1>9, NewProvidedType DEF Provided
<1>11. Called.f \notin PreProcess /\ ToInstall(Called) = {}
  BY <1>2 DEF PreProcess, ToInstall
<1> QED BY <1>3, <1>10, <1>11, Empty, BindingStep

-----------------------------------------------------------------------------
(* The constructors and the providers that are deferred.                        *)
LEMMA DeferredFunctors ==
  ASSUME Inv, NEW f, Calling(f), f \in {"DeferredRegisterConstructor", "DeferredRegisterProvider"},
         NEW x, x \in DeferredFunctor, NEW y, FunctorOK(y), y.f \in PreProcess, y.sig = x.sig,
         ComposeFunctors(AddDeferredBinding(comp, x), <<y>>)
  PROVE  Keeps
<1> DEFINE r == AddDeferredBinding(comp, x)
           fs == <<y>>
<1>1. Called.f = f /\ CompOK(comp) /\ comp \in CompRecord
  BY CalledFunctor
<1>2. status = "binding"
  BY OnlyWhileBinding
<1>3. Makes(r, fs, <<>>, 0, {})
  BY ComposeMakes
<1>4. r \in CompRecord
  <2> DEFINE new == <<x>> \o comp.DeferredBindingFunctors
  <2>1. comp.DeferredBindingFunctors \in Seq(DeferredFunctor)
    BY <1>1, CompFields
  <2>2. new \in Seq(DeferredFunctor)
    BY <2>1
  <2>3. r = [comp EXCEPT !.DeferredBindingFunctors = new]
    BY DEF AddDeferredBinding
  <2> HIDE DEF r, new
  <2> QED BY <1>1, <2>2, <2>3 DEF CompRecord
<1>5. /\ r.RsSuperset = comp.RsSuperset /\ r.Ps = comp.Ps /\ r.Deps = comp.Deps
      /\ r.NonConstRsPs = comp.NonConstRsPs /\ r.InterfaceBindings = comp.InterfaceBindings
      /\ r.DeferredBindingFunctors = <<x>> \o comp.DeferredBindingFunctors
  BY <1>1 DEF CompRecord, AddDeferredBinding
<1>6. Range(r.DeferredBindingFunctors) = {x} \cup Range(comp.DeferredBindingFunctors)
  <2>1. IsSequence(<<x>>) /\ IsSequence(comp.DeferredBindingFunctors) /\ Range(<<x>>) = {x}
    BY <1>1, CompFields, Singleton
  <2>2. IsJoin(r.DeferredBindingFunctors, <<x>>, comp.DeferredBindingFunctors)
    BY <1>5, <2>1, Joined
  <2> QED BY <2>1, <2>2 DEF IsJoin
<1> HIDE DEF r
<1>7. CompStep(r)
  BY <1>1, <1>4, <1>5 DEF CompStep, CompOK, Extends, ConstPs
<1>8. IsSequence(fs) /\ Range(fs) = {y} /\ DOMAIN fs = {1} /\ fs[1] = y
  BY Singleton
<1> HIDE DEF fs
<1>9. y.f \in BindingFunctor
  BY DEF BindingFunctor
<1>10. Called.f \notin PreProcess \cup PostProcess /\ ToInstall(Called) = {}
  BY <1>1 DEF PreProcess, PostProcess, ToInstall
<1>11. TypeStep(fs, <<>>, 0)
  BY <1>2, <1>8, <1>9, <1>10, Empty DEF TypeStep
<1>12. ConstStep(r, fs, <<>>, {})
  <2>1. y.f \notin PostProcess
    BY DEF PreProcess, PostProcess
  <2>2. \A z \in Range(r.DeferredBindingFunctors) :
          \/ z \in Range(comp.DeferredBindingFunctors)
          \/ \E j \in DOMAIN fs : fs[j].f \in PreProcess /\ fs[j].sig = z.sig
    BY <1>6, <1>8
  <2> QED BY <1>8, <1>10, <2>1, <2>2, Empty DEF ConstStep
<1>13. CompressibleStep(r, <<>>)
  BY <1>5, NothingPushed
<1>14. StepOK(r, fs, <<>>, 0, {})
  BY <1>2, <1>7, <1>11, <1>12, <1>13 DEF StepOK
<1> QED BY <1>3, <1>14 DEF Keeps

LEMMA KeepsDeferred ==
  ASSUME Inv, DeferredRegisterConstructor \/ DeferredRegisterProvider
  PROVE  Keeps
<1> DEFINE sig == Called.sig
<1>1. CASE DeferredRegisterConstructor
  <2> DEFINE x == Functor("PostProcessRegisterConstructor", sig)
             y == Functor("PreProcessRegisterConstructor", sig)
  <2>1. /\ Calling("DeferredRegisterConstructor")
        /\ ComposeFunctors(AddDeferredBinding(comp, x), <<y>>)
    BY <1>1 DEF DeferredRegisterConstructor, Called
  <2>2. Called.f = "DeferredRegisterConstructor" /\ FunctorOK(Called)
    BY <2>1, CalledFunctor
  <2>3. sig \in Signature
    BY <2>2 DEF FunctorOK
  <2>4. x \in DeferredFunctor /\ x.sig = sig
    BY <2>3 DEF DeferredFunctor, Functor
  <2>5. y.f = "PreProcessRegisterConstructor" /\ y.sig = sig
    BY DEF Functor
  <2> HIDE DEF x, y
  <2>6. FunctorOK(y) /\ y.f \in PreProcess
    BY <2>3, <2>5 DEF FunctorOK, PreProcess, PostProcess
  <2> QED BY <2>1, <2>4, <2>5, <2>6, DeferredFunctors
<1>2. CASE DeferredRegisterProvider
  <2> DEFINE x == Functor("PostProcessRegisterProvider", sig)
             y == Functor("PreProcessRegisterProvider", sig)
  <2>1. /\ Calling("DeferredRegisterProvider")
        /\ ComposeFunctors(AddDeferredBinding(comp, x), <<y>>)
    BY <1>2 DEF DeferredRegisterProvider, Called
  <2>2. Called.f = "DeferredRegisterProvider" /\ FunctorOK(Called)
    BY <2>1, CalledFunctor
  <2>3. sig \in Signature /\ sig \in ProviderSignature
    BY <2>2 DEF FunctorOK
  <2>4. x \in DeferredFunctor /\ x.sig = sig
    BY <2>3 DEF DeferredFunctor, Functor
  <2>5. y.f = "PreProcessRegisterProvider" /\ y.sig = sig
    BY DEF Functor
  <2> HIDE DEF x, y
  <2>6. FunctorOK(y) /\ y.f \in PreProcess
    BY <2>3, <2>5 DEF FunctorOK, PreProcess, PostProcess
  <2> QED BY <2>1, <2>4, <2>5, <2>6, DeferredFunctors
<1> QED BY <1>1, <1>2

(* A constructor or a provider provides its type.                               *)
LEMMA ProcessedSignature ==
  ASSUME Inv, NEW f \in PreProcess, Calling(f), NEW sig, sig = Called.sig,
         sig.args \in Seq(InjectedArg), NEW r, ~IsError(r), Makes(r, <<>>, <<>>, 0, {}),
         r = AddProvidedType(comp, sig.result, TRUE, NormalizeTypeVector(sig.args),
                             NormalizedNonConstTypesIn(sig.args))
  PROVE  Keeps
<1>1. Called.f = f /\ FunctorOK(Called) /\ CompOK(comp)
  BY CalledFunctor
<1>2. sig \in Signature
  BY <1>1 DEF FunctorOK
<1>3. Provided(comp, sig.result, TRUE, Range(NormalizeTypeVector(sig.args)),
               NormalizedNonConstTypesIn(sig.args), r)
  BY <1>1, <1>2, RegisteredArguments
<1>4. /\ CompOK(r) /\ Extends(comp, r) /\ SameBinds(comp, r)
      /\ r.Ps = comp.Ps \cup {sig.result}
      /\ r.RsSuperset = comp.RsSuperset \cup Range(NormalizeTypeVector(sig.args))
      /\ r.NonConstRsPs = comp.NonConstRsPs \cup NormalizedNonConstTypesIn(sig.args) \cup {sig.result}
  BY <1>3 DEF Provided, IfNonConst
<1>5. CompStep(r) /\ Processed(Called.sig, r)
  BY <1>4 DEF CompStep, Processed
<1>6. /\ Needs(Called) = Range(NormalizeTypeVector(sig.args))
      /\ NonConstNeeds(Called) = NormalizedNonConstTypesIn(sig.args)
  <2>1. /\ Range(NormalizeTypeVector(RemoveAssisted(sig.args))) = Range(NormalizeTypeVector(sig.args))
        /\ NormalizedNonConstTypesIn(RemoveAssisted(sig.args)) = NormalizedNonConstTypesIn(sig.args)
    BY NothingAssisted, SameArgumentTypes
  <2>2. /\ Needs(Called) = Range(NormalizeTypeVector(RemoveAssisted(sig.args)))
        /\ NonConstNeeds(Called) = NormalizedNonConstTypesIn(RemoveAssisted(sig.args))
    BY <1>1 DEF Needs, NonConstNeeds, InjectedArgs, PreProcess
  <2> QED BY <2>1, <2>2
<1>7. \A t, nonConst : Ensures(Called, t, nonConst) => t = sig.result
  BY <1>1 DEF Ensures, PreProcess
<1>8. /\ \A t, nonConst : Ensures(Called, t, nonConst) =>
            t \in r.Ps \/ InTargetRequirements(t, nonConst)
      /\ \A t \in Target.Ps : Ensures(Called, t, TRUE) => t \in r.NonConstRsPs
      /\ r.RsSuperset \subseteq comp.RsSuperset \cup Needs(Called)
      /\ r.NonConstRsPs \subseteq comp.NonConstRsPs \cup NonConstNeeds(Called) \cup r.Ps
  BY <1>4, <1>6, <1>7
<1>9. ToInstall(Called) = {}
  BY <1>1 DEF ToInstall, PreProcess
<1>10. /\ CompressibleStep(r, <<>>)
       /\ IsSequence(<<>>) /\ Len(<<>>) = 0 /\ \A e \in Range(<<>>) : e.kind # "lazy"
  BY <1>4, NothingPushed DEF SameBinds
<1>11. Range(r.DeferredBindingFunctors) \subseteq Range(comp.DeferredBindingFunctors)
  BY <1>4 DEF SameBinds
<1>12. StepOK(r, <<>>, <<>>, 0, {})
  BY <1>5, <1>8, <1>9, <1>10, <1>11, LastFunctor
<1> QED BY <1>12 DEF Keeps

LEMMA KeepsPreProcessed ==
  ASSUME Inv, PreProcessRegisterConstructor \/ PreProcessRegisterProvider
  PROVE  Keeps
<1> DEFINE sig == Called.sig
           r == AddProvidedType(comp, sig.result, TRUE, NormalizeTypeVector(sig.args),
                                NormalizedNonConstTypesIn(sig.args))
<1>1. CASE PreProcessRegisterConstructor
  <2> DEFINE q == IF \E k \in DOMAIN sig.args : IsAssisted(sig.args[k])
                    THEN ConstructError("AssistedParamInRegisterConstructorSignature", sig.result)
                  ELSE IF IsAbstract(sig.result.class)
                    THEN ConstructError("CannotConstructAbstractClass", sig.result)
                  ELSE IF ~IsWellFormed(sig)
                    THEN ConstructError("NoConstructorMatchingInjectSignature", sig.result)
                  ELSE r
  <2>1. Calling("PreProcessRegisterConstructor") /\ Op(q, <<>>, 0, {}, {})
    BY <1>1 DEF PreProcessRegisterConstructor, Called
  <2>2. ~IsError(q) => q = r /\ ~\E k \in DOMAIN sig.args : IsAssisted(sig.args[k])
    BY Errors
  <2> HIDE DEF q
  <2>3. Keeps \/ (~IsError(q) /\ Makes(q, <<>>, <<>>, 0, {}))
    BY <2>1, OpMakes
  <2>4. Called.f = "PreProcessRegisterConstructor" /\ FunctorOK(Called)
    BY <2>1, CalledFunctor
  <2>5. sig.args \in Seq(InjectedArg \cup AssistedArg)
    BY <2>4 DEF FunctorOK, PreProcess, Signature
  <2>6. ~IsError(q) => sig.args \in Seq(InjectedArg)
    BY <2>2, <2>5, NoAssistedArgument
  <2>7. "PreProcessRegisterConstructor" \in PreProcess
    BY DEF PreProcess
  <2> HIDE DEF r
  <2>8. r = AddProvidedType(comp, sig.result, TRUE, NormalizeTypeVector(sig.args),
                            NormalizedNonConstTypesIn(sig.args))
    BY DEF r
  <2> QED BY <2>1, <2>2, <2>3, <2>6, <2>7, <2>8, ProcessedSignature
<1>2. CASE PreProcessRegisterProvider
  <2> DEFINE q == IF ~IsWellFormed(sig)
                    THEN ConstructError("AnnotatedSignatureDifferentFromLambdaSignature", sig.result)
                  ELSE IF PointerToUndestructible(sig)
                    THEN ConstructError("ProviderReturningPointerToAbstractClassWithNoVirtualDestructor",
                                        sig.result)
                  ELSE r
  <2>1. Calling("PreProcessRegisterProvider") /\ Op(q, <<>>, 0, {}, {})
    BY <1>2 DEF PreProcessRegisterProvider, Called
  <2>2. ~IsError(q) => q = r /\ sig.wellFormed
    BY Errors DEF IsWellFormed
  <2> HIDE DEF q
  <2>3. Keeps \/ (~IsError(q) /\ Makes(q, <<>>, <<>>, 0, {}))
    BY <2>1, OpMakes
  <2>4. Called.f = "PreProcessRegisterProvider" /\ FunctorOK(Called)
    BY <2>1, CalledFunctor
  <2>5. ~IsError(q) => sig.args \in Seq(InjectedArg)
    BY <2>2, <2>4 DEF FunctorOK, ProviderSignature
  <2>7. "PreProcessRegisterProvider" \in PreProcess
    BY DEF PreProcess
  <2> HIDE DEF r
  <2>8. r = AddProvidedType(comp, sig.result, TRUE, NormalizeTypeVector(sig.args),
                            NormalizedNonConstTypesIn(sig.args))
    BY DEF r
  <2> QED BY <2>1, <2>2, <2>3, <2>5, <2>7, <2>8, ProcessedSignature
<1> QED BY <1>1, <1>2

-----------------------------------------------------------------------------
(* The entries of a constructor or a provider.                                  *)
LEMMA EntryIsMade ==
  ASSUME NEW e, NEW i, NEW p
  PROVE  /\ IsSequence(<<e>>) /\ Len(<<e>>) = 1 /\ IsSequence(<<p, e>>) /\ Len(<<p, e>>) = 2
         /\ (~IsImplementation(e.type) => MadeWithCompressed(<<e>>))
         /\ (p.kind = "compressed" /\ p.c_type = e.type => MadeWithCompressed(<<p, e>>))
         /\ (e.kind # "lazy" => \A x \in Range(<<e>>) : x.kind # "lazy")
         /\ (e.kind # "lazy" /\ p.kind = "compressed" => \A x \in Range(<<p, e>>) : x.kind # "lazy")
<1>1. /\ IsSequence(<<e>>) /\ Len(<<e>>) = 1 /\ Range(<<e>>) = {e} /\ DOMAIN <<e>> = {1}
      /\ <<e>>[1] = e
  BY Singleton
<1>2. /\ IsSequence(<<p, e>>) /\ Len(<<p, e>>) = 2 /\ Range(<<p, e>>) = {p, e}
      /\ DOMAIN <<p, e>> = {1, 2} /\ <<p, e>>[1] = p /\ <<p, e>>[2] = e
  BY Pair
<1>3. p.kind = "compressed" => ~IsMade(p) /\ p.kind # "lazy"
  BY DEF IsMade, BindingKind
<1>4. ~IsImplementation(e.type) => MadeWithCompressed(<<e>>)
  BY <1>1 DEF MadeWithCompressed
<1>5. p.kind = "compressed" /\ p.c_type = e.type => MadeWithCompressed(<<p, e>>)
  <2> DEFINE s == <<p, e>>
  <2> SUFFICES ASSUME p.kind = "compressed", p.c_type = e.type,
                      NEW k \in DOMAIN s, IsMade(s[k])
               PROVE  k > 1 /\ s[k - 1].kind = "compressed" /\ s[k - 1].c_type = s[k].type
    BY DEF MadeWithCompressed
  <2>1. DOMAIN s = {1, 2} /\ s[1] = p /\ s[2] = e
    BY <1>2
  <2> HIDE DEF s
  <2>2. k = 2
    BY <1>3, <2>1
  <2> QED BY <2>1, <2>2
<1> QED BY <1>1, <1>2, <1>3, <1>4, <1>5

LEMMA ValueFound ==
  ASSUME NEW t
  PROVE  /\ FindValueInMap(comp.InterfaceBindings, t) = {} => ~IsImplementation(t)
BY DEF FindValueInMap, IsImplementation

(* What was deferred is called when its requirements are there.                 *)
LEMMA PostProcessed ==
  ASSUME Inv, NEW f \in PostProcess, Calling(f), NEW sig, sig = Called.sig,
         NEW pushed, NEW num, IsSequence(pushed), num = Len(pushed),
         MadeWithCompressed(pushed), \A e \in Range(pushed) : e.kind # "lazy",
         CallOp(comp, pushed, num, UsesOf(sig.args), {})
  PROVE  Keeps
<1>1. /\ Called.f = f /\ CompOK(comp) /\ CompStep(comp) /\ 1 \in DOMAIN agenda
      /\ Called = agenda[1] /\ status \in {"binding", "converting"}
      /\ status = "binding" => f \in BindingFunctor
  BY CalledFunctor
<1>2. status = "converting"
  BY <1>1 DEF BindingFunctor, PreProcess, PostProcess
<1>3. Makes(comp, <<>>, pushed, num, UsesOf(sig.args))
  BY CallOpMakes
<1>4. Processed(sig, comp)
  <2>1. Processed(sig, comp) \/ \E j \in 1 .. 1 - 1 : WillProcess(agenda, j, sig)
    BY <1>1 DEF Inv, ConstInv
  <2> QED BY <2>1
<1>5. \A u \in UsesOf(sig.args) : u.nonConst => u.type \in comp.NonConstRsPs
  BY <1>4, UsedArguments DEF Processed
<1>6. f \notin PreProcess /\ ToInstall(Called) = {}
  BY <1>1 DEF PreProcess, PostProcess, ToInstall
<1>7. \A t, nonConst : ~Ensures(Called, t, nonConst)
  BY <1>1, <1>6 DEF Ensures, PostProcess
<1>8. CompressibleStep(comp, pushed)
  BY <1>2 DEF CompressibleStep
<1>9. StepOK(comp, <<>>, pushed, num, UsesOf(sig.args))
  BY <1>1, <1>5, <1>6, <1>7, <1>8, LastFunctor
<1> QED BY <1>3, <1>9 DEF Keeps

LEMMA KeepsPostProcessed ==
  ASSUME Inv, PostProcessRegisterConstructor \/ PostProcessRegisterProvider
  PROVE  Keeps
<1> DEFINE sig == Called.sig
           deps == Range(NormalizeTypeVector(sig.args))
           found == FindValueInMap(comp.InterfaceBindings, sig.result)
<1>1. CASE PostProcessRegisterConstructor
  <2> DEFINE e == Constructor(sig.result, deps)
  <2>1. Calling("PostProcessRegisterConstructor")
    BY <1>1 DEF PostProcessRegisterConstructor
  <2>2. \/ found = {} /\ CallOp(comp, <<e>>, 1, UsesOf(sig.args), {})
        \/ \E i \in found : CallOp(comp, CompressibleConstructor(i, sig.result, deps), 2, UsesOf(sig.args), {})
    BY <1>1 DEF PostProcessRegisterConstructor, Called, RegisterConstructor
  <2>3. e.type = sig.result /\ e.kind # "lazy"
    BY DEF Constructor
  <2>4. "PostProcessRegisterConstructor" \in PostProcess
    BY DEF PostProcess
  <2> HIDE DEF e
  <2>5. CASE found = {} /\ CallOp(comp, <<e>>, 1, UsesOf(sig.args), {})
    <3>1. ~IsImplementation(e.type)
      BY <2>3, <2>5, ValueFound
    <3>2. /\ IsSequence(<<e>>) /\ 1 = Len(<<e>>) /\ MadeWithCompressed(<<e>>)
          /\ \A x \in Range(<<e>>) : x.kind # "lazy"
      BY <2>3, <3>1, EntryIsMade
    <3> QED BY <2>1, <2>4, <2>5, <3>2, PostProcessed
  <2>6. ASSUME NEW i \in found,
               CallOp(comp, CompressibleConstructor(i, sig.result, deps), 2, UsesOf(sig.args), {})
        PROVE  Keeps
    <3> DEFINE p == [kind |-> "compressed", type |-> i, c_type |-> sig.result,
                     create |-> [fn |-> "compressed_constructor", c |-> sig.result, i |-> i]]
    <3>1. CompressibleConstructor(i, sig.result, deps) = <<p, e>>
      BY DEF CompressibleConstructor, e
    <3>2. p.kind = "compressed" /\ p.c_type = e.type
      BY <2>3
    <3> HIDE DEF p
    <3>3. /\ IsSequence(<<p, e>>) /\ 2 = Len(<<p, e>>) /\ MadeWithCompressed(<<p, e>>)
          /\ \A x \in Range(<<p, e>>) : x.kind # "lazy"
      BY <2>3, <3>2, EntryIsMade
    <3> QED BY <2>1, <2>4, <2>6, <3>1, <3>3, PostProcessed
  <2> QED BY <2>2, <2>5, <2>6
<1>2. CASE PostProcessRegisterProvider
  <2> DEFINE e == ProviderEntry(sig)
  <2>1. Calling("PostProcessRegisterProvider")
    BY <1>2 DEF PostProcessRegisterProvider
  <2>2. \/ found = {} /\ CallOp(comp, <<e>>, 1, UsesOf(sig.args), {})
        \/ \E i \in found : CallOp(comp, <<CompressedProviderEntry(i, sig), e>>, 2, UsesOf(sig.args), {})
    BY <1>2 DEF PostProcessRegisterProvider, Called
  <2>3. e.type = sig.result /\ e.kind # "lazy"
    BY DEF ProviderEntry, Provider
  <2>4. "PostProcessRegisterProvider" \in PostProcess
    BY DEF PostProcess
  <2> HIDE DEF e
  <2>5. CASE found = {} /\ CallOp(comp, <<e>>, 1, UsesOf(sig.args), {})
    <3>1. ~IsImplementation(e.type)
      BY <2>3, <2>5, ValueFound
    <3>2. /\ IsSequence(<<e>>) /\ 1 = Len(<<e>>) /\ MadeWithCompressed(<<e>>)
          /\ \A x \in Range(<<e>>) : x.kind # "lazy"
      BY <2>3, <3>1, EntryIsMade
    <3> QED BY <2>1, <2>4, <2>5, <3>2, PostProcessed
  <2>6. ASSUME NEW i \in found,
               CallOp(comp, <<CompressedProviderEntry(i, sig), e>>, 2, UsesOf(sig.args), {})
        PROVE  Keeps
    <3> DEFINE p == CompressedProviderEntry(i, sig)
    <3>2. p.kind = "compressed" /\ p.c_type = e.type
      <4> DEFINE x == [kind |-> "compressed", type |-> i, c_type |-> sig.result,
                       create |-> [fn |-> "compressed_provider", c |-> sig.result, i |-> i]]
                 y == Provider("provider", sig.result, {})
      <4>1. CompressedProviderEntry(i, sig) = <<x, y>>[1]
        BY DEF CompressedProviderEntry, CompressibleProvider
      <4>2. x.kind = "compressed" /\ x.c_type = sig.result
        OBVIOUS
      <4> HIDE DEF x, y
      <4> QED BY <2>3, <4>1, <4>2, Pair
    <3> HIDE DEF p
    <3>3. /\ IsSequence(<<p, e>>) /\ 2 = Len(<<p, e>>) /\ MadeWithCompressed(<<p, e>>)
          /\ \A x \in Range(<<p, e>>) : x.kind # "lazy"
      BY <2>3, <3>2, EntryIsMade
    <3>4. CallOp(comp, <<p, e>>, 2, UsesOf(sig.args), {})
      BY <2>6 DEF p
    <3> QED BY <2>1, <2>4, <3>3, <3>4, PostProcessed
  <2> QED BY <2>2, <2>5, <2>6
<1> QED BY <1>1, <1>2

-----------------------------------------------------------------------------
(* Factories.                                                                   *)
LEMMA KeepsFactory ==
  ASSUME Inv, RegisterFactory
  PROVE  Keeps
<1> DEFINE sig == Called.sig
           args == RemoveAssisted(sig.args)
           t == FunctorType(sig)
           r == AddProvidedType(comp, t, TRUE, NormalizeTypeVector(args),
                                NormalizedNonConstTypesIn(args))
           use == UsesOf(args)
           e == ProviderEntry([sig EXCEPT !.result = t, !.returns = "value", !.args = args])
<1>1. Calling("RegisterFactory")
  BY DEF RegisterFactory
<1>2. Called.f = "RegisterFactory" /\ FunctorOK(Called) /\ CompOK(comp)
      /\ status \in {"binding", "converting"}
  BY <1>1, CalledFunctor
<1>3. sig \in Signature
  BY <1>2 DEF FunctorOK
<1>4. PICK q : /\ Keeps \/ (~IsError(q) /\ Makes(q, <<>>, <<e>>, 1, use))
               /\ ~IsError(q) => q = r
  <2> DEFINE q == IF sig.returns = "value" /\ IsAbstract(sig.result.class)
                    THEN ConstructError("CannotConstructAbstractClass", sig.result)
                  ELSE IF /\ sig.returns = "unique_ptr"
                          /\ IsAbstract(sig.result.class)
                          /\ ~HasVirtualDestructor(sig.result.class)
                    THEN ConstructError("RegisterFactoryForUniquePtrOfAbstractClassWithNoVirtualDestructor",
                                        sig.result)
                  ELSE IF ~IsWellFormed(sig) THEN ConstructError("FunctorSignatureDoesNotMatch", sig.result)
                  ELSE IF sig.returns = "pointer"
                    THEN ConstructError("FactoryReturningPointer", sig.result)
                  ELSE r
  <2>1. Op(q, <<e>>, 1, use, {})
    BY DEF RegisterFactory, Called
  <2>2. ~IsError(q) => q = r
    BY Errors
  <2> HIDE DEF q, e, use
  <2> QED BY <1>1, <2>1, <2>2, OpMakes
<1>5. SUFFICES ASSUME ~IsError(r)
               PROVE  StepOK(r, <<>>, <<e>>, 1, use)
  BY <1>4 DEF Keeps
<1>6. args \in Seq(InjectedArg) /\ t \in GraphType
  BY <1>3, InjectedArguments, FactoryTypes DEF Signature
<1>7. t.shape # "object"
  BY <1>3 DEF FunctorType, FactoryOf, Signature, GraphType
<1>8. e.type = t /\ e.kind # "lazy"
  BY <1>3 DEF ProviderEntry, Provider, Signature
<1>9. use = UsesOf(args)
  OBVIOUS
<1> HIDE DEF e, use, args
<1>10. Provided(comp, t, TRUE, Range(NormalizeTypeVector(args)), NormalizedNonConstTypesIn(args), r)
  <2> DEFINE reqs == NormalizeTypeVector(args)
             non == NormalizedNonConstTypesIn(args)
  <2>1. reqs \in Seq(GraphType) /\ non \subseteq Range(reqs)
    BY <1>6, ArgumentTypes
  <2>2. r = AddProvidedTypeIgnoringInterfaceBindings(comp, t, TRUE, reqs, non)
    BY <1>5, Errors DEF AddProvidedType
  <2> HIDE DEF r, reqs, non, t
  <2>3. Providing(comp, t, TRUE, reqs, non, r)
    BY <1>2, <1>5, <1>6, <2>1, <2>2 DEF Providing
  <2> QED BY <2>3, NewProvidedType DEF reqs, non
<1> HIDE DEF r
<1>11. /\ CompOK(r) /\ Extends(comp, r) /\ SameBinds(comp, r)
       /\ r.Ps = comp.Ps \cup {t}
       /\ r.RsSuperset = comp.RsSuperset \cup Range(NormalizeTypeVector(args))
       /\ r.NonConstRsPs = comp.NonConstRsPs \cup NormalizedNonConstTypesIn(args) \cup {t}
  BY <1>10 DEF Provided, IfNonConst
<1>12. CompStep(r)
  BY <1>11 DEF CompStep
<1>13. /\ Needs(Called) = Range(NormalizeTypeVector(args))
       /\ NonConstNeeds(Called) = NormalizedNonConstTypesIn(args)
       /\ Called.f \notin PreProcess /\ ToInstall(Called) = {}
  BY <1>2 DEF Needs, NonConstNeeds, InjectedArgs, PreProcess, ToInstall, args
<1>14. \A u, nonConst : Ensures(Called, u, nonConst) => u = t
  BY <1>2 DEF Ensures, PreProcess
<1>15. /\ \A u, nonConst : Ensures(Called, u, nonConst) =>
            u \in r.Ps \/ InTargetRequirements(u, nonConst)
       /\ \A u \in Target.Ps : Ensures(Called, u, TRUE) => u \in r.NonConstRsPs
       /\ r.RsSuperset \subseteq comp.RsSuperset \cup Needs(Called)
       /\ r.NonConstRsPs \subseteq comp.NonConstRsPs \cup NonConstNeeds(Called) \cup r.Ps
  BY <1>11, <1>13, <1>14
<1>16. \A u \in use : u.nonConst => u.type \in r.NonConstRsPs
  BY <1>9, <1>11, UsedArguments
<1>17. ~IsImplementation(e.type)
  <2>1. comp.InterfaceBindings \in Seq([i : ObjectType, c : ObjectType])
    BY <1>2, CompFields DEF CompOK
  <2>2. \A j \in DOMAIN comp.InterfaceBindings : comp.InterfaceBindings[j].c \in ObjectType
    <3> DEFINE S == [i : ObjectType, c : ObjectType]
               s == comp.InterfaceBindings
    <3>1. \A x \in S : x.c \in ObjectType
      OBVIOUS
    <3>2. s \in Seq(S)
      BY <2>1
    <3> HIDE DEF S, s
    <3>3. \A j \in DOMAIN s : s[j] \in S
      BY <3>2
    <3> QED BY <3>1, <3>3 DEF s
  <2> QED BY <1>7, <1>8, <2>2 DEF IsImplementation, ObjectType
<1>18. /\ IsSequence(<<e>>) /\ 1 = Len(<<e>>) /\ MadeWithCompressed(<<e>>)
       /\ \A x \in Range(<<e>>) : x.kind # "lazy"
  BY <1>8, <1>17, EntryIsMade
<1>19. CompressibleStep(r, <<e>>)
  <2>1. \A x \in Range(<<e>>) : x = e
    BY Singleton
  <2> QED BY <1>7, <1>8, <1>11, <1>18, <2>1 DEF CompressibleStep, SameBinds
<1>20. Range(r.DeferredBindingFunctors) \subseteq Range(comp.DeferredBindingFunctors)
  BY <1>11 DEF SameBinds
<1> QED BY <1>12, <1>13, <1>15, <1>16, <1>18, <1>19, <1>20, LastFunctor

-----------------------------------------------------------------------------
(* Installed components.                                                        *)
LEMMA KeepsInstall ==
  ASSUME Inv, InstallComponent
  PROVE  Keeps
<1> DEFINE d == Called.comp
           other == ConstructComponentImpl(built[d].declared)
           r == Installed(comp, other)
<1>1. Calling("InstallComponent")
  BY DEF InstallComponent
<1>2. Called.f = "InstallComponent" /\ FunctorOK(Called) /\ CompOK(comp)
  BY <1>1, CalledFunctor
<1>3. status = "binding"
  BY <1>1, OnlyWhileBinding
<1>4. Keeps \/ (~IsError(r) /\ Makes(r, <<>>, <<>>, 0, {}))
  <2>1. Op(r, <<>>, 0, {}, {})
    BY DEF InstallComponent, Called
  <2> HIDE DEF r
  <2> QED BY <1>1, <2>1, OpMakes
<1>5. SUFFICES ASSUME ~IsError(r)
               PROVE  StepOK(r, <<>>, <<>>, 0, {})
  BY <1>4 DEF Keeps
<1>6. d \in DOMAIN built /\ WellDeclared(built[d].declared)
  BY <1>2 DEF FunctorOK, Inv, TypeInv
<1>7. CompOK(other) /\ ConstTypesOf(built[d].declared.Ps) \subseteq ConstPs(other)
  BY <1>6, ConstructedComp
<1> HIDE DEF other
<1>8. CompOK(r) /\ Extends(comp, r) /\ SameBinds(comp, r) /\ ConstPs(other) \subseteq ConstPs(r)
  BY <1>2, <1>5, <1>7, Merging
<1> HIDE DEF r
<1>9. Called.f \notin PreProcess /\ ToInstall(Called) = {d}
  BY <1>2 DEF PreProcess, ToInstall
<1> QED BY <1>3, <1>7, <1>8, <1>9, Empty, BindingStep

LEMMA KeepsInstallEach ==
  ASSUME Inv, InstallEachComponent
  PROVE  Keeps
<1> DEFINE cs == Called.comps
           fs == [k \in DOMAIN cs |-> [f |-> "InstallComponent", comp |-> cs[k]]]
<1>1. Calling("InstallComponentFunctions") /\ ComposeFunctors(comp, fs)
  BY DEF InstallEachComponent, Called
<1>2. Called.f = "InstallComponentFunctions" /\ FunctorOK(Called) /\ CompStep(comp)
  BY <1>1, CalledFunctor
<1>3. status = "binding"
  BY <1>1, OnlyWhileBinding
<1>4. cs \in Seq(Component) /\ Range(cs) \subseteq DOMAIN built
  BY <1>2 DEF FunctorOK
<1>5. Len(cs) \in Nat /\ DOMAIN cs = 1 .. Len(cs) /\ \A k \in DOMAIN cs : cs[k] \in Range(cs)
  BY <1>4, SequenceOver, SequenceFacts
<1>6. IsSequence(fs) /\ DOMAIN fs = DOMAIN cs
  <2>1. DOMAIN fs = 1 .. Len(cs) /\ fs = [k \in 1 .. Len(cs) |-> fs[k]]
    BY <1>5
  <2> HIDE DEF fs
  <2>2. IsSequence(fs)
    BY <1>5, <2>1, FunctionIsSequence
  <2> QED BY <1>5, <2>1, <2>2
<1>7. \A k \in DOMAIN cs : fs[k].f = "InstallComponent" /\ fs[k].comp = cs[k]
  OBVIOUS
<1>8. Makes(comp, fs, <<>>, 0, {})
  BY <1>1, ComposeMakes
<1> HIDE DEF fs
<1>9. \A y \in Range(fs) : \E k \in DOMAIN cs : y = fs[k]
  BY <1>6 DEF Range
<1>10. ASSUME NEW y \in Range(fs)
       PROVE  y.f = "InstallComponent" /\ FunctorOK(y) /\ y.f \in BindingFunctor
  <2>1. PICK k \in DOMAIN cs : y = fs[k]
    BY <1>9
  <2>2. y.f = "InstallComponent" /\ y.comp \in DOMAIN built
    BY <1>4, <1>5, <1>7, <2>1
  <2> QED BY <2>2 DEF FunctorOK, BindingFunctor, PreProcess, PostProcess
<1>11. Called.f \notin PreProcess \cup PostProcess /\ ToInstall(Called) = Range(cs)
  BY <1>2 DEF PreProcess, PostProcess, ToInstall
<1>12. TypeStep(fs, <<>>, 0)
  BY <1>3, <1>6, <1>10, <1>11, Empty DEF TypeStep
<1>13. ConstStep(comp, fs, <<>>, {})
  <2>1. \A k \in DOMAIN fs : fs[k].f \notin PostProcess
    BY <1>6, <1>7 DEF PostProcess
  <2>2. ASSUME NEW d \in Range(cs)
        PROVE  \E y \in Range(fs) : d \in ToInstall(y)
    <3>1. PICK k \in DOMAIN cs : d = cs[k]
      BY DEF Range
    <3>2. fs[k] \in Range(fs) /\ d \in ToInstall(fs[k])
      BY <1>6, <1>7, <3>1, SequenceFacts DEF ToInstall
    <3> QED BY <3>2
  <2> QED BY <1>11, <2>1, <2>2, Empty DEF ConstStep
<1>14. CompressibleStep(comp, <<>>)
  BY NothingPushed
<1>15. StepOK(comp, fs, <<>>, 0, {})
  BY <1>2, <1>3, <1>12, <1>13, <1>14 DEF StepOK
<1> QED BY <1>8, <1>15 DEF Keeps

-----------------------------------------------------------------------------
(* What was deferred.                                                           *)
LEMMA KeepsProcessDeferred ==
  ASSUME Inv, ProcessDeferredBindings
  PROVE  Keeps
<1> DEFINE r == [comp EXCEPT !.DeferredBindingFunctors = <<>>]
           fs == comp.DeferredBindingFunctors
<1>1. Calling("ProcessDeferredBindings") /\ ComposeFunctors(r, fs)
  BY DEF ProcessDeferredBindings
<1>2. /\ Called.f = "ProcessDeferredBindings" /\ CompOK(comp) /\ comp \in CompRecord
      /\ status \in {"binding", "converting"}
      /\ status = "binding" => "ProcessDeferredBindings" \in BindingFunctor
      /\ (status = "converting" /\ Ensuring) => "ProcessDeferredBindings" \in EnsureFunctor
  BY <1>1, CalledFunctor
<1>3. status = "converting" /\ Deferring /\ ~Ensuring
  BY <1>2 DEF BindingFunctor, EnsureFunctor, PreProcess, PostProcess, Inv, TypeInv
<1>4. Makes(r, fs, <<>>, 0, {})
  BY <1>1, ComposeMakes
<1>5. /\ fs \in Seq(DeferredFunctor) /\ IsSequence(fs) /\ Range(fs) \subseteq DeferredFunctor
  BY <1>2, CompFields, SequenceOver
<1>6. /\ r.RsSuperset = comp.RsSuperset /\ r.Ps = comp.Ps /\ r.Deps = comp.Deps
      /\ r.NonConstRsPs = comp.NonConstRsPs /\ r.InterfaceBindings = comp.InterfaceBindings
      /\ r.DeferredBindingFunctors = <<>> /\ r \in CompRecord
  <2>1. <<>> \in Seq(DeferredFunctor)
    OBVIOUS
  <2> QED BY <1>2, <2>1 DEF CompRecord
<1> HIDE DEF r, fs
<1>7. CompStep(r)
  BY <1>2, <1>6 DEF CompStep, CompOK, Extends, ConstPs
<1>8. \A y \in Range(fs) : y.f \in PostProcess /\ y.sig \in Signature
  BY <1>5 DEF DeferredFunctor, PostProcess
<1>9. \A y \in Range(fs) : FunctorOK(y)
  BY <1>8 DEF FunctorOK, PostProcess
<1>10. Called.f \notin PreProcess \cup PostProcess /\ ToInstall(Called) = {}
  BY <1>2 DEF PreProcess, PostProcess, ToInstall
<1>11. TypeStep(fs, <<>>, 0)
  BY <1>2, <1>3, <1>5, <1>8, <1>9, <1>10, Empty DEF TypeStep
<1>12. \A y \in Range(fs) : Processed(y.sig, r)
  <2>1. \A j \in DOMAIN agenda : agenda[j].f \notin PreProcess
    <3>1. \A j \in DOMAIN agenda : j = Len(agenda) \/ j \in 1 .. Len(agenda) - 1
      BY SequenceFacts DEF Inv, TypeInv
    <3> QED BY <1>3, <3>1 DEF Deferring, PreProcess, PostProcess
  <2>2. \A y \in Range(fs) : Processed(y.sig, comp)
    BY <1>3, <2>1 DEF Inv, ConstInv, WillProcess, fs
  <2> QED BY <1>6, <2>2 DEF Processed
<1>13. \A k \in DOMAIN fs : fs[k] \in Range(fs)
  BY <1>5, SequenceFacts
<1>14. ConstStep(r, fs, <<>>, {})
  BY <1>6, <1>10, <1>12, <1>13, Empty DEF ConstStep
<1>15. CompressibleStep(r, <<>>)
  BY <1>6, NothingPushed
<1>16. StepOK(r, fs, <<>>, 0, {})
  BY <1>3, <1>7, <1>11, <1>14, <1>15 DEF StepOK
<1> QED BY <1>4, <1>16 DEF Keeps

LEMMA KeepsCheckVirtualDestructor ==
  ASSUME Inv, CheckVirtualDestructor
  PROVE  Keeps
<1> DEFINE t == Called.type
           q == IF HasVirtualDestructor(t.class) THEN comp
                ELSE ConstructError("FactoryBindingForUniquePtrOfClassWithNoVirtualDestructor", t)
<1>1. Calling("CheckVirtualDestructor") /\ Op(q, <<>>, 0, {}, {})
  BY DEF CheckVirtualDestructor, Called
<1>2. ~IsError(q) => q = comp
  BY Errors
<1> HIDE DEF q
<1>3. Keeps \/ Makes(comp, <<>>, <<>>, 0, {})
  BY <1>1, <1>2, OpMakes
<1>4. Called.f = "CheckVirtualDestructor" /\ CompStep(comp)
  BY <1>1, CalledFunctor
<1>5. Called.f \notin PreProcess /\ ToInstall(Called) = {}
  BY <1>4 DEF PreProcess, ToInstall
<1>6. \A u, nonConst : ~Ensures(Called, u, nonConst)
  BY <1>4 DEF Ensures, PreProcess
<1>7. /\ CompressibleStep(comp, <<>>)
      /\ IsSequence(<<>>) /\ Len(<<>>) = 0 /\ \A e \in Range(<<>>) : e.kind # "lazy"
  BY NothingPushed
<1>8. StepOK(comp, <<>>, <<>>, 0, {})
  BY <1>4, <1>5, <1>6, <1>7, LastFunctor
<1> QED BY <1>3, <1>8 DEF Keeps

-----------------------------------------------------------------------------
(* What an interface is bound to.                                               *)
LEMMA Greatest ==
  ASSUME NEW n \in Nat, NEW S, S \subseteq 1 .. n, S # {}
  PROVE  Max(S) \in S
<1> DEFINE P == {k \in 0 .. n : \A T \in SUBSET (1 .. k) :
                   T # {} => \E x \in T : \A y \in T : x >= y}
<1>1. 0 \in P
  <2>1. 1 .. 0 = {} /\ 0 \in 0 .. n
    OBVIOUS
  <2>2. \A T \in SUBSET (1 .. 0) : T = {}
    BY <2>1
  <2> QED BY <2>1, <2>2
<1>2. ASSUME NEW k \in 0 .. n - 1, k \in P
      PROVE  k + 1 \in P
  <2>1. k \in Nat /\ k + 1 \in 0 .. n
    OBVIOUS
  <2>2. ASSUME NEW T \in SUBSET (1 .. k + 1), T # {}
        PROVE  \E x \in T : \A y \in T : x >= y
    <3>1. CASE k + 1 \in T
      BY <2>1, <3>1
    <3>2. CASE k + 1 \notin T
      <4>1. T \in SUBSET (1 .. k)
        BY <2>1, <3>2
      <4> QED BY <1>2, <2>2, <4>1
    <3> QED BY <3>1, <3>2
  <2> QED BY <2>1, <2>2
<1> HIDE DEF P
<1>3. \A k \in 0 .. n : k \in P
  BY <1>1, <1>2, InductionTo
<1>4. n \in P
  BY <1>3
<1>5. \E x \in S : \A y \in S : x >= y
  BY <1>4 DEF P
<1> QED BY <1>5 DEF Max

LEMMA ImplementationFound ==
  ASSUME NEW c, CompOK(c), NEW t, NEW i \in FindInMap(c.InterfaceBindings, t)
  PROVE  i \in ObjectType /\ t \in ObjectType
<1> DEFINE S == [i : ObjectType, c : ObjectType]
           m == c.InterfaceBindings
           found == {k \in DOMAIN m : m[k].i = t}
<1>1. m \in Seq(S)
  BY CompFields DEF CompOK
<1>2. \A x \in S : x.c \in ObjectType /\ x.i \in ObjectType
  OBVIOUS
<1> HIDE DEF S, m
<1>3. DOMAIN m = 1 .. Len(m) /\ Len(m) \in Nat /\ \A k \in DOMAIN m : m[k] \in S
  BY <1>1
<1>4. found # {} /\ i = m[Max(found)].c
  BY DEF FindInMap, m
<1>5. found \subseteq 1 .. Len(m)
  BY <1>3
<1>6. Max(found) \in found
  <2> HIDE DEF found
  <2> QED BY <1>3, <1>4, <1>5, Greatest
<1>7. Max(found) \in DOMAIN m /\ m[Max(found)].i = t
  BY <1>6
<1> HIDE DEF found
<1> QED BY <1>2, <1>3, <1>4, <1>7

-----------------------------------------------------------------------------
(* The functors that ensure a type.                                             *)
EnsuredBy(fs, t, nonConst) == \E y \in Range(fs) : Ensures(y, t, nonConst)
Supplied(fs) ==
  /\ IsSequence(fs)
  /\ \A y \in Range(fs) :
       /\ FunctorOK(y) /\ y.f \in EnsureFunctor
       /\ \A t \in Needs(y) : EnsuredBy(fs, t, FALSE)
       /\ \A t \in NonConstNeeds(y) : EnsuredBy(fs, t, TRUE)
  /\ \A k \in DOMAIN fs : fs[k].f \in PostProcess =>
       \E j \in 1 .. k - 1 : fs[j].f \in PreProcess /\ fs[j].sig = fs[k].sig

HandsOver(fs) == \A t, nonConst : Ensures(Called, t, nonConst) => EnsuredBy(fs, t, nonConst)

LEMMA EnsuringStep ==
  ASSUME Inv, NEW f, Calling(f), f \in {"EnsureProvidedType", "AutoRegister"},
         NEW fs, Supplied(fs), ComposeFunctors(comp, fs), HandsOver(fs)
  PROVE  Keeps
<1>1. /\ Called.f = f /\ CompStep(comp) /\ status \in {"binding", "converting"}
      /\ status = "binding" => f \in BindingFunctor
  BY CalledFunctor
<1>2. status = "converting"
  BY <1>1 DEF BindingFunctor, PreProcess
<1>3. Makes(comp, fs, <<>>, 0, {})
  BY ComposeMakes
<1>4. /\ Called.f \notin PreProcess \cup PostProcess /\ ToInstall(Called) = {}
      /\ Called.f \in EnsureFunctor
  BY <1>1 DEF PreProcess, PostProcess, ToInstall, EnsureFunctor
<1>5. TypeStep(fs, <<>>, 0)
  BY <1>2, <1>4, Empty DEF TypeStep, Supplied
<1>6. EnsureStep(comp, fs)
  BY DEF EnsureStep, Supplied, EnsuredBy, HandsOver
<1>7. ConstStep(comp, fs, <<>>, {})
  BY <1>4, Empty DEF ConstStep, Supplied
<1>8. CompressibleStep(comp, <<>>)
  BY NothingPushed
<1>9. StepOK(comp, fs, <<>>, 0, {})
  BY <1>1, <1>5, <1>6, <1>7, <1>8 DEF StepOK
<1> QED BY <1>3, <1>9 DEF Keeps

(* What each functor ensures and needs.                                         *)
LEMMA FunctorsThatEnsure ==
  /\ \A t \in GraphType, nonConst \in BOOLEAN :
       /\ FunctorOK(EnsureProvidedTypeFunctor(t, nonConst))
       /\ EnsureProvidedTypeFunctor(t, nonConst).f \in EnsureFunctor \ PostProcess
       /\ Needs(EnsureProvidedTypeFunctor(t, nonConst)) = {}
       /\ NonConstNeeds(EnsureProvidedTypeFunctor(t, nonConst)) = {}
       /\ Ensures(EnsureProvidedTypeFunctor(t, nonConst), t, FALSE)
       /\ nonConst => Ensures(EnsureProvidedTypeFunctor(t, nonConst), t, TRUE)
  /\ \A from, to :
       /\ FunctorOK(CatchFunctor(from, to)) /\ CatchFunctor(from, to).f \in EnsureFunctor \ PostProcess
       /\ Needs(CatchFunctor(from, to)) = {} /\ NonConstNeeds(CatchFunctor(from, to)) = {}
<1>1. ASSUME NEW t \in GraphType, NEW nonConst \in BOOLEAN
      PROVE  LET x == EnsureProvidedTypeFunctor(t, nonConst)
             IN  /\ FunctorOK(x) /\ x.f \in EnsureFunctor \ PostProcess
                 /\ Needs(x) = {} /\ NonConstNeeds(x) = {}
                 /\ Ensures(x, t, FALSE) /\ (nonConst => Ensures(x, t, TRUE))
  <2> DEFINE x == EnsureProvidedTypeFunctor(t, nonConst)
  <2>1. x.f = "EnsureProvidedType" /\ x.type = t /\ x.nonConst = nonConst
    BY DEF EnsureProvidedTypeFunctor
  <2> HIDE DEF x
  <2>2. FunctorOK(x) /\ x.f \in EnsureFunctor \ PostProcess
    BY <2>1 DEF FunctorOK, EnsureFunctor, PreProcess, PostProcess
  <2>3. Needs(x) = {} /\ NonConstNeeds(x) = {}
    BY <2>1 DEF Needs, NonConstNeeds, PreProcess
  <2>4. Ensures(x, t, FALSE) /\ (nonConst => Ensures(x, t, TRUE))
    BY <2>1 DEF Ensures
  <2> QED BY <2>2, <2>3, <2>4 DEF x
<1>2. ASSUME NEW from, NEW to
      PROVE  LET x == CatchFunctor(from, to)
             IN  /\ FunctorOK(x) /\ x.f \in EnsureFunctor \ PostProcess
                 /\ Needs(x) = {} /\ NonConstNeeds(x) = {}
  <2> DEFINE x == CatchFunctor(from, to)
  <2>1. x.f = "Catch"
    BY DEF CatchFunctor
  <2> HIDE DEF x
  <2>2. FunctorOK(x) /\ x.f \in EnsureFunctor \ PostProcess
    BY <2>1 DEF FunctorOK, EnsureFunctor, PreProcess, PostProcess
  <2>3. Needs(x) = {} /\ NonConstNeeds(x) = {}
    BY <2>1 DEF Needs, NonConstNeeds, PreProcess
  <2> QED BY <2>2, <2>3 DEF x
<1> QED BY <1>1, <1>2

LEMMA KeepsEnsureProvidedType ==
  ASSUME Inv, EnsureProvidedType
  PROVE  Keeps
<1> DEFINE t == Called.type
           nonConst == Called.nonConst
           impl == FindInMap(comp.InterfaceBindings, t)
<1>1. Calling("EnsureProvidedType")
  BY DEF EnsureProvidedType
<1>2. Called.f = "EnsureProvidedType" /\ FunctorOK(Called) /\ CompOK(comp)
  BY <1>1, CalledFunctor
<1>3. t \in GraphType /\ nonConst \in BOOLEAN
  BY <1>2 DEF FunctorOK
<1>4. \A u, non : Ensures(Called, u, non) => u = t /\ (non => nonConst)
  BY <1>2 DEF Ensures, PreProcess
<1>5. Called.f \notin PreProcess /\ ToInstall(Called) = {}
  BY <1>2 DEF PreProcess, ToInstall
<1>6. CASE \E e : Fail(e)
  BY <1>6, FailMakes
<1>7. CASE /\ t \in comp.Ps
           /\ nonConst => t \in comp.NonConstRsPs
           /\ ComposeFunctors(comp, <<>>)
  <2>1. \A u, non : Ensures(Called, u, non) => u \in comp.Ps \/ InTargetRequirements(u, non)
    BY <1>4, <1>7
  <2>2. ASSUME NEW u, Ensures(Called, u, TRUE)
        PROVE  u \in comp.NonConstRsPs
    <3>1. u = t /\ nonConst
      BY <1>2, <2>2 DEF Ensures, PreProcess
    <3> QED BY <1>7, <3>1
  <2> QED BY <1>1, <1>2, <1>5, <1>7, <2>1, <2>2, IdleFunctor
<1>8. CASE /\ InTargetRequirements(t, nonConst)
           /\ ComposeFunctors(comp, <<>>)
  <2>1. \A u, non : Ensures(Called, u, non) => InTargetRequirements(u, non)
    BY <1>4, <1>8 DEF InTargetRequirements
  <2>2. t \notin Target.Ps
    BY <1>8 DEF InTargetRequirements, TargetRequirements, RequirementsOf
  <2>3. \A u \in Target.Ps : ~Ensures(Called, u, TRUE)
    BY <1>4, <2>2
  <2> QED BY <1>1, <1>2, <1>5, <1>8, <2>1, <2>3, IdleFunctor
<1>9. ASSUME NEW c \in impl,
             ComposeFunctors(comp, <<[f |-> "ProcessInterfaceBinding", i |-> t, c |-> c,
                                      nonConst |-> nonConst],
                                     EnsureProvidedTypeFunctor(c, nonConst)>>)
      PROVE  Keeps
  <2> DEFINE x == [f |-> "ProcessInterfaceBinding", i |-> t, c |-> c, nonConst |-> nonConst]
             y == EnsureProvidedTypeFunctor(c, nonConst)
             fs == <<x, y>>
  <2>1. c \in ObjectType /\ t \in ObjectType /\ c \in GraphType
    BY <1>2, ImplementationFound, ObjectTypes
  <2>2. x.f = "ProcessInterfaceBinding" /\ x.i = t /\ x.c = c /\ x.nonConst = nonConst
    OBVIOUS
  <2>3. /\ FunctorOK(y) /\ y.f \in EnsureFunctor \ PostProcess
        /\ Needs(y) = {} /\ NonConstNeeds(y) = {}
        /\ Ensures(y, c, FALSE) /\ (nonConst => Ensures(y, c, TRUE))
    BY <1>3, <2>1, FunctorsThatEnsure
  <2>4. ComposeFunctors(comp, fs)
    BY <1>9
  <2> HIDE DEF x, y
  <2>5. FunctorOK(x) /\ x.f \in EnsureFunctor \ PostProcess
    BY <1>3, <2>1, <2>2 DEF FunctorOK, EnsureFunctor, PreProcess, PostProcess
  <2>6. Needs(x) = {c} /\ NonConstNeeds(x) = IF nonConst THEN {c} ELSE {}
    BY <2>2 DEF Needs, NonConstNeeds
  <2>7. \A u, non : Ensures(Called, u, non) => Ensures(x, u, non)
    BY <1>4, <2>2 DEF Ensures
  <2>8. IsSequence(fs) /\ Range(fs) = {x, y} /\ DOMAIN fs = {1, 2} /\ fs[1] = x /\ fs[2] = y
    BY Pair
  <2> HIDE DEF fs
  <2>9. Supplied(fs)
    <3>1. EnsuredBy(fs, c, FALSE) /\ (nonConst => EnsuredBy(fs, c, TRUE))
      BY <2>3, <2>8 DEF EnsuredBy
    <3>2. \A u \in NonConstNeeds(x) : EnsuredBy(fs, u, TRUE)
      BY <2>6, <3>1
    <3>3. \A u \in Needs(x) : EnsuredBy(fs, u, FALSE)
      BY <2>6, <3>1
    <3>4. \A k \in DOMAIN fs : fs[k].f \notin PostProcess
      BY <2>3, <2>5, <2>8
    <3> HIDE DEF nonConst
    <3> QED BY ONLY <2>3, <2>5, <2>8, <3>2, <3>3, <3>4 DEF Supplied
  <2>10. HandsOver(fs)
    BY <2>7, <2>8 DEF EnsuredBy, HandsOver
  <2> QED BY <1>1, <2>4, <2>9, <2>10, EnsuringStep
<1>10. ASSUME NEW more, more = <<>> \/ \E to : more = <<CatchFunctor(t, to)>>,
              ComposeFunctors(comp, <<[f |-> "AutoRegister", type |-> t]>> \o more)
       PROVE  Keeps
  <2> DEFINE x == [f |-> "AutoRegister", type |-> t]
             fs == <<x>> \o more
  <2>1. x.f = "AutoRegister" /\ x.type = t
    OBVIOUS
  <2>2. /\ IsSequence(more)
        /\ \A y \in Range(more) : /\ FunctorOK(y) /\ y.f \in EnsureFunctor \ PostProcess
                                  /\ Needs(y) = {} /\ NonConstNeeds(y) = {}
    <3>1. CASE more = <<>>
      BY <3>1, Empty
    <3>2. ASSUME NEW to, more = <<CatchFunctor(t, to)>>
          PROVE  /\ IsSequence(more)
                 /\ \A y \in Range(more) : /\ FunctorOK(y) /\ y.f \in EnsureFunctor \ PostProcess
                                           /\ Needs(y) = {} /\ NonConstNeeds(y) = {}
      <4>1. IsSequence(more) /\ Range(more) = {CatchFunctor(t, to)}
        BY <3>2, Singleton
      <4> QED BY <4>1, FunctorsThatEnsure
    <3> QED BY <1>10, <3>1, <3>2
  <2>3. IsSequence(<<x>>) /\ Range(<<x>>) = {x}
    BY Singleton
  <2>4. ComposeFunctors(comp, fs)
    BY <1>10
  <2> HIDE DEF x
  <2>5. FunctorOK(x) /\ x.f \in EnsureFunctor \ PostProcess /\ Needs(x) = {} /\ NonConstNeeds(x) = {}
    BY <1>3, <2>1 DEF FunctorOK, EnsureFunctor, PreProcess, PostProcess, Needs, NonConstNeeds
  <2>6. \A u, non : Ensures(Called, u, non) => Ensures(x, u, non)
    BY <1>4, <2>1 DEF Ensures
  <2>7. IsJoin(fs, <<x>>, more)
    BY <2>2, <2>3, Joined
  <2>8. IsSequence(fs) /\ Range(fs) = {x} \cup Range(more)
    BY <2>3, <2>7 DEF IsJoin
  <2> HIDE DEF fs
  <2>9. \A k \in DOMAIN fs : fs[k] \in Range(fs)
    BY <2>8, SequenceFacts
  <2>10. Supplied(fs)
    BY <2>2, <2>5, <2>8, <2>9 DEF Supplied
  <2>11. HandsOver(fs)
    BY <2>6, <2>8 DEF EnsuredBy, HandsOver
  <2> QED BY <1>1, <2>4, <2>10, <2>11, EnsuringStep
<1>11. \/ \E e : Fail(e)
       \/ /\ t \in comp.Ps
          /\ nonConst => t \in comp.NonConstRsPs
          /\ ComposeFunctors(comp, <<>>)
       \/ /\ InTargetRequirements(t, nonConst)
          /\ ComposeFunctors(comp, <<>>)
       \/ \E c \in impl :
            ComposeFunctors(comp, <<[f |-> "ProcessInterfaceBinding", i |-> t, c |-> c,
                                     nonConst |-> nonConst],
                                    EnsureProvidedTypeFunctor(c, nonConst)>>)
       \/ \E more : /\ more = <<>> \/ \E to : more = <<CatchFunctor(t, to)>>
                    /\ ComposeFunctors(comp, <<[f |-> "AutoRegister", type |-> t]>> \o more)
  BY DEF EnsureProvidedType, Called
<1> QED BY <1>6, <1>7, <1>8, <1>9, <1>10, <1>11

-----------------------------------------------------------------------------
(* The injected arguments of a signature are ensured after it.                  *)
LEMMA EnsuredArguments ==
  ASSUME NEW args \in Seq(InjectedArg)
  PROVE  LET reqs == NormalizeTypeVector(args)
             non == NormalizedNonConstTypesIn(args)
             es == EnsureProvidedTypes(reqs, non)
         IN  /\ IsSequence(es)
             /\ \A y \in Range(es) : /\ FunctorOK(y) /\ y.f \in EnsureFunctor \ PostProcess
                                     /\ Needs(y) = {} /\ NonConstNeeds(y) = {}
             /\ \A t \in Range(reqs) : EnsuredBy(es, t, FALSE)
             /\ \A t \in non : EnsuredBy(es, t, TRUE)
<1> DEFINE reqs == NormalizeTypeVector(args)
           non == NormalizedNonConstTypesIn(args)
           es == EnsureProvidedTypes(reqs, non)
<1>1. IsSequence(reqs) /\ Range(reqs) \subseteq GraphType /\ non \subseteq Range(reqs)
  BY ArgumentTypes
<1>2. IsSequence(es) /\ Range(es) = {EnsureProvidedTypeFunctor(t, t \in non) : t \in Range(reqs)}
  BY <1>1, EnsuredTypes
<1> HIDE DEF reqs, non, es
<1>3. ASSUME NEW t \in Range(reqs)
      PROVE  LET y == EnsureProvidedTypeFunctor(t, t \in non)
             IN  /\ FunctorOK(y) /\ y.f \in EnsureFunctor \ PostProcess
                 /\ Needs(y) = {} /\ NonConstNeeds(y) = {}
                 /\ Ensures(y, t, FALSE) /\ (t \in non => Ensures(y, t, TRUE))
  <2> DEFINE b == t \in non
  <2>1. t \in GraphType /\ b \in BOOLEAN
    BY <1>1
  <2>2. b <=> t \in non
    OBVIOUS
  <2> HIDE DEF b
  <2>3. LET y == EnsureProvidedTypeFunctor(t, b)
        IN  /\ FunctorOK(y) /\ y.f \in EnsureFunctor \ PostProcess
            /\ Needs(y) = {} /\ NonConstNeeds(y) = {}
            /\ Ensures(y, t, FALSE) /\ (b => Ensures(y, t, TRUE))
    BY <2>1, FunctorsThatEnsure
  <2> QED BY <2>3 DEF b
<1>4. \A y \in Range(es) : /\ FunctorOK(y) /\ y.f \in EnsureFunctor \ PostProcess
                           /\ Needs(y) = {} /\ NonConstNeeds(y) = {}
  BY <1>2, <1>3
<1>5. ASSUME NEW t \in Range(reqs)
      PROVE  EnsuredBy(es, t, FALSE) /\ (t \in non => EnsuredBy(es, t, TRUE))
  <2> DEFINE y == EnsureProvidedTypeFunctor(t, t \in non)
  <2>1. y \in Range(es)
    BY <1>2
  <2>2. Ensures(y, t, FALSE) /\ (t \in non => Ensures(y, t, TRUE))
    BY <1>3
  <2> HIDE DEF y
  <2> QED BY <2>1, <2>2 DEF EnsuredBy
<1> QED BY <1>1, <1>2, <1>4, <1>5 DEF reqs, non, es

(* The signature of an Inject typedef.                                          *)
LEMMA InjectSignatures ==
  ASSUME NEW t \in GraphType, NEW returns \in {"value", "unique_ptr"}
  PROVE  LET sig == InjectSignature(t, returns)
         IN  /\ sig \in Signature /\ sig.result = ObjectOf(t) /\ sig.returns = returns
             /\ RemoveAssisted(sig.args) \in Seq(InjectedArg)
<1> DEFINE sig == InjectSignature(t, returns)
<1>1. t.class \in Class
  BY DEF GraphType
<1>2. Traits[t.class].inject \in Seq(InjectedArg \cup AssistedArg)
  BY <1>1, TraitsAssumption
<1>3. /\ sig.result = ObjectOf(t) /\ sig.returns = returns
      /\ sig.args = Traits[t.class].inject
  BY DEF InjectSignature
<1>4. ObjectOf(t) \in GraphType
  BY FactoryTypes
<1>5. sig \in Signature
  BY <1>2, <1>4 DEF Signature, InjectSignature
<1>6. RemoveAssisted(sig.args) \in Seq(InjectedArg)
  BY <1>2, <1>3, InjectedArguments
<1> HIDE DEF sig
<1> QED BY <1>3, <1>5, <1>6 DEF sig

LEMMA KeepsAutoRegisterClass ==
  ASSUME Inv, AutoRegisterClass
  PROVE  Keeps
<1> DEFINE t == Called.type
           sig == InjectSignature(t, "value")
           args == RemoveAssisted(sig.args)
           x == Functor("PreProcessRegisterConstructor", sig)
           y == Functor("PostProcessRegisterConstructor", sig)
           es == EnsureProvidedTypes(NormalizeTypeVector(args), NormalizedNonConstTypesIn(args))
           fs == <<x, y>> \o es
<1>1. Calling("AutoRegister") /\ t.shape = "object"
  BY DEF AutoRegisterClass, Called
<1>2. Called.f = "AutoRegister" /\ FunctorOK(Called)
  BY <1>1, CalledFunctor
<1>3. t \in GraphType
  BY <1>2 DEF FunctorOK
<1>4. (\E e : Fail(e)) \/ ComposeFunctors(comp, fs)
  BY DEF AutoRegisterClass, Called
<1>5. sig \in Signature /\ sig.result = t /\ args \in Seq(InjectedArg)
  BY <1>1, <1>3, InjectSignatures, FactoryTypes DEF ObjectType
<1>6. /\ x.f = "PreProcessRegisterConstructor" /\ x.sig = sig
      /\ y.f = "PostProcessRegisterConstructor" /\ y.sig = sig
  BY DEF Functor
<1>a. args = RemoveAssisted(sig.args)
  OBVIOUS
<1> HIDE DEF sig, x, y, args
<1>7. /\ FunctorOK(x) /\ x.f \in EnsureFunctor \ PostProcess /\ x.f \in PreProcess
      /\ FunctorOK(y) /\ y.f \in EnsureFunctor /\ y.f \in PostProcess
      /\ Needs(x) = Range(NormalizeTypeVector(args)) /\ Needs(y) = {}
      /\ NonConstNeeds(x) = NormalizedNonConstTypesIn(args) /\ NonConstNeeds(y) = {}
  <2>1. /\ FunctorOK(x) /\ FunctorOK(y)
    BY <1>5, <1>6 DEF FunctorOK, PreProcess, PostProcess
  <2>2. /\ x.f \in EnsureFunctor \ PostProcess /\ x.f \in PreProcess
        /\ y.f \in EnsureFunctor /\ y.f \in PostProcess
    BY <1>6 DEF EnsureFunctor, PreProcess, PostProcess
  <2>3. /\ Needs(x) = Range(NormalizeTypeVector(args))
        /\ NonConstNeeds(x) = NormalizedNonConstTypesIn(args)
    BY <1>6, <1>a DEF Needs, NonConstNeeds, PreProcess, InjectedArgs
  <2>4. Needs(y) = {} /\ NonConstNeeds(y) = {}
    BY <1>6 DEF Needs, NonConstNeeds, PreProcess
  <2> QED BY <2>1, <2>2, <2>3, <2>4
<1>8. /\ IsSequence(es)
      /\ \A z \in Range(es) : /\ FunctorOK(z) /\ z.f \in EnsureFunctor \ PostProcess
                              /\ Needs(z) = {} /\ NonConstNeeds(z) = {}
      /\ \A u \in Range(NormalizeTypeVector(args)) : EnsuredBy(es, u, FALSE)
      /\ \A u \in NormalizedNonConstTypesIn(args) : EnsuredBy(es, u, TRUE)
  BY <1>5, EnsuredArguments
<1>9. /\ IsSequence(<<x, y>>) /\ Range(<<x, y>>) = {x, y} /\ Len(<<x, y>>) = 2
      /\ <<x, y>>[1] = x /\ <<x, y>>[2] = y
  BY Pair
<1>10. IsJoin(fs, <<x, y>>, es)
  BY <1>8, <1>9, Joined
<1>11. /\ IsSequence(fs) /\ Range(fs) = {x, y} \cup Range(es) /\ fs[1] = x /\ fs[2] = y
       /\ DOMAIN fs \subseteq Nat
       /\ \A k \in DOMAIN fs : k = 1 \/ k = 2 \/ (k - 2 \in DOMAIN es /\ fs[k] = es[k - 2])
  BY <1>9, <1>10 DEF IsJoin
<1> HIDE DEF fs, es
<1>12. Supplied(fs)
  <2>1. \A u, b : EnsuredBy(es, u, b) => EnsuredBy(fs, u, b)
    BY <1>11 DEF EnsuredBy
  <2>2. ASSUME NEW z \in Range(fs)
        PROVE  /\ FunctorOK(z) /\ z.f \in EnsureFunctor
               /\ \A u \in Needs(z) : EnsuredBy(fs, u, FALSE)
               /\ \A u \in NonConstNeeds(z) : EnsuredBy(fs, u, TRUE)
    BY <1>7, <1>8, <1>11, <2>1
  <2>3. ASSUME NEW k \in DOMAIN fs, fs[k].f \in PostProcess
        PROVE  \E j \in 1 .. k - 1 : fs[j].f \in PreProcess /\ fs[j].sig = fs[k].sig
    <3>1. \A j \in DOMAIN es : es[j].f \notin PostProcess
      BY <1>8, SequenceFacts
    <3>2. k = 2
      BY <1>7, <1>11, <2>3, <3>1
    <3>3. 1 \in 1 .. k - 1
      BY <3>2
    <3> QED BY <1>6, <1>7, <1>11, <3>2, <3>3
  <2> QED BY <1>11, <2>2, <2>3 DEF Supplied
<1>13. HandsOver(fs)
  <2>1. \A u, b : Ensures(Called, u, b) => u = t
    BY <1>2 DEF Ensures, PreProcess
  <2>2. \A b : Ensures(x, t, b)
    BY <1>5, <1>6, <1>7 DEF Ensures
  <2> QED BY <1>11, <2>1, <2>2 DEF HandsOver, EnsuredBy
<1>14. ASSUME ComposeFunctors(comp, fs)
       PROVE  Keeps
  BY <1>1, <1>12, <1>13, <1>14, EnsuringStep
<1> QED BY <1>4, <1>14, FailMakes

LEMMA SequenceOfOne ==
  ASSUME NEW S, NEW a \in S
  PROVE  <<a>> \in Seq(S)
OBVIOUS

(* A factory that is made from another one.                                     *)
LEMMA FunctorFromFunctorSignature ==
  ASSUME NEW to \in GraphType, NEW from \in GraphType
  PROVE  LET sig == FunctorFromFunctor(to, from)
             args == RemoveAssisted(sig.args)
         IN  /\ sig \in Signature /\ sig \in ProviderSignature /\ sig.result = to
             /\ Range(NormalizeTypeVector(args)) = {from}
             /\ NormalizedNonConstTypesIn(args) = {}
<1> DEFINE sig == FunctorFromFunctor(to, from)
           a == Injected("const T&", from)
<1>1. /\ sig.result = to /\ sig.args = <<a>> /\ sig.wellFormed = TRUE
      /\ sig.returns = "value"
  BY DEF FunctorFromFunctor
<1>2. a \in InjectedArg /\ a.type = from /\ a.form = "const T&"
  BY DEF Injected, InjectedArg, Form, ConstForm
<1>3. ~TypeInjectionRequiresNonConstBinding(a)
  BY <1>2 DEF TypeInjectionRequiresNonConstBinding, NonConstForm
<1>4. sig = [result |-> to, returns |-> "value", args |-> <<a>>, wellFormed |-> TRUE]
  BY DEF FunctorFromFunctor
<1> HIDE DEF sig, a
<1>5. <<a>> \in Seq(InjectedArg) /\ <<a>> \in Seq(InjectedArg \cup AssistedArg)
  <2>1. a \in InjectedArg \cup AssistedArg
    BY <1>2
  <2> QED BY <1>2, <2>1, SequenceOfOne
<1>6. Range(<<a>>) = {a}
  BY Singleton
<1>7. sig \in Signature /\ sig \in ProviderSignature
  <2> DEFINE s == <<a>>
  <2>1. s \in Seq(InjectedArg \cup AssistedArg) /\ s \in Seq(InjectedArg) /\ sig.args = s
        /\ sig = [result |-> to, returns |-> "value", args |-> s, wellFormed |-> TRUE]
    BY <1>1, <1>4, <1>5
  <2> HIDE DEF s
  <2>2. sig \in Signature
    BY <2>1 DEF Signature
  <2> QED BY <2>1, <2>2 DEF ProviderSignature
<1> DEFINE args == RemoveAssisted(sig.args)
<1>8. args \in Seq(InjectedArg) /\ Range(args) = {a}
  BY <1>1, <1>5, <1>6, NothingAssisted
<1> HIDE DEF args
<1>9. Range(NormalizeTypeVector(args)) = {from} /\ NormalizedNonConstTypesIn(args) = {}
  <2>1. Range(NormalizeTypeVector(args)) = {x.type : x \in Range(args)}
    BY <1>8, ArgumentTypes
  <2>2. NormalizedNonConstTypesIn(args) =
          {x.type : x \in {y \in Range(args) : TypeInjectionRequiresNonConstBinding(y)}}
    BY <1>8, ArgumentTypes
  <2>3. {y \in Range(args) : TypeInjectionRequiresNonConstBinding(y)} = {}
    BY <1>3, <1>8
  <2> QED BY <1>2, <1>8, <2>1, <2>2, <2>3
<1> QED BY <1>1, <1>7, <1>9 DEF sig, args

LEMMA FunctorFromFunctorKeeps ==
  ASSUME Inv, Calling("AutoRegister"), NEW t \in GraphType, t = Called.type,
         NEW from \in GraphType, NEW z, FunctorOK(z), z.f \in EnsureFunctor \ PostProcess,
         Needs(z) = {}, NonConstNeeds(z) = {},
         ComposeFunctors(comp, RegisterFunctorFromFunctor(t, from) \o <<z>>)
  PROVE  Keeps
<1> DEFINE sig == FunctorFromFunctor(t, from)
           w == EnsureProvidedTypeFunctor(from, FALSE)
           x == Functor("PreProcessRegisterProvider", sig)
           y == Functor("PostProcessRegisterProvider", sig)
           s == <<w, x, y>>
           fs == s \o <<z>>
<1>1. Called.f = "AutoRegister" /\ FunctorOK(Called)
  BY CalledFunctor
<1>2. ComposeFunctors(comp, fs)
  BY DEF RegisterFunctorFromFunctor
<1>3. /\ sig \in Signature /\ sig \in ProviderSignature /\ sig.result = t
      /\ Range(NormalizeTypeVector(RemoveAssisted(sig.args))) = {from}
      /\ NormalizedNonConstTypesIn(RemoveAssisted(sig.args)) = {}
  BY FunctorFromFunctorSignature
<1>4. /\ x.f = "PreProcessRegisterProvider" /\ x.sig = sig
      /\ y.f = "PostProcessRegisterProvider" /\ y.sig = sig
  BY DEF Functor
<1>5. /\ FunctorOK(w) /\ w.f \in EnsureFunctor \ PostProcess
      /\ Needs(w) = {} /\ NonConstNeeds(w) = {} /\ Ensures(w, from, FALSE)
  BY FunctorsThatEnsure
<1> HIDE DEF sig, w, x, y
<1>6. /\ FunctorOK(x) /\ x.f \in EnsureFunctor \ PostProcess /\ x.f \in PreProcess
      /\ FunctorOK(y) /\ y.f \in EnsureFunctor /\ y.f \in PostProcess
      /\ Needs(x) = {from} /\ Needs(y) = {}
      /\ NonConstNeeds(x) = {} /\ NonConstNeeds(y) = {}
  <2>1. FunctorOK(x) /\ FunctorOK(y)
    BY <1>3, <1>4 DEF FunctorOK, PreProcess, PostProcess
  <2>2. /\ x.f \in EnsureFunctor \ PostProcess /\ x.f \in PreProcess
        /\ y.f \in EnsureFunctor /\ y.f \in PostProcess
    BY <1>4 DEF EnsureFunctor, PreProcess, PostProcess
  <2>3. Needs(x) = {from} /\ NonConstNeeds(x) = {}
    BY <1>3, <1>4 DEF Needs, NonConstNeeds, PreProcess, InjectedArgs
  <2>4. Needs(y) = {} /\ NonConstNeeds(y) = {}
    BY <1>4 DEF Needs, NonConstNeeds, PreProcess
  <2> QED BY <2>1, <2>2, <2>3, <2>4
<1>7. /\ IsSequence(s) /\ Range(s) = {w, x, y} /\ DOMAIN s = {1, 2, 3}
      /\ s[1] = w /\ s[2] = x /\ s[3] = y
  BY Triple
<1>8. IsSequence(<<z>>) /\ Range(<<z>>) = {z} /\ Len(<<z>>) = 1 /\ <<z>>[1] = z
  BY Singleton
<1> HIDE DEF s
<1>9. IsJoin(fs, s, <<z>>)
  BY <1>7, <1>8, Joined
<1>10. Len(s) = 3
  <2>1. Len(s) \in Nat /\ DOMAIN s = 1 .. Len(s)
    BY <1>7, SequenceFacts
  <2> QED BY <1>7, <2>1
<1>11. /\ IsSequence(fs) /\ Range(fs) = {w, x, y, z} /\ DOMAIN fs = 1 .. 4
       /\ fs[1] = w /\ fs[2] = x /\ fs[3] = y /\ fs[4] = z
  <2>1. /\ IsSequence(fs) /\ Range(fs) = {w, x, y} \cup {z} /\ DOMAIN fs = 1 .. 3 + 1
        /\ \A i \in 1 .. 3 : fs[i] = s[i]
        /\ \A i \in 1 .. 1 : fs[3 + i] = <<z>>[i]
    BY <1>7, <1>8, <1>9, <1>10 DEF IsJoin
  <2>2. fs[3 + 1] = <<z>>[1]
    BY <2>1
  <2> QED BY <1>7, <1>8, <2>1, <2>2
<1> HIDE DEF fs
<1>12. Supplied(fs)
  <2>1. EnsuredBy(fs, from, FALSE)
    BY <1>5, <1>11 DEF EnsuredBy
  <2>2. ASSUME NEW v \in Range(fs)
        PROVE  /\ FunctorOK(v) /\ v.f \in EnsureFunctor
               /\ \A u \in Needs(v) : EnsuredBy(fs, u, FALSE)
               /\ \A u \in NonConstNeeds(v) : EnsuredBy(fs, u, TRUE)
    BY <1>5, <1>6, <1>11, <2>1
  <2>3. ASSUME NEW k \in DOMAIN fs, fs[k].f \in PostProcess
        PROVE  \E j \in 1 .. k - 1 : fs[j].f \in PreProcess /\ fs[j].sig = fs[k].sig
    <3>1. k = 3
      BY <1>5, <1>6, <1>11, <2>3
    <3>2. 2 \in 1 .. k - 1
      BY <3>1
    <3> QED BY <1>4, <1>6, <1>11, <3>1, <3>2
  <2> QED BY <1>11, <2>2, <2>3 DEF Supplied
<1>13. HandsOver(fs)
  <2>1. \A u, b : Ensures(Called, u, b) => u = t
    BY <1>1 DEF Ensures, PreProcess
  <2>2. \A b : Ensures(x, t, b)
    BY <1>3, <1>4, <1>6 DEF Ensures
  <2> QED BY <1>11, <2>1, <2>2 DEF HandsOver, EnsuredBy
<1> QED BY <1>2, <1>12, <1>13, EnsuringStep

(* A factory from the Inject typedef of its class.                              *)
LEMMA InjectedFactoryKeeps ==
  ASSUME Inv, Calling("AutoRegister"), NEW t \in GraphType, t = Called.type,
         t.shape # "object", NEW returns,
         returns = (IF t.shape = "unique_ptr_factory" THEN "unique_ptr" ELSE "value"),
         NEW sig, sig = InjectSignature(t, returns),
         RemoveNonAssisted(sig.args) = t.args,
         NEW args, args = RemoveAssisted(sig.args),
         ComposeFunctors(comp, <<Functor("RegisterFactory", sig)>>
                               \o EnsureProvidedTypes(NormalizeTypeVector(args),
                                                      NormalizedNonConstTypesIn(args)))
  PROVE  Keeps
<1> DEFINE x == Functor("RegisterFactory", sig)
           es == EnsureProvidedTypes(NormalizeTypeVector(args), NormalizedNonConstTypesIn(args))
           fs == <<x>> \o es
<1>1. Called.f = "AutoRegister" /\ FunctorOK(Called)
  BY CalledFunctor
<1>2. returns \in {"value", "unique_ptr"}
  OBVIOUS
<1>3. /\ sig \in Signature /\ sig.result = ObjectOf(t) /\ sig.returns = returns
      /\ args \in Seq(InjectedArg)
  BY <1>2, InjectSignatures
<1>4. FunctorType(sig) = t
  <2>1. t.shape \in {"factory", "unique_ptr_factory"}
    BY DEF GraphType, Shape
  <2>2. FunctorType(sig) = [ObjectOf(t) EXCEPT !.shape = t.shape, !.args = t.args]
    BY <1>3, <2>1 DEF FunctorType, FactoryOf
  <2>3. t \in [annotation : Annotation, shape : Shape, class : Class, args : Seq(Class)]
    BY DEF GraphType
  <2> QED BY <2>2, <2>3 DEF ObjectOf
<1>5. x.f = "RegisterFactory" /\ x.sig = sig
  BY DEF Functor
<1> HIDE DEF x
<1>6. /\ FunctorOK(x) /\ x.f \in EnsureFunctor \ PostProcess
      /\ Needs(x) = Range(NormalizeTypeVector(args))
      /\ NonConstNeeds(x) = NormalizedNonConstTypesIn(args)
  <2>1. FunctorOK(x)
    BY <1>3, <1>5 DEF FunctorOK, PreProcess, PostProcess
  <2>2. x.f \in EnsureFunctor \ PostProcess
    BY <1>5 DEF EnsureFunctor, PreProcess, PostProcess
  <2>3. /\ Needs(x) = Range(NormalizeTypeVector(args))
        /\ NonConstNeeds(x) = NormalizedNonConstTypesIn(args)
    BY <1>5 DEF Needs, NonConstNeeds, PreProcess, InjectedArgs
  <2> QED BY <2>1, <2>2, <2>3
<1>7. /\ IsSequence(es)
      /\ \A z \in Range(es) : /\ FunctorOK(z) /\ z.f \in EnsureFunctor \ PostProcess
                              /\ Needs(z) = {} /\ NonConstNeeds(z) = {}
      /\ \A u \in Range(NormalizeTypeVector(args)) : EnsuredBy(es, u, FALSE)
      /\ \A u \in NormalizedNonConstTypesIn(args) : EnsuredBy(es, u, TRUE)
  BY <1>3, EnsuredArguments
<1>8. IsSequence(<<x>>) /\ Range(<<x>>) = {x}
  BY Singleton
<1>9. IsJoin(fs, <<x>>, es)
  BY <1>7, <1>8, Joined
<1>10. IsSequence(fs) /\ Range(fs) = {x} \cup Range(es)
  BY <1>8, <1>9 DEF IsJoin
<1>11. ComposeFunctors(comp, fs)
  BY DEF x
<1> HIDE DEF fs, es
<1>12. Supplied(fs)
  <2>1. \A u, b : EnsuredBy(es, u, b) => EnsuredBy(fs, u, b)
    BY <1>10 DEF EnsuredBy
  <2>2. ASSUME NEW z \in Range(fs)
        PROVE  /\ FunctorOK(z) /\ z.f \in EnsureFunctor \ PostProcess
               /\ \A u \in Needs(z) : EnsuredBy(fs, u, FALSE)
               /\ \A u \in NonConstNeeds(z) : EnsuredBy(fs, u, TRUE)
    BY <1>6, <1>7, <1>10, <2>1
  <2>3. \A k \in DOMAIN fs : fs[k].f \notin PostProcess
    BY <1>10, <2>2, SequenceFacts
  <2> QED BY <1>10, <2>2, <2>3 DEF Supplied
<1>13. HandsOver(fs)
  <2>1. \A u, b : Ensures(Called, u, b) => u = t
    BY <1>1 DEF Ensures, PreProcess
  <2>2. \A b : Ensures(x, t, b)
    BY <1>4, <1>5 DEF Ensures
  <2> QED BY <1>10, <2>1, <2>2 DEF HandsOver, EnsuredBy
<1> QED BY <1>11, <1>12, <1>13, EnsuringStep

LEMMA KeepsAutoRegisterFactory ==
  ASSUME Inv, AutoRegisterFactory
  PROVE  Keeps
<1> DEFINE t == Called.type
           impl == FindInMap(comp.InterfaceBindings, ObjectOf(t))
           returns == IF t.shape = "unique_ptr_factory" THEN "unique_ptr" ELSE "value"
           sig == InjectSignature(t, returns)
           args == RemoveAssisted(sig.args)
<1>1. Calling("AutoRegister") /\ t.shape # "object"
  BY DEF AutoRegisterFactory, Called
<1>2. Called.f = "AutoRegister" /\ FunctorOK(Called) /\ CompOK(comp)
  BY <1>1, CalledFunctor
<1>3. t \in GraphType
  BY <1>2 DEF FunctorOK
<1>4. t.shape \in Shape \ {"object"} /\ "factory" \in Shape \ {"object"}
  BY <1>1, <1>3 DEF GraphType, Shape
<1>5. \/ \E e : Fail(e)
      \/ \E c \in impl :
           ComposeFunctors(comp, RegisterFunctorFromFunctor(t, FactoryOf(c, t.shape, t.args))
                                 \o <<[f |-> "CheckVirtualDestructor", type |-> t]>>)
      \/ /\ RemoveNonAssisted(sig.args) = t.args
         /\ ComposeFunctors(comp, <<Functor("RegisterFactory", sig)>>
                                  \o EnsureProvidedTypes(NormalizeTypeVector(args),
                                                         NormalizedNonConstTypesIn(args)))
      \/ ComposeFunctors(comp, RegisterFunctorFromFunctor(t, FactoryOf(t, "factory", t.args))
                               \o <<CatchFunctor(FactoryOf(t, "factory", t.args),
                                                 ConstructNoBindingFoundError(t))>>)
  BY DEF AutoRegisterFactory, Called
<1> HIDE DEF sig, args
<1>6. ASSUME NEW c \in impl,
             ComposeFunctors(comp, RegisterFunctorFromFunctor(t, FactoryOf(c, t.shape, t.args))
                                   \o <<[f |-> "CheckVirtualDestructor", type |-> t]>>)
      PROVE  Keeps
  <2> DEFINE z == [f |-> "CheckVirtualDestructor", type |-> t]
             from == FactoryOf(c, t.shape, t.args)
  <2>1. c \in GraphType
    BY <1>2, ImplementationFound, ObjectTypes
  <2>2. from \in GraphType
    BY <1>3, <1>4, <2>1, FactoryTypes
  <2>3. z.f = "CheckVirtualDestructor" /\ z.type = t
    OBVIOUS
  <2>4. ComposeFunctors(comp, RegisterFunctorFromFunctor(t, from) \o <<z>>)
    BY <1>6
  <2> HIDE DEF z, from
  <2>5. /\ FunctorOK(z) /\ z.f \in EnsureFunctor \ PostProcess
        /\ Needs(z) = {} /\ NonConstNeeds(z) = {}
    BY <1>3, <2>3 DEF FunctorOK, EnsureFunctor, PreProcess, PostProcess, Needs, NonConstNeeds
  <2> QED BY <1>1, <1>3, <2>2, <2>4, <2>5, FunctorFromFunctorKeeps
<1>7. ASSUME ComposeFunctors(comp, RegisterFunctorFromFunctor(t, FactoryOf(t, "factory", t.args))
                                   \o <<CatchFunctor(FactoryOf(t, "factory", t.args),
                                                     ConstructNoBindingFoundError(t))>>)
      PROVE  Keeps
  <2> DEFINE from == FactoryOf(t, "factory", t.args)
             z == CatchFunctor(from, ConstructNoBindingFoundError(t))
  <2>1. from \in GraphType
    BY <1>3, <1>4, FactoryTypes
  <2>2. /\ FunctorOK(z) /\ z.f \in EnsureFunctor \ PostProcess
        /\ Needs(z) = {} /\ NonConstNeeds(z) = {}
    BY FunctorsThatEnsure
  <2>3. ComposeFunctors(comp, RegisterFunctorFromFunctor(t, from) \o <<z>>)
    BY <1>7
  <2> HIDE DEF z, from
  <2> QED BY <1>1, <1>3, <2>1, <2>2, <2>3, FunctorFromFunctorKeeps
<1>8. ASSUME RemoveNonAssisted(sig.args) = t.args,
             ComposeFunctors(comp, <<Functor("RegisterFactory", sig)>>
                                   \o EnsureProvidedTypes(NormalizeTypeVector(args),
                                                          NormalizedNonConstTypesIn(args)))
      PROVE  Keeps
  <2>1. sig = InjectSignature(t, returns) /\ args = RemoveAssisted(sig.args)
    BY DEF sig, args
  <2> QED BY <1>1, <1>3, <1>8, <2>1, InjectedFactoryKeeps
<1> QED BY <1>5, <1>6, <1>7, <1>8, FailMakes

-----------------------------------------------------------------------------
(* The step of a functor keeps all invariants.                                  *)
LEMMA KeptInvariants ==
  ASSUME Inv, Keeps, Called.f # "ConvertComponent"
  PROVE  Inv'
<1>1. CASE Fails
  BY <1>1, FailStep
<1>2. ASSUME NEW c, NEW fs, NEW pushed, NEW num, NEW use,
             Makes(c, fs, pushed, num, use), StepOK(c, fs, pushed, num, use)
      PROVE  Inv'
  <2>1. TypeInv' /\ CompInv' /\ CapacityInv'
    BY <1>2, StepTypes
  <2>2. ConstInv'
    BY <1>2, StepConst
  <2>3. CompressibleInv'
    BY <1>2, StepCompressible
  <2>4. CASE status = "converting" => Ensuring
    <3>1. EnsureInv'
      BY <1>2, <2>4, StepEnsures
    <3> QED BY <2>1, <2>2, <2>3, <3>1 DEF Inv
  <2>5. CASE status = "converting" /\ ~Ensuring
    <3>1. Deferring
      BY <2>5 DEF Inv, TypeInv
    <3>2. IsSequence(agenda) /\ agenda # <<>> /\ IsSequence(fs) /\ agenda' = fs \o Tail(agenda)
      BY <1>2 DEF Makes, StepOK, TypeStep, Inv, TypeInv
    <3>3. IsReplaced(agenda', fs, agenda)
      BY <3>2, Replacing
    <3>4. /\ Range(agenda') = Range(fs) \cup Range(Tail(agenda))
          /\ Range(agenda) = {Called} \cup Range(Tail(agenda))
      BY <3>3 DEF IsReplaced, Called
    <3>5. agenda[Len(agenda)] \in Range(agenda)
      BY <3>1, <3>2, SequenceFacts DEF Deferring
    <3>6. agenda[Len(agenda)].f = "ConvertComponent"
      BY <3>1 DEF Deferring
    <3>7. agenda[Len(agenda)] \in Range(agenda')
      BY <3>4, <3>5, <3>6
    <3>8. ~Ensuring'
      BY <3>6, <3>7 DEF Ensuring, EnsureFunctor, PreProcess, PostProcess
    <3>9. EnsureInv'
      BY <3>8 DEF EnsureInv
    <3> QED BY <2>1, <2>2, <2>3, <3>9 DEF Inv
  <2> QED BY <2>4, <2>5
<1> QED BY <1>1, <1>2 DEF Keeps

-----------------------------------------------------------------------------
(* The conversion: what the declared type and the requirements ask for.         *)
LEMMA ConversionTypes ==
  ASSUME Inv, status = "converting"
  PROVE  /\ CompOK(Target) /\ ~IsError(Target)
         /\ IsFiniteSet(TypesToRegister) /\ TypesToRegister \subseteq GraphType
<1>1. WellDeclared(declared)
  BY DEF Inv, TypeInv
<1>2. CompOK(Target) /\ ~IsError(Target)
  BY <1>1, ConstructedComp DEF Target
<1>3. CompOK(comp) /\ Target \in CompRecord /\ comp \in CompRecord
  BY <1>2 DEF Inv, CompInv, CompOK
<1>4. \A c \in CompRecord : CompOK(c) => IsFiniteSet(c.Ps)
  <2> SUFFICES ASSUME NEW c \in CompRecord, CompOK(c)
               PROVE  IsFiniteSet(c.Ps)
    OBVIOUS
  <2> DEFINE f == [k \in DOMAIN c.Deps |-> c.Deps[k].th.type]
  <2>1. c.Deps \in Seq(Dep) /\ DOMAIN c.Deps = 1 .. Len(c.Deps) /\ Len(c.Deps) \in Nat
    BY CompFields
  <2>2. IsSequence(f)
    <3>1. DOMAIN f = 1 .. Len(c.Deps) /\ f = [k \in 1 .. Len(c.Deps) |-> f[k]]
      BY <2>1
    <3> HIDE DEF f
    <3> QED BY <2>1, <3>1, FunctionIsSequence
  <2>3. Range(f) = c.Ps
    BY DEF CompOK, Range
  <2> HIDE DEF f
  <2> QED BY <2>2, <2>3, FiniteRange
<1>5. TypesToRegister \subseteq Target.Ps \cup comp.RsSuperset \cup comp.Ps
  BY DEF TypesToRegister, RequirementsOf, NonConstRs, ConstPs
<1>6. IsFiniteSet(Target.Ps) /\ IsFiniteSet(comp.RsSuperset) /\ IsFiniteSet(comp.Ps)
  BY <1>2, <1>3, <1>4 DEF CompOK
<1>7. IsFiniteSet(TypesToRegister)
  BY ONLY <1>5, <1>6, FS_Union, FS_Subset
<1>8. Target.Ps \cup comp.RsSuperset \cup comp.Ps \subseteq GraphType
  BY <1>3, CompFields
<1> QED BY <1>2, <1>5, <1>7, <1>8

LEMMA ConvertKeeps ==
  ASSUME Inv, ConvertComponent
  PROVE  Inv'
<1> DEFINE non == comp.NonConstRsPs \cup Target.NonConstRsPs
<1>1. Calling("ConvertComponent")
  BY DEF ConvertComponent
<1>2. /\ Called.f = "ConvertComponent" /\ CompOK(comp) /\ CompStep(comp)
      /\ status \in {"binding", "converting"}
      /\ status = "binding" => "ConvertComponent" \in BindingFunctor
      /\ (status = "converting" /\ Ensuring) => "ConvertComponent" \in EnsureFunctor
      /\ 1 \in DOMAIN agenda /\ Called = agenda[1]
  BY <1>1, CalledFunctor
<1>3. status = "converting" /\ Deferring /\ ~Ensuring
  BY <1>2 DEF BindingFunctor, EnsureFunctor, PreProcess, PostProcess, Inv, TypeInv
<1>4. /\ CompOK(Target) /\ IsFiniteSet(TypesToRegister) /\ TypesToRegister \subseteq GraphType
  BY <1>3, ConversionTypes
<1>5. PICK types \in SetToSeqs(TypesToRegister) :
        ComposeFunctors(comp, EnsureProvidedTypes(types, non))
  BY DEF ConvertComponent
<1> DEFINE fs == EnsureProvidedTypes(types, non)
<1>6. IsSequence(types) /\ Range(types) = TypesToRegister
  BY <1>4, EnumerationOfSet
<1>7. IsSequence(fs) /\ Range(fs) = {EnsureProvidedTypeFunctor(t, t \in non) : t \in TypesToRegister}
  BY <1>6, EnsuredTypes
<1>8. Makes(comp, fs, <<>>, 0, {})
  BY <1>1, <1>5, ComposeMakes
<1> HIDE DEF fs, non
<1>9. \A t \in TypesToRegister :
        LET y == EnsureProvidedTypeFunctor(t, t \in non)
        IN  /\ FunctorOK(y) /\ y.f \in EnsureFunctor \ PostProcess
            /\ Needs(y) = {} /\ NonConstNeeds(y) = {}
            /\ Ensures(y, t, FALSE) /\ (t \in non => Ensures(y, t, TRUE))
  <2> SUFFICES ASSUME NEW t \in TypesToRegister
               PROVE  LET y == EnsureProvidedTypeFunctor(t, t \in non)
                      IN  /\ FunctorOK(y) /\ y.f \in EnsureFunctor \ PostProcess
                          /\ Needs(y) = {} /\ NonConstNeeds(y) = {}
                          /\ Ensures(y, t, FALSE) /\ (t \in non => Ensures(y, t, TRUE))
    OBVIOUS
  <2> DEFINE b == t \in non
  <2>1. t \in GraphType /\ b \in BOOLEAN
    BY <1>4
  <2> HIDE DEF b
  <2>2. LET y == EnsureProvidedTypeFunctor(t, b)
        IN  /\ FunctorOK(y) /\ y.f \in EnsureFunctor \ PostProcess
            /\ Needs(y) = {} /\ NonConstNeeds(y) = {}
            /\ Ensures(y, t, FALSE) /\ (b => Ensures(y, t, TRUE))
    BY <2>1, FunctorsThatEnsure
  <2> QED BY <2>2 DEF b
<1>10. /\ \A y \in Range(fs) : FunctorOK(y) /\ y.f \in EnsureFunctor \ PostProcess
       /\ \A y \in Range(fs) : Needs(y) = {} /\ NonConstNeeds(y) = {}
       /\ \A t \in TypesToRegister : EnsuredBy(fs, t, FALSE)
       /\ \A t \in TypesToRegister : t \in non => EnsuredBy(fs, t, TRUE)
  BY <1>7, <1>9 DEF EnsuredBy
<1>11. /\ Called.f \notin PreProcess \cup PostProcess /\ ToInstall(Called) = {}
  BY <1>2 DEF PreProcess, PostProcess, ToInstall
<1>12. TypeStep(fs, <<>>, 0)
  BY <1>2, <1>3, <1>7, <1>10, <1>11, Empty DEF TypeStep
<1>13. ConstStep(comp, fs, <<>>, {})
  BY <1>7, <1>10, <1>11, Empty, SequenceFacts DEF ConstStep
<1>14. CompressibleStep(comp, <<>>)
  BY NothingPushed
<1>15. StepOK(comp, fs, <<>>, 0, {})
  BY <1>2, <1>3, <1>12, <1>13, <1>14 DEF StepOK
<1>16. TypeInv' /\ CompInv' /\ CapacityInv' /\ ConstInv' /\ CompressibleInv'
  BY <1>8, <1>15, StepTypes, StepConst, StepCompressible
<1>17. agenda' = fs /\ comp' = comp /\ declared' = declared
  <2>1. IsSequence(agenda) /\ agenda # <<>>
    BY <1>8 DEF Makes, Inv, TypeInv
  <2>2. Len(agenda) = 1
    <3>1. Len(agenda) \in Nat /\ DOMAIN agenda = 1 .. Len(agenda)
      BY <2>1, SequenceFacts
    <3>2. 1 \notin 1 .. Len(agenda) - 1
      BY <1>2, <1>3 DEF Deferring, PostProcess
    <3> QED BY <1>2, <3>1, <3>2
  <2>3. IsSequence(Tail(agenda)) /\ Len(Tail(agenda)) = 0
    BY <2>1, <2>2, Rest
  <2>4. Tail(agenda) = <<>>
    BY <2>3, SequenceFacts
  <2>5. fs \o <<>> = fs
    BY <1>7 DEF IsSequence
  <2> QED BY <1>8, <2>4, <2>5 DEF Makes
<1>18. EnsureInv'
  <2>1. /\ Target' = Target /\ TargetRequirements' = TargetRequirements
        /\ TargetNonConstRequirements' = TargetNonConstRequirements
    BY <1>17 DEF Target, TargetRequirements, TargetNonConstRequirements
  <2>2. \A t, b : InTargetRequirements(t, b)' <=> InTargetRequirements(t, b)
    BY <2>1 DEF InTargetRequirements
  <2>3. \A t, b : EnsuredBy(fs, t, b) => Pending(t, b)'
    BY <1>17 DEF EnsuredBy, Pending
  <2>4. ASSUME NEW t \in Target.Ps \cup comp.RsSuperset
        PROVE  Covered(t, FALSE)'
    <3>1. t \in comp.Ps \/ t \in TargetRequirements \/ t \in TypesToRegister
      BY DEF TypesToRegister, RequirementsOf
    <3>2. CASE t \in TargetRequirements
      BY <2>2, <3>2 DEF Covered, InTargetRequirements
    <3>3. CASE t \in TypesToRegister
      BY <1>10, <2>3, <3>3 DEF Covered
    <3> QED BY <1>17, <3>1, <3>2, <3>3 DEF Covered
  <2>5. ASSUME NEW t \in comp.NonConstRsPs
        PROVE  Covered(t, TRUE)'
    <3>1. CASE t \in comp.Ps
      BY <1>17, <3>1 DEF Covered
    <3>2. CASE t \notin comp.Ps
      <4>1. t \in RequirementsOf(comp) /\ t \in NonConstRs(comp) /\ t \in non
        BY <1>2, <3>2 DEF CompOK, RequirementsOf, NonConstRs, non
      <4>2. CASE t \in TargetNonConstRequirements
        <5>1. InTargetRequirements(t, TRUE)
          BY <4>2 DEF InTargetRequirements, TargetRequirements, TargetNonConstRequirements, NonConstRs
        <5> QED BY <2>2, <5>1 DEF Covered
      <4>3. CASE t \notin TargetNonConstRequirements
        <5>1. t \in TypesToRegister
          BY <3>2, <4>1, <4>3 DEF TypesToRegister, TargetRequirements, TargetNonConstRequirements, NonConstRs
        <5> QED BY <1>10, <2>3, <4>1, <5>1 DEF Covered
      <4> QED BY <4>2, <4>3
    <3> QED BY <3>1, <3>2
  <2>6. ASSUME NEW t \in Target.Ps \cap Target.NonConstRsPs
        PROVE  t \in comp.NonConstRsPs \/ Pending(t, TRUE)'
    <3>1. CASE t \notin comp.NonConstRsPs
      <4>1. t \notin TargetRequirements
        BY DEF TargetRequirements, RequirementsOf
      <4>2. t \in TypesToRegister
        BY <3>1, <4>1 DEF TypesToRegister, ConstPs
      <4> QED BY <1>10, <2>3, <4>2 DEF non
    <3> QED BY <3>1
  <2>7. \A x \in Range(agenda') : Needs(x) = {} /\ NonConstNeeds(x) = {}
    BY <1>10, <1>17
  <2> QED BY <1>17, <2>1, <2>4, <2>5, <2>6, <2>7 DEF EnsureInv
<1> QED BY <1>16, <1>18 DEF Inv

-----------------------------------------------------------------------------
(* The entries of the calls, from the last one to the first.                    *)
ListsOver(xs, S) == IsSequence(xs) /\ \A k \in DOMAIN xs : xs[k] \in Seq(S)
IsAdded(r, xs, N, S) ==
  /\ r \in [0 .. N -> Seq(S)]
  /\ AddBindings(xs) = r[N] /\ r[0] = <<>>
  /\ \A n \in 1 .. N : r[n] = xs[n] \o r[n - 1]

LEMMA Adding ==
  ASSUME NEW S, NEW xs, ListsOver(xs, S)
  PROVE  \E r : IsAdded(r, xs, Len(xs), S)
<1> DEFINE N == Len(xs)
           X == Seq(S)
           Eq(f) == f = [n \in 0 .. N |-> IF n = 0 THEN <<>> ELSE xs[n] \o f[n - 1]]
           r == CHOOSE f : Eq(f)
           step == [n \in 1 .. N |-> [x \in X |-> xs[n] \o x]]
<1>1. AddBindings(xs) = r[N]
  BY DEF AddBindings
<1>2. N \in Nat /\ DOMAIN xs = 1 .. N
  BY SequenceFacts DEF ListsOver
<1>x. \A n \in 1 .. N : xs[n] \in X
  BY <1>2 DEF ListsOver
<1>3. <<>> \in X /\ \A n \in 1 .. N : \A x \in X : xs[n] \o x \in X
  BY <1>x
<1>4. step \in [1 .. N -> [X -> X]]
  <2> HIDE DEF X, N
  <2> QED BY <1>3
<1>step. \A n \in 1 .. N : \A x \in X : step[n][x] = xs[n] \o x
  <2> HIDE DEF X
  <2> QED OBVIOUS
<1> HIDE DEF step
<1>5. PICK f \in [0 .. N -> X] : /\ f[0] = <<>>
                                 /\ \A n \in 1 .. N : f[n] = step[n][f[n - 1]]
  <2> HIDE DEF N, X
  <2> DEFINE nil == <<>>
  <2>1. N \in Nat /\ nil \in X /\ step \in Steps(N, X)
    BY <1>2, <1>3, <1>4 DEF Steps
  <2> HIDE DEF nil
  <2>2. \E f : Repeats(f, N, X, nil, step)
    BY <2>1, RecursionTo
  <2> QED BY <2>2 DEF nil, Repeats
<1>6. \A n \in 1 .. N : f[n] = xs[n] \o f[n - 1]
  <2> TAKE n \in 1 .. N
  <2>1. n - 1 \in 0 .. N
    BY <1>2
  <2>2. f[n - 1] \in X
    BY <2>1
  <2> HIDE DEF X
  <2> QED BY <1>5, <1>step, <2>2
<1>7. Eq(f)
  <2> HIDE DEF N, X
  <2>1. \A n \in 0 .. N : n = 0 \/ n \in 1 .. N
    BY <1>2
  <2> QED BY <1>5, <1>6, <2>1
<1>8. Eq(r)
  <2> HIDE DEF Eq
  <2> QED BY <1>7
<1>9. r[0] = <<>>
  <2>1. 0 \in 0 .. N
    BY <1>2
  <2> HIDE DEF N, r
  <2> QED BY <1>8, <2>1
<1>10. \A n \in 1 .. N : r[n] = xs[n] \o r[n - 1]
  <2> TAKE n \in 1 .. N
  <2>1. n \in 0 .. N /\ n # 0
    BY <1>2
  <2> HIDE DEF r
  <2> QED BY <1>8, <2>1
<1>11. r \in [0 .. N -> X]
  <2>1. DOMAIN r = 0 .. N
    BY <1>8
  <2> DEFINE P == {n \in 0 .. N : r[n] \in X}
  <2> HIDE DEF r, X
  <2>2. 0 \in P
    BY <1>2, <1>3, <1>9
  <2>3. \A n \in 0 .. N - 1 : n \in P => n + 1 \in P
    <3> SUFFICES ASSUME NEW n \in 0 .. N - 1, n \in P
                 PROVE  n + 1 \in P
      OBVIOUS
    <3>1. n + 1 \in 1 .. N /\ n + 1 \in 0 .. N /\ (n + 1) - 1 = n
      BY <1>2
    <3>2. r[n + 1] = xs[n + 1] \o r[n]
      BY <1>10, <3>1
    <3> QED BY <1>3, <3>1, <3>2
  <2> HIDE DEF P
  <2>4. \A n \in 0 .. N : n \in P
    BY <1>2, <2>2, <2>3, InductionTo
  <2>5. \A n \in 0 .. N : r[n] \in X
    BY <2>4 DEF P
  <2>6. r = [n \in 0 .. N |-> r[n]]
    BY <1>8 DEF r
  <2> HIDE DEF N
  <2> QED BY <2>5, <2>6
<1> HIDE DEF r
<1> QED BY <1>1, <1>9, <1>10, <1>11 DEF IsAdded

LEMMA Counting ==
  ASSUME NEW bs, IsSequence(bs), \A k \in DOMAIN bs : NumBindings(bs[k]) \in Nat
  PROVE  \E r \in [0 .. Len(bs) -> Nat] :
           /\ NumBindingsOfAll(bs) = r[Len(bs)] /\ r[0] = 0
           /\ \A n \in 1 .. Len(bs) : r[n] = NumBindings(bs[n]) + r[n - 1]
<1> DEFINE N == Len(bs)
           Eq(f) == f = [n \in 0 .. N |-> IF n = 0 THEN 0 ELSE NumBindings(bs[n]) + f[n - 1]]
           r == CHOOSE f : Eq(f)
           step == [n \in 1 .. N |-> [x \in Nat |-> NumBindings(bs[n]) + x]]
<1>1. NumBindingsOfAll(bs) = r[N]
  BY DEF NumBindingsOfAll
<1>2. N \in Nat /\ DOMAIN bs = 1 .. N
  BY SequenceFacts
<1>3. \A n \in 1 .. N : NumBindings(bs[n]) \in Nat
  BY <1>2
<1>4. step \in Steps(N, Nat)
  BY <1>3 DEF Steps
<1>step. \A n \in 1 .. N : \A x \in Nat : step[n][x] = NumBindings(bs[n]) + x
  OBVIOUS
<1> HIDE DEF step
<1>5. PICK f : Repeats(f, N, Nat, 0, step)
  <2> DEFINE nil == 0
  <2>1. nil \in Nat
    OBVIOUS
  <2> HIDE DEF nil, N
  <2>2. \E f : Repeats(f, N, Nat, nil, step)
    BY <1>2, <1>4, <2>1, RecursionTo
  <2> QED BY <2>2 DEF nil
<1>6. f \in [0 .. N -> Nat] /\ f[0] = 0 /\ \A n \in 1 .. N : f[n] = NumBindings(bs[n]) + f[n - 1]
  <2>1. /\ f \in [0 .. N -> Nat] /\ f[0] = 0
        /\ \A n \in 1 .. N : f[n] = step[n][f[n - 1]]
    BY <1>5 DEF Repeats
  <2>2. \A n \in 1 .. N : n - 1 \in 0 .. N
    BY <1>2
  <2>3. \A n \in 1 .. N : f[n - 1] \in Nat
    BY <2>1, <2>2
  <2> QED BY <1>step, <2>1, <2>3
<1>7. Eq(f)
  <2>1. \A n \in 0 .. N : n = 0 \/ n \in 1 .. N
    BY <1>2
  <2>2. f = [n \in 0 .. N |-> f[n]]
    BY <1>6
  <2>3. \A n \in 0 .. N : f[n] = IF n = 0 THEN 0 ELSE NumBindings(bs[n]) + f[n - 1]
    BY <1>6, <2>1
  <2> HIDE DEF N
  <2> QED BY <2>2, <2>3
<1>8. Eq(r)
  <2> HIDE DEF Eq
  <2> QED BY <1>7
<1>9. r[0] = 0
  <2>1. 0 \in 0 .. N
    BY <1>2
  <2> HIDE DEF N, r
  <2> QED BY <1>8, <2>1
<1>10. \A n \in 1 .. N : r[n] = NumBindings(bs[n]) + r[n - 1]
  <2> TAKE n \in 1 .. N
  <2>1. n \in 0 .. N /\ n # 0
    BY <1>2
  <2> HIDE DEF r
  <2> QED BY <1>8, <2>1
<1>11. r \in [0 .. N -> Nat]
  <2> DEFINE P == {n \in 0 .. N : r[n] \in Nat}
  <2>1. r = [n \in 0 .. N |-> r[n]]
    BY <1>8
  <2> HIDE DEF r
  <2>2. 0 \in P
    BY <1>2, <1>9
  <2>3. \A n \in 0 .. N - 1 : n \in P => n + 1 \in P
    <3> SUFFICES ASSUME NEW n \in 0 .. N - 1, n \in P
                 PROVE  n + 1 \in P
      OBVIOUS
    <3>1. n + 1 \in 1 .. N /\ n + 1 \in 0 .. N /\ (n + 1) - 1 = n
      BY <1>2
    <3>2. r[n + 1] = NumBindings(bs[n + 1]) + r[n]
      BY <1>10, <3>1
    <3> QED BY <1>3, <3>1, <3>2
  <2> HIDE DEF P
  <2>4. \A n \in 0 .. N : n \in P
    BY <1>2, <2>2, <2>3, InductionTo
  <2>5. \A n \in 0 .. N : r[n] \in Nat
    BY <2>4 DEF P
  <2> HIDE DEF N
  <2> QED BY <2>1, <2>5
<1> HIDE DEF r
<1> QED BY <1>1, <1>9, <1>10, <1>11

(* What the storage adds for a binding.                                         *)
Stored(e, cs) == ~IsMade(e) /\ (e.kind = "lazy" => e.comp \in cs)

LEMMA InstanceMultibindings ==
  ASSUME NEW t, NEW objs \in Seq(Instance)
  PROVE  /\ IsSequence(AddInstanceMultibindings(t, objs))
         /\ Len(AddInstanceMultibindings(t, objs)) = 2 * Len(objs)
         /\ \A e \in Range(AddInstanceMultibindings(t, objs)) : Stored(e, {})
<1> DEFINE M(o) == [kind |-> "multibinding_constructed_object", type |-> t, deps |-> {},
                    create |-> [fn |-> o, c |-> t, i |-> t]]
           v == MultibindingVectorCreator(t)
           S == {M(o) : o \in Instance} \cup {v}
           xs == [i \in DOMAIN objs |-> AddInstanceMultibinding(t, objs[i])]
           N == Len(objs)
<1>1. \A e \in S : Stored(e, {})
  BY DEF Stored, IsMade, BindingKind, MultibindingVectorCreator
<1>2. \A o \in Instance : AddInstanceMultibinding(t, o) = <<M(o), v>> /\ M(o) \in S /\ v \in S
  BY DEF AddInstanceMultibinding
<1>3. N \in Nat /\ DOMAIN objs = 1 .. N /\ \A i \in 1 .. N : objs[i] \in Instance
  OBVIOUS
<1> HIDE DEF M, v, S
<1>4. \A o \in Instance : /\ AddInstanceMultibinding(t, o) \in Seq(S)
                          /\ Len(AddInstanceMultibinding(t, o)) = 2
  <2> SUFFICES ASSUME NEW o \in Instance
               PROVE  /\ AddInstanceMultibinding(t, o) \in Seq(S)
                      /\ Len(AddInstanceMultibinding(t, o)) = 2
    OBVIOUS
  <2> DEFINE m == M(o)
  <2>1. AddInstanceMultibinding(t, o) = <<m, v>> /\ m \in S /\ v \in S
    BY <1>2
  <2> HIDE DEF m
  <2>2. <<m, v>> \in Seq(S) /\ Len(<<m, v>>) = 2
    BY <2>1
  <2> QED BY <2>1, <2>2
<1>5. DOMAIN xs = 1 .. N /\ \A i \in 1 .. N : xs[i] \in Seq(S) /\ Len(xs[i]) = 2
  BY <1>3, <1>4
<1>6. IsSequence(xs) /\ Len(xs) = N
  <2>1. xs = [i \in 1 .. N |-> xs[i]]
    BY <1>3
  <2> HIDE DEF xs, N
  <2> QED BY <1>3, <1>5, <2>1, FunctionIsSequence
<1>7. AddInstanceMultibindings(t, objs) = AddBindings(xs)
  BY DEF AddInstanceMultibindings
<1> HIDE DEF xs, N
<1>a. ListsOver(xs, S)
  BY <1>5, <1>6 DEF ListsOver
<1>b. PICK r : IsAdded(r, xs, N, S)
  BY <1>6, <1>a, Adding
<1>8. /\ r \in [0 .. N -> Seq(S)]
      /\ AddBindings(xs) = r[N] /\ r[0] = <<>>
      /\ \A n \in 1 .. N : r[n] = xs[n] \o r[n - 1]
  BY <1>b DEF IsAdded
<1>9. \A n \in 0 .. N : Len(r[n]) = 2 * n
  <2> DEFINE P == {n \in 0 .. N : Len(r[n]) = 2 * n}
  <2>1. 0 \in P
    BY <1>3, <1>8
  <2>2. \A n \in 0 .. N - 1 : n \in P => n + 1 \in P
    <3> SUFFICES ASSUME NEW n \in 0 .. N - 1, n \in P
                 PROVE  n + 1 \in P
      OBVIOUS
    <3>1. n + 1 \in 1 .. N /\ n + 1 \in 0 .. N /\ (n + 1) - 1 = n /\ n \in 0 .. N
      BY <1>3
    <3>2. r[n + 1] = xs[n + 1] \o r[n] /\ r[n] \in Seq(S) /\ xs[n + 1] \in Seq(S)
      BY <1>5, <1>8, <3>1
    <3>3. Len(r[n + 1]) = Len(xs[n + 1]) + Len(r[n])
      BY <3>2
    <3>4. Len(xs[n + 1]) = 2 /\ Len(r[n]) = 2 * n
      BY <1>5, <3>1
    <3>5. Len(r[n + 1]) = 2 * (n + 1)
      BY <1>3, <3>3, <3>4
    <3> QED BY <3>1, <3>5
  <2> HIDE DEF P
  <2>3. \A n \in 0 .. N : n \in P
    BY <1>3, <2>1, <2>2, InductionTo
  <2> QED BY <2>3 DEF P
<1>10. N \in 0 .. N /\ r[N] \in Seq(S)
  BY <1>3, <1>8
<1>11. Len(r[N]) = 2 * N
  BY <1>9, <1>10
<1>12. IsSequence(r[N]) /\ Range(r[N]) \subseteq S
  BY <1>10, SequenceOver
<1> QED BY <1>1, <1>7, <1>8, <1>11, <1>12 DEF N

LEMMA OneStored ==
  ASSUME NEW e, NEW cs, Stored(e, cs)
  PROVE  IsSequence(<<e>>) /\ Len(<<e>>) = 1 /\ \A x \in Range(<<e>>) : Stored(x, cs)
<1>1. IsSequence(<<e>>) /\ Len(<<e>>) = 1 /\ Range(<<e>>) = {e}
  BY Singleton
<1> QED BY <1>1

LEMMA TwoStored ==
  ASSUME NEW e, NEW d, NEW cs, Stored(e, cs), Stored(d, cs)
  PROVE  IsSequence(<<e, d>>) /\ Len(<<e, d>>) = 2 /\ \A x \in Range(<<e, d>>) : Stored(x, cs)
<1>1. IsSequence(<<e, d>>) /\ Len(<<e, d>>) = 2 /\ Range(<<e, d>>) = {e, d}
  BY Pair
<1> QED BY <1>1

LEMMA StorageOfBinding ==
  ASSUME NEW b \in BindingCall
  PROVE  /\ IsSequence(StorageEntries(b)) /\ NumBindings(b) \in Nat
         /\ Len(StorageEntries(b)) = NumBindings(b)
         /\ \A e \in Range(StorageEntries(b)) : Stored(e, InstalledBy(b))
<1>1. CASE b.kind \in {"BindInstance", "BindConstInstance"}
  <2> DEFINE e == [kind |-> "constructed_object", type |-> b.type, deps |-> {},
                   create |-> [fn |-> "instance", c |-> b.type, i |-> b.type]]
  <2>1. StorageEntries(b) = <<e>> /\ NumBindings(b) = 1
    BY <1>1 DEF StorageEntries, NumBindings, BindInstance
  <2>2. Stored(e, InstalledBy(b))
    BY DEF Stored, IsMade
  <2> HIDE DEF e
  <2> QED BY <2>1, <2>2, OneStored
<1>2. CASE b.kind = "AddInstanceMultibinding"
  <2> DEFINE e == [kind |-> "multibinding_constructed_object", type |-> b.type, deps |-> {},
                   create |-> [fn |-> "instance", c |-> b.type, i |-> b.type]]
             v == MultibindingVectorCreator(b.type)
  <2>1. StorageEntries(b) = <<e, v>> /\ NumBindings(b) = 2
    BY <1>2 DEF StorageEntries, NumBindings, AddInstanceMultibinding
  <2>2. Stored(e, InstalledBy(b)) /\ Stored(v, InstalledBy(b))
    BY DEF Stored, IsMade, BindingKind, MultibindingVectorCreator
  <2> HIDE DEF e, v
  <2> QED BY <2>1, <2>2, TwoStored
<1>3. CASE b.kind = "AddInstanceVectorMultibindings"
  <2>1. /\ StorageEntries(b) = AddInstanceMultibindings(b.type, b.objs)
        /\ NumBindings(b) = 2 * Len(b.objs)
    BY <1>3 DEF StorageEntries, NumBindings
  <2>2. b.objs \in Seq(Instance)
    BY <1>3 DEF BindingCall, InstanceKind
  <2>3. Len(b.objs) \in Nat
    BY <2>2
  <2>4. /\ IsSequence(StorageEntries(b)) /\ Len(StorageEntries(b)) = 2 * Len(b.objs)
        /\ \A e \in Range(StorageEntries(b)) : Stored(e, {})
    BY <2>1, <2>2, InstanceMultibindings
  <2>5. \A e : Stored(e, {}) => Stored(e, InstalledBy(b))
    BY DEF Stored
  <2> QED BY <2>1, <2>3, <2>4, <2>5
<1>4. CASE b.kind = "InstallComponent"
  <2> DEFINE e == [kind |-> "lazy", comp |-> b.comp]
  <2>1. StorageEntries(b) = <<e>> /\ NumBindings(b) = 1 /\ InstalledBy(b) = {b.comp}
    BY <1>4 DEF StorageEntries, NumBindings, Install, InstalledBy
  <2>2. Stored(e, InstalledBy(b))
    BY <2>1 DEF Stored, IsMade, BindingKind
  <2> HIDE DEF e
  <2> QED BY <2>1, <2>2, OneStored
<1>5. CASE b.kind = "InstallComponentFunctions"
  <2> DEFINE cs == b.comps
             s == [i \in DOMAIN cs |-> [kind |-> "lazy", comp |-> cs[i]]]
  <2>1. StorageEntries(b) = s /\ NumBindings(b) = Len(cs) /\ InstalledBy(b) = Range(cs)
    BY <1>5 DEF StorageEntries, NumBindings, InstallComponentFunctions, InstalledBy
  <2>2. cs \in Seq(Component)
    BY <1>5 DEF BindingCall, InstanceKind
  <2>3. IsSequence(cs) /\ Len(cs) \in Nat /\ DOMAIN cs = 1 .. Len(cs)
        /\ \A i \in DOMAIN cs : cs[i] \in Range(cs)
    BY <2>2, SequenceOver, SequenceFacts
  <2>4. DOMAIN s = 1 .. Len(cs) /\ s = [i \in 1 .. Len(cs) |-> s[i]]
    BY <2>3
  <2>5. \A e \in Range(s) : Stored(e, Range(cs))
    <3> SUFFICES ASSUME NEW e \in Range(s) PROVE Stored(e, Range(cs))
      OBVIOUS
    <3>1. PICK i \in DOMAIN cs : e = [kind |-> "lazy", comp |-> cs[i]]
      BY DEF Range
    <3>2. e.kind = "lazy" /\ e.comp \in Range(cs)
      BY <2>3, <3>1
    <3> QED BY <3>2 DEF Stored, IsMade, BindingKind
  <2> HIDE DEF s, cs
  <2>6. IsSequence(s) /\ Len(s) = Len(cs)
    BY <2>3, <2>4, FunctionIsSequence
  <2> QED BY <2>1, <2>3, <2>5, <2>6
<1>6. CASE b.kind = "ReplaceComponent"
  <2> DEFINE e == [kind |-> "replacement", comp |-> b.replacement]
             d == [kind |-> "replaced", comp |-> b.comp]
  <2>1. StorageEntries(b) = <<e, d>> /\ NumBindings(b) = 2
    BY <1>6 DEF StorageEntries, NumBindings, Replace
  <2>2. Stored(e, InstalledBy(b)) /\ Stored(d, InstalledBy(b))
    BY DEF Stored, IsMade, BindingKind
  <2> HIDE DEF e, d
  <2> QED BY <2>1, <2>2, TwoStored
<1>7. CASE b.kind \in {"Bind", "AddMultibinding", "RegisterConstructor", "RegisterFactory",
                       "RegisterProvider", "AddMultibindingProvider"}
  <2>1. StorageEntries(b) = <<>> /\ NumBindings(b) = 0
    BY <1>7 DEF StorageEntries, NumBindings
  <2> QED BY <2>1, Empty
<1>8. \/ b.kind \in {"BindInstance", "BindConstInstance"} \/ b.kind = "AddInstanceMultibinding"
      \/ b.kind = "AddInstanceVectorMultibindings" \/ b.kind = "InstallComponent"
      \/ b.kind = "InstallComponentFunctions" \/ b.kind = "ReplaceComponent"
      \/ b.kind \in {"Bind", "AddMultibinding", "RegisterConstructor", "RegisterFactory",
                     "RegisterProvider", "AddMultibindingProvider"}
  BY DEF BindingCall, InstanceKind
<1> QED BY <1>1, <1>2, <1>3, <1>4, <1>5, <1>6, <1>7, <1>8

(* What the storage adds for all calls.                                         *)
LEMMA StorageOfCalls ==
  ASSUME NEW bs \in Seq(BindingCall)
  PROVE  LET es == AddBindings([k \in DOMAIN bs |-> StorageEntries(bs[k])])
         IN  /\ IsSequence(es) /\ NumBindingsOfAll(bs) \in Nat /\ Len(es) = NumBindingsOfAll(bs)
             /\ \A e \in Range(es) : Stored(e, UNION {InstalledBy(b) : b \in Range(bs)})
<1> DEFINE xs == [k \in DOMAIN bs |-> StorageEntries(bs[k])]
           N == Len(bs)
           S == UNION {Range(StorageEntries(bs[k])) : k \in DOMAIN bs}
           cs == UNION {InstalledBy(b) : b \in Range(bs)}
<1>1. N \in Nat /\ DOMAIN bs = 1 .. N /\ IsSequence(bs) /\ \A k \in 1 .. N : bs[k] \in BindingCall
  BY SequenceOver
<1>2. \A k \in 1 .. N : InstalledBy(bs[k]) \subseteq cs
  BY <1>1, SequenceFacts
<1>3. \A k \in 1 .. N : /\ IsSequence(xs[k]) /\ NumBindings(bs[k]) \in Nat
                        /\ Len(xs[k]) = NumBindings(bs[k])
                        /\ \A e \in Range(xs[k]) : Stored(e, InstalledBy(bs[k]))
  BY <1>1, StorageOfBinding
<1>4. DOMAIN xs = 1 .. N /\ xs = [k \in 1 .. N |-> xs[k]]
  BY <1>1
<1>5. \A e \in S : \E k \in 1 .. N : e \in Range(xs[k])
  BY <1>1
<1>6. \A k \in 1 .. N : Range(xs[k]) \subseteq S
  BY <1>1
<1> HIDE DEF xs, S, cs, N
<1>7. IsSequence(xs) /\ Len(xs) = N
  BY <1>1, <1>4, FunctionIsSequence
<1>8. \A k \in 1 .. N : xs[k] \in Seq(S)
  BY <1>3, <1>6, SequenceWithin
<1>a. ListsOver(xs, S)
  BY <1>4, <1>7, <1>8 DEF ListsOver
<1>b. PICK r : IsAdded(r, xs, N, S)
  BY <1>7, <1>a, Adding
<1>9. /\ r \in [0 .. N -> Seq(S)]
      /\ AddBindings(xs) = r[N] /\ r[0] = <<>>
      /\ \A n \in 1 .. N : r[n] = xs[n] \o r[n - 1]
  BY <1>b DEF IsAdded
<1>10. PICK num \in [0 .. N -> Nat] :
         /\ NumBindingsOfAll(bs) = num[N] /\ num[0] = 0
         /\ \A n \in 1 .. N : num[n] = NumBindings(bs[n]) + num[n - 1]
  BY <1>1, <1>3, Counting DEF N
<1>11. \A n \in 0 .. N : Len(r[n]) = num[n]
  <2> DEFINE P == {n \in 0 .. N : Len(r[n]) = num[n]}
  <2>1. 0 \in P
    BY <1>1, <1>9, <1>10
  <2>2. \A n \in 0 .. N - 1 : n \in P => n + 1 \in P
    <3> SUFFICES ASSUME NEW n \in 0 .. N - 1, n \in P
                 PROVE  n + 1 \in P
      OBVIOUS
    <3>1. n + 1 \in 1 .. N /\ n + 1 \in 0 .. N /\ (n + 1) - 1 = n /\ n \in 0 .. N
      BY <1>1
    <3>2. r[n + 1] = xs[n + 1] \o r[n] /\ r[n] \in Seq(S) /\ xs[n + 1] \in Seq(S)
      BY <1>8, <1>9, <3>1
    <3>3. Len(r[n + 1]) = Len(xs[n + 1]) + Len(r[n])
      BY <3>2
    <3>4. Len(xs[n + 1]) = NumBindings(bs[n + 1]) /\ num[n + 1] = NumBindings(bs[n + 1]) + num[n]
      BY <1>3, <1>10, <3>1
    <3> QED BY <3>1, <3>3, <3>4
  <2> HIDE DEF P
  <2>3. \A n \in 0 .. N : n \in P
    BY <1>1, <2>1, <2>2, InductionTo
  <2> QED BY <2>3 DEF P
<1>12. N \in 0 .. N /\ r[N] \in Seq(S) /\ num[N] \in Nat
  BY <1>1, <1>9, <1>10
<1>13. Len(r[N]) = num[N]
  BY <1>11, <1>12
<1>14. IsSequence(r[N]) /\ Range(r[N]) \subseteq S
  BY <1>12, SequenceOver
<1>15. \A e \in S : Stored(e, cs)
  <2> SUFFICES ASSUME NEW e \in S PROVE Stored(e, cs)
    OBVIOUS
  <2>1. PICK k \in 1 .. N : e \in Range(xs[k])
    BY <1>5
  <2>2. Stored(e, InstalledBy(bs[k])) /\ InstalledBy(bs[k]) \subseteq cs
    BY <1>2, <1>3, <2>1
  <2> QED BY <2>2 DEF Stored
<1> QED BY <1>9, <1>10, <1>12, <1>13, <1>14, <1>15 DEF xs, cs

-----------------------------------------------------------------------------
(* The calls of the user.                                                       *)
LEMMA BindingFacts ==
  ASSUME NEW b \in BindingCall, InstalledBy(b) \subseteq DOMAIN built
  PROVE  /\ FunctorOK(ProcessBinding(b)) /\ ProcessBinding(b).f \in BindingFunctor
         /\ ToInstall(ProcessBinding(b)) = InstalledBy(b)
<1> DEFINE x == ProcessBinding(b)
           dom == DOMAIN b
           form == FunctorOf[b.kind]
<1>1. x = [k \in dom \cup {"f"} |-> IF k = "f" THEN form ELSE b[k]]
  BY DEF ProcessBinding
<1> HIDE DEF x, dom, form
<1>2. x.f = form /\ \A k \in dom : k # "f" => x[k] = b[k]
  BY <1>1
<1> USE DEF form
<1>3. CASE b \in [kind : {"Bind", "AddMultibinding"}, i : ObjectType, c : ObjectType]
  <2>1. /\ b.kind \in {"Bind", "AddMultibinding"} /\ b.i \in ObjectType /\ b.c \in ObjectType
        /\ "i" \in dom /\ "c" \in dom
    BY <1>3 DEF dom
  <2>2. x.i = b.i /\ x.c = b.c
    BY <1>2, <2>1
  <2>3. x.f \in {"AddDeferredInterfaceBinding", "AddInterfaceMultibinding"}
    BY <1>2, <2>1 DEF FunctorOf
  <2>4. FunctorOK(x)
    BY <2>1, <2>2, <2>3 DEF FunctorOK, PreProcess, PostProcess
  <2>5. x.f \in BindingFunctor /\ ToInstall(x) = {} /\ InstalledBy(b) = {}
    BY <2>1, <2>3 DEF BindingFunctor, ToInstall, InstalledBy
  <2> QED BY <2>4, <2>5 DEF x
<1>4. CASE b \in [kind : {"RegisterConstructor", "RegisterFactory"}, sig : Signature]
  <2>1. b.kind \in {"RegisterConstructor", "RegisterFactory"} /\ b.sig \in Signature /\ "sig" \in dom
    BY <1>4 DEF dom
  <2>2. x.sig = b.sig
    BY <1>2, <2>1
  <2>3. x.f \in {"DeferredRegisterConstructor", "RegisterFactory"}
    BY <1>2, <2>1 DEF FunctorOf
  <2>4. FunctorOK(x)
    BY <2>1, <2>2, <2>3 DEF FunctorOK, PreProcess, PostProcess
  <2>5. x.f \in BindingFunctor /\ ToInstall(x) = {} /\ InstalledBy(b) = {}
    BY <2>1, <2>3 DEF BindingFunctor, ToInstall, InstalledBy
  <2> QED BY <2>4, <2>5 DEF x
<1>5. CASE b \in [kind : {"RegisterProvider", "AddMultibindingProvider"}, sig : ProviderSignature]
  <2>1. /\ b.kind \in {"RegisterProvider", "AddMultibindingProvider"}
        /\ b.sig \in ProviderSignature /\ b.sig \in Signature /\ "sig" \in dom
    BY <1>5 DEF dom, ProviderSignature
  <2>2. x.sig = b.sig
    BY <1>2, <2>1
  <2>3. x.f \in {"DeferredRegisterProvider", "RegisterMultibindingProvider"}
    BY <1>2, <2>1 DEF FunctorOf
  <2>4. FunctorOK(x)
    BY <2>1, <2>2, <2>3 DEF FunctorOK, PreProcess, PostProcess
  <2>5. x.f \in BindingFunctor /\ ToInstall(x) = {} /\ InstalledBy(b) = {}
    BY <2>1, <2>3 DEF BindingFunctor, ToInstall, InstalledBy
  <2> QED BY <2>4, <2>5 DEF x
<1>6. CASE b \in [kind : InstanceKind, type : GraphType]
  <2>1. b.kind \in InstanceKind /\ b.type \in GraphType /\ "type" \in dom
    BY <1>6 DEF dom
  <2>2. x.type = b.type
    BY <1>2, <2>1
  <2>3. x.f \in {"RegisterInstance", "ComponentFunctorIdentity"}
    BY <1>2, <2>1 DEF FunctorOf, InstanceKind
  <2>4. FunctorOK(x)
    BY <2>1, <2>2, <2>3 DEF FunctorOK, PreProcess, PostProcess
  <2>5. x.f \in BindingFunctor /\ ToInstall(x) = {} /\ InstalledBy(b) = {}
    BY <2>1, <2>3 DEF BindingFunctor, ToInstall, InstalledBy, InstanceKind
  <2> QED BY <2>4, <2>5 DEF x
<1>7. CASE b.kind \in {"AddInstanceVectorMultibindings", "ReplaceComponent"}
  <2>1. x.f = "ComponentFunctorIdentity"
    BY <1>2, <1>7 DEF FunctorOf
  <2>2. FunctorOK(x)
    BY <2>1 DEF FunctorOK, PreProcess, PostProcess
  <2>3. x.f \in BindingFunctor /\ ToInstall(x) = {} /\ InstalledBy(b) = {}
    BY <1>7, <2>1 DEF BindingFunctor, ToInstall, InstalledBy
  <2> QED BY <2>2, <2>3 DEF x
<1>8. CASE b \in [kind : {"InstallComponent"}, comp : Component]
  <2>1. b.kind = "InstallComponent" /\ "comp" \in dom
    BY <1>8 DEF dom
  <2>2. x.comp = b.comp /\ x.f = "InstallComponent" /\ InstalledBy(b) = {b.comp}
    BY <1>2, <2>1 DEF FunctorOf, InstalledBy
  <2>3. FunctorOK(x)
    BY <2>2 DEF FunctorOK, PreProcess, PostProcess
  <2>4. x.f \in BindingFunctor /\ ToInstall(x) = {b.comp}
    BY <2>2 DEF BindingFunctor, ToInstall
  <2> QED BY <2>2, <2>3, <2>4 DEF x
<1>9. CASE b \in [kind : {"InstallComponentFunctions"}, comps : Seq(Component)]
  <2>1. b.kind = "InstallComponentFunctions" /\ b.comps \in Seq(Component) /\ "comps" \in dom
    BY <1>9 DEF dom
  <2>2. /\ x.comps = b.comps /\ x.f = "InstallComponentFunctions"
        /\ InstalledBy(b) = Range(b.comps)
    BY <1>2, <2>1 DEF FunctorOf, InstalledBy
  <2>3. FunctorOK(x)
    BY <2>1, <2>2 DEF FunctorOK, PreProcess, PostProcess
  <2>4. x.f \in BindingFunctor /\ ToInstall(x) = Range(b.comps)
    BY <2>2 DEF BindingFunctor, ToInstall
  <2> QED BY <2>2, <2>3, <2>4 DEF x
<1>10. \/ b \in [kind : {"Bind", "AddMultibinding"}, i : ObjectType, c : ObjectType]
       \/ b \in [kind : {"RegisterConstructor", "RegisterFactory"}, sig : Signature]
       \/ b \in [kind : {"RegisterProvider", "AddMultibindingProvider"}, sig : ProviderSignature]
       \/ b \in [kind : InstanceKind, type : GraphType]
       \/ b.kind \in {"AddInstanceVectorMultibindings", "ReplaceComponent"}
       \/ b \in [kind : {"InstallComponent"}, comp : Component]
       \/ b \in [kind : {"InstallComponentFunctions"}, comps : Seq(Component)]
  BY DEF BindingCall
<1> QED BY <1>3, <1>4, <1>5, <1>6, <1>7, <1>8, <1>9, <1>10

LEMMA NothingCalled ==
  ASSUME agenda = <<>>
  PROVE  /\ Range(agenda) = {} /\ DOMAIN agenda = {} /\ Len(agenda) = 0
         /\ Ensuring /\ ~Deferring
<1>1. Range(agenda) = {} /\ DOMAIN agenda = {} /\ Len(agenda) = 0
  BY Empty
<1> QED BY <1>1 DEF Ensuring, Deferring

LEMMA AddBindingKeeps ==
  ASSUME Inv, NEW b \in BindingsOf[Len(built) + 1], AddBinding(b)
  PROVE  Inv'
<1>1. /\ status = "binding" /\ agenda = <<>> /\ ComponentsIn(b) \subseteq DOMAIN built
      /\ calls' = Append(calls, b) /\ agenda' = <<ProcessBinding(b)>>
      /\ built' = built /\ comp' = comp /\ entries' = entries /\ numEntries' = numEntries
      /\ declared' = declared /\ uses' = uses /\ status' = status
  BY DEF AddBinding
<1>2. TypeInv /\ CompInv /\ ConstInv /\ CapacityInv /\ CompressibleInv
  BY DEF Inv
<1>3. b \in BindingCall
  <2>1. Len(built) \in Nat /\ Len(built) < Len(BindingsOf)
    BY <1>1, <1>2, SequenceFacts DEF TypeInv
  <2>2. BindingsOf[Len(built) + 1] \in SUBSET BindingCall
    <3> DEFINE S == SUBSET BindingCall
    <3>1. BindingsOf \in Seq(S)
      BY BindingsAssumption
    <3> HIDE DEF S
    <3>2. BindingsOf[Len(built) + 1] \in S
      BY <2>1, <3>1
    <3> QED BY <3>2 DEF S
  <2> QED BY <2>2
<1>4. InstalledBy(b) \subseteq DOMAIN built
  BY <1>1 DEF InstalledBy, ComponentsIn
<1> DEFINE x == ProcessBinding(b)
<1>5. FunctorOK(x) /\ x.f \in BindingFunctor /\ ToInstall(x) = InstalledBy(b)
  BY <1>3, <1>4, BindingFacts
<1>6. /\ IsSequence(agenda') /\ Range(agenda') = {x} /\ DOMAIN agenda' = {1}
      /\ agenda'[1] = x
  BY <1>1, Singleton
<1> HIDE DEF x
<1>7. /\ calls' \in Seq(BindingCall) /\ DOMAIN calls' = 1 .. Len(calls) + 1
      /\ \A k \in DOMAIN calls : calls'[k] = calls[k]
      /\ calls'[Len(calls) + 1] = b
      /\ Len(calls) \in Nat /\ DOMAIN calls = 1 .. Len(calls)
  <2>1. calls \in Seq(BindingCall)
    BY <1>2 DEF TypeInv
  <2> QED BY <1>1, <1>3, <2>1
<1>8. \A k \in DOMAIN calls' : k \in DOMAIN calls \/ k = Len(calls) + 1
  BY <1>7
<1>9. TypeInv'
  <2>1. \A k \in DOMAIN calls' : InstalledBy(calls'[k]) \subseteq DOMAIN built'
    BY <1>1, <1>2, <1>4, <1>7, <1>8 DEF TypeInv
  <2>2. \A y \in Range(agenda') : FunctorOK(y)'
    BY <1>1, <1>5, <1>6 DEF FunctorOK
  <2>3. status' = "binding" => \A y \in Range(agenda') : y.f \in BindingFunctor
    BY <1>5, <1>6
  <2> QED BY <1>1, <1>2, <1>6, <1>7, <2>1, <2>2, <2>3 DEF TypeInv
<1>10. CompInv' /\ CapacityInv' /\ CompressibleInv'
  BY <1>1, <1>2 DEF CompInv, CapacityInv, CompressibleInv, Compiling, Compiled, MadeWithCompressed, IsImplementation
<1>11. EnsureInv'
  BY <1>1 DEF EnsureInv
<1>12. ConstInv'
  <2>1. Range(agenda) = {} /\ DOMAIN agenda = {}
    BY <1>1, NothingCalled
  <2>2. \A u \in uses' : u.nonConst => u.type \in comp'.NonConstRsPs
    BY <1>1, <1>2 DEF ConstInv
  <2>3. \A k \in DOMAIN agenda' : agenda'[k].f \notin PostProcess
    BY <1>5, <1>6 DEF BindingFunctor, PreProcess, PostProcess
  <2>4. \A y \in Range(comp'.DeferredBindingFunctors) : Processed(y.sig, comp')
    BY <1>1, <1>2, <2>1 DEF ConstInv
  <2>5. ASSUME NEW k \in DOMAIN calls', NEW c \in InstalledBy(calls'[k])
        PROVE  \/ ConstTypesOf(built'[c].declared.Ps) \subseteq ConstPs(comp')
               \/ \E y \in Range(agenda') : c \in ToInstall(y)
    <3>1. CASE k \in DOMAIN calls
      <4>1. c \in InstalledBy(calls[k])
        BY <1>7, <2>5, <3>1
      <4> QED BY <1>1, <1>2, <2>1, <3>1, <4>1 DEF ConstInv
    <3>2. CASE k = Len(calls) + 1
      BY <1>5, <1>6, <1>7, <2>5, <3>2
    <3> QED BY <1>8, <3>1, <3>2
  <2>6. Compiling' => \A e \in Range(entries') : e.kind # "lazy"
    BY <1>1, <1>2 DEF ConstInv, Compiling
  <2>7. ~Compiled'
    BY <1>1 DEF Compiled
  <2> QED BY <2>2, <2>3, <2>4, <2>5, <2>6, <2>7 DEF ConstInv
<1> QED BY <1>9, <1>10, <1>11, <1>12 DEF Inv

(* A compilation that has ended, with an error or with an injector.             *)
LEMMA EndKeeps ==
  ASSUME Inv, status' \in {"error", "injector"}, declared' \in ComponentType,
         UNCHANGED <<built, calls, comp, agenda, entries, numEntries, uses>>
  PROVE  Inv'
<1>1. TypeInv'
  BY DEF Inv, TypeInv, FunctorOK
<1>2. CompInv'
  BY DEF Inv, CompInv
<1>3. EnsureInv' /\ ConstInv' /\ CapacityInv' /\ CompressibleInv'
  BY DEF EnsureInv, ConstInv, CapacityInv, CompressibleInv, Compiling, Compiled
<1> QED BY <1>1, <1>2, <1>3 DEF Inv

LEMMA ConvertToKeeps ==
  ASSUME Inv, NEW d \in DeclaredOf[Len(built) + 1], ConvertTo(d)
  PROVE  Inv'
<1>1. /\ status = "binding" /\ agenda = <<>> /\ declared' = d
      /\ UNCHANGED <<built, calls, comp, entries, numEntries, uses>>
      /\ \/ status' = "error" /\ agenda' = agenda
         \/ /\ ~IsError(ConstructComponentImpl(d)) /\ status' = "converting"
            /\ agenda' = <<[f |-> "ProcessDeferredBindings"], [f |-> "ConvertComponent"]>>
  BY DEF ConvertTo
<1>2. TypeInv /\ CompInv /\ ConstInv /\ CapacityInv /\ CompressibleInv
  BY DEF Inv
<1>3. d \in ComponentType
  <2>1. Len(built) \in Nat /\ Len(built) < Len(BindingsOf)
    BY <1>1, <1>2, SequenceFacts DEF TypeInv
  <2>2. DeclaredOf[Len(built) + 1] \in SUBSET ComponentType
    <3> DEFINE S == SUBSET ComponentType
    <3>1. DeclaredOf \in Seq(S) /\ Len(DeclaredOf) = Len(BindingsOf)
      BY DeclaredAssumption
    <3> HIDE DEF S
    <3>2. DeclaredOf[Len(built) + 1] \in S
      BY <2>1, <3>1
    <3> QED BY <3>2 DEF S
  <2> QED BY <2>2
<1>4. CASE status' = "error" /\ agenda' = agenda
  BY <1>1, <1>3, <1>4, EndKeeps
<1>5. CASE /\ ~IsError(ConstructComponentImpl(d)) /\ status' = "converting"
           /\ agenda' = <<[f |-> "ProcessDeferredBindings"], [f |-> "ConvertComponent"]>>
  <2> DEFINE x == [f |-> "ProcessDeferredBindings"]
             y == [f |-> "ConvertComponent"]
  <2>1. WellDeclared(d)
    <3>1. HasDuplicates(d.Rs \o d.Ps) => IsError(ConstructComponentImpl(d))
      BY Errors DEF ConstructComponentImpl
    <3> QED BY <1>3, <1>5, <3>1 DEF WellDeclared
  <2>2. x.f = "ProcessDeferredBindings" /\ y.f = "ConvertComponent" /\ agenda' = <<x, y>>
    BY <1>5
  <2> HIDE DEF x, y
  <2>3. /\ IsSequence(agenda') /\ Range(agenda') = {x, y} /\ Len(agenda') = 2
        /\ DOMAIN agenda' = {1, 2} /\ agenda'[1] = x /\ agenda'[2] = y
    BY <2>2, Pair
  <2>4. FunctorOK(x)' /\ FunctorOK(y)'
    BY <2>2 DEF FunctorOK, PreProcess, PostProcess
  <2>5. Deferring'
    BY <2>2, <2>3 DEF Deferring
  <2>6. ~Ensuring'
    BY <2>2, <2>3 DEF Ensuring, EnsureFunctor, PreProcess, PostProcess
  <2>7. TypeInv'
    <3>1. /\ IsSequence(built') /\ \A c \in DOMAIN built' : WellDeclared(built'[c].declared)
          /\ calls' \in Seq(BindingCall)
          /\ \A k \in DOMAIN calls' : InstalledBy(calls'[k]) \subseteq DOMAIN built'
          /\ IsSequence(entries') /\ numEntries' \in Nat /\ Len(built') < Len(BindingsOf)
      BY <1>1, <1>2 DEF TypeInv
    <3> QED BY <1>1, <1>3, <1>5, <2>1, <2>3, <2>4, <2>5, <3>1 DEF TypeInv
  <2>8. CompInv' /\ CapacityInv' /\ CompressibleInv'
    BY <1>1, <1>2, <1>5 DEF CompInv, CapacityInv, CompressibleInv, Compiling, Compiled, MadeWithCompressed, IsImplementation
  <2>9. EnsureInv'
    BY <2>6 DEF EnsureInv
  <2>10. ConstInv'
    <3>1. Range(agenda) = {} /\ DOMAIN agenda = {}
      BY <1>1, NothingCalled
    <3>2. \A u \in uses' : u.nonConst => u.type \in comp'.NonConstRsPs
      BY <1>1, <1>2 DEF ConstInv
    <3>3. \A k \in DOMAIN agenda' : agenda'[k].f \notin PostProcess
      BY <2>2, <2>3 DEF PostProcess
    <3>4. \A z \in Range(comp'.DeferredBindingFunctors) : Processed(z.sig, comp')
      BY <1>1, <1>2, <3>1 DEF ConstInv
    <3>5. \A k \in DOMAIN calls' : \A c \in InstalledBy(calls'[k]) :
            ConstTypesOf(built'[c].declared.Ps) \subseteq ConstPs(comp')
      BY <1>1, <1>2, <3>1 DEF ConstInv
    <3>6. Compiling' => \A e \in Range(entries') : e.kind # "lazy"
      BY <1>1, <1>2 DEF ConstInv, Compiling
    <3>7. ~Compiled'
      BY <1>5 DEF Compiled
    <3> QED BY <3>2, <3>3, <3>4, <3>5, <3>6, <3>7 DEF ConstInv
  <2> QED BY <2>7, <2>8, <2>9, <2>10 DEF Inv
<1> QED BY <1>1, <1>4, <1>5

(* The entries of the storage come after those of the functors.                 *)
LEMMA FinishKeeps ==
  ASSUME Inv, FinishConversion
  PROVE  Inv'
<1> DEFINE es == AddBindings([k \in DOMAIN calls |-> StorageEntries(calls[k])])
           num == NumBindingsOfAll(calls)
           cs == UNION {InstalledBy(b) : b \in Range(calls)}
           new == [declared |-> declared, entries |-> entries']
<1>1. /\ status = "converting" /\ agenda = <<>> /\ status' = "compiled"
      /\ entries' = entries \o es /\ numEntries' = numEntries + num
      /\ built' = Append(built, new)
      /\ calls' = calls /\ comp' = comp /\ agenda' = agenda /\ declared' = declared
      /\ uses' = uses
  BY DEF FinishConversion, ComponentEntries
<1>2. TypeInv /\ CompInv /\ ConstInv /\ CapacityInv /\ CompressibleInv /\ EnsureInv
  BY DEF Inv
<1>3. calls \in Seq(BindingCall) /\ IsSequence(entries)
  BY <1>2 DEF TypeInv
<1>4. /\ IsSequence(es) /\ num \in Nat /\ Len(es) = num
      /\ \A e \in Range(es) : Stored(e, cs)
  BY <1>3, StorageOfCalls
<1>5. new.declared = declared
  OBVIOUS
<1> HIDE DEF es, num, new
<1>6. IsJoin(entries', entries, es)
  BY <1>1, <1>3, <1>4, Joined
<1>7. IsSequence(built)
  BY <1>2 DEF TypeInv
<1>8. /\ IsSequence(built') /\ DOMAIN built' = 1 .. Len(built) + 1
      /\ \A c \in DOMAIN built : built'[c] = built[c]
      /\ built'[Len(built) + 1] = new
      /\ DOMAIN built = 1 .. Len(built) /\ Len(built) \in Nat
  BY <1>1, <1>7, Appended, SequenceFacts
<1>9. DOMAIN built \subseteq DOMAIN built'
  BY <1>8
<1>10. WellDeclared(declared)
  BY <1>1, <1>2 DEF TypeInv
<1>11. /\ Range(agenda) = {} /\ DOMAIN agenda = {} /\ Ensuring
  BY <1>1, NothingCalled
<1>12. TypeInv'
  <2>1. \A c \in DOMAIN built' : WellDeclared(built'[c].declared)
    <3> SUFFICES ASSUME NEW c \in DOMAIN built'
                 PROVE  WellDeclared(built'[c].declared)
      OBVIOUS
    <3>1. CASE c \in DOMAIN built
      BY <1>2, <1>8, <3>1 DEF TypeInv
    <3>2. CASE c = Len(built) + 1
      BY <1>5, <1>8, <1>10, <3>2
    <3> QED BY <1>8, <3>1, <3>2
  <2>2. \A k \in DOMAIN calls' : InstalledBy(calls'[k]) \subseteq DOMAIN built'
    BY <1>1, <1>2, <1>9 DEF TypeInv
  <2>3. IsSequence(entries') /\ numEntries' \in Nat
    BY <1>1, <1>2, <1>4, <1>6 DEF TypeInv, IsJoin
  <2>4. IsSequence(agenda') /\ \A x \in Range(agenda') : FunctorOK(x)'
    BY <1>1, <1>11, Empty
  <2> QED BY <1>1, <1>2, <1>8, <1>10, <2>1, <2>2, <2>3, <2>4 DEF TypeInv
<1>13. CompInv'
  BY <1>1, <1>2 DEF CompInv
<1>14. CapacityInv'
  BY <1>1, <1>2, <1>4, <1>6 DEF TypeInv, CapacityInv, Compiling, IsJoin
<1>15. EnsureInv'
  <2>1. /\ Target' = Target /\ TargetRequirements' = TargetRequirements
        /\ TargetNonConstRequirements' = TargetNonConstRequirements
    BY <1>1 DEF Target, TargetRequirements, TargetNonConstRequirements
  <2>2. \A t, b : Covered(t, b)' <=> Covered(t, b)
    BY <1>1, <2>1 DEF Covered, Pending, InTargetRequirements
  <2>3. /\ \A t \in Target.Ps \cup comp.RsSuperset : Covered(t, FALSE)
        /\ \A t \in comp.NonConstRsPs : Covered(t, TRUE)
        /\ \A t \in Target.Ps \cap Target.NonConstRsPs : t \in comp.NonConstRsPs
    BY <1>1, <1>2, <1>11 DEF EnsureInv, Pending
  <2> QED BY <1>1, <1>11, <2>1, <2>2, <2>3 DEF EnsureInv
<1>16. ConstInv'
  <2>1. \A u \in uses' : u.nonConst => u.type \in comp'.NonConstRsPs
    BY <1>1, <1>2 DEF ConstInv
  <2>2. DOMAIN agenda' = {} /\ Range(agenda') = {}
    BY <1>1, <1>11
  <2>3. \A x \in Range(comp'.DeferredBindingFunctors) : Processed(x.sig, comp')
    BY <1>1, <1>2, <1>11 DEF ConstInv
  <2>4. \A k \in DOMAIN calls' : \A c \in InstalledBy(calls'[k]) :
          ConstTypesOf(built'[c].declared.Ps) \subseteq ConstPs(comp')
    <3> SUFFICES ASSUME NEW k \in DOMAIN calls, NEW c \in InstalledBy(calls[k])
                 PROVE  ConstTypesOf(built'[c].declared.Ps) \subseteq ConstPs(comp)
      BY <1>1
    <3>1. c \in DOMAIN built
      BY <1>2 DEF TypeInv
    <3>2. ConstTypesOf(built[c].declared.Ps) \subseteq ConstPs(comp)
      BY <1>1, <1>2, <1>11 DEF ConstInv
    <3> QED BY <1>8, <3>1, <3>2
  <2>5. ~Compiling'
    BY <1>1 DEF Compiling
  <2>6. InstalledIn(entries') \subseteq cs
    <3>1. \A e \in Range(entries) : e.kind # "lazy"
      BY <1>1, <1>2 DEF ConstInv, Compiling
    <3>2. Range(entries') = Range(entries) \cup Range(es)
      BY <1>6 DEF IsJoin
    <3>3. \A e \in Range(entries') : e.kind = "lazy" => e.comp \in cs
      BY <1>4, <3>1, <3>2 DEF Stored
    <3>4. \A k \in DOMAIN entries' : entries'[k] \in Range(entries')
      BY DEF Range
    <3> HIDE DEF cs
    <3> QED BY <3>3, <3>4 DEF InstalledIn
  <2> QED BY <1>1, <2>1, <2>2, <2>3, <2>4, <2>5, <2>6 DEF ConstInv
<1>17. CompressibleInv'
  <2>1. MadeWithCompressed(entries)
    BY <1>1, <1>2 DEF CompressibleInv, Compiling
  <2>2. \A t : IsImplementation(t)' <=> IsImplementation(t)
    BY <1>1 DEF IsImplementation
  <2>3. ASSUME NEW k \in DOMAIN entries', IsMade(entries'[k]), IsImplementation(entries'[k].type)
        PROVE  k > 1 /\ entries'[k - 1].kind = "compressed"
               /\ entries'[k - 1].c_type = entries'[k].type
    <3>1. CASE k \in 1 .. Len(entries)
      <4>1. k \in DOMAIN entries /\ entries'[k] = entries[k]
        BY <1>6, <3>1 DEF IsJoin
      <4>2. /\ k > 1 /\ entries[k - 1].kind = "compressed"
            /\ entries[k - 1].c_type = entries[k].type
        BY <2>1, <2>3, <4>1 DEF MadeWithCompressed
      <4>3. k - 1 \in 1 .. Len(entries)
        BY <1>6, <3>1, <4>2 DEF IsJoin
      <4>4. entries'[k - 1] = entries[k - 1]
        BY <1>6, <4>3 DEF IsJoin
      <4> QED BY <4>1, <4>2, <4>4
    <3>2. CASE k \notin 1 .. Len(entries)
      <4>1. k - Len(entries) \in 1 .. Len(es) /\ Len(entries) + (k - Len(entries)) = k
        BY <1>6, <3>2 DEF IsJoin
      <4>2. entries'[k] = es[k - Len(entries)] /\ k - Len(entries) \in DOMAIN es
        BY <1>6, <4>1 DEF IsJoin
      <4>3. entries'[k] \in Range(es)
        BY <4>2 DEF Range
      <4> QED BY <1>4, <2>3, <4>3 DEF Stored
    <3> QED BY <3>1, <3>2
  <2>4. MadeWithCompressed(entries)'
    BY <2>2, <2>3 DEF MadeWithCompressed
  <2> QED BY <1>1, <2>4 DEF CompressibleInv
<1> QED BY <1>12, <1>13, <1>14, <1>15, <1>16, <1>17 DEF Inv

LEMMA EmptyIsOK ==
  /\ CompOK(EmptyComp) /\ EmptyComp.DeferredBindingFunctors = <<>>
  /\ [Rs |-> <<>>, Ps |-> <<>>] \in ComponentType
<1>1. EmptyComp \in CompRecord
  BY DEF EmptyComp, ConsComp, CompRecord
<1>2. /\ EmptyComp.RsSuperset = {} /\ EmptyComp.Ps = {} /\ EmptyComp.NonConstRsPs = {}
      /\ EmptyComp.Deps = <<>> /\ EmptyComp.DeferredBindingFunctors = <<>>
  BY DEF EmptyComp, ConsComp
<1>3. IsFiniteSet({})
  BY FS_EmptySet
<1>4. DOMAIN <<>> = {}
  BY Empty
<1>5. CompOK(EmptyComp)
  <2> HIDE DEF EmptyComp
  <2> QED BY <1>1, <1>2, <1>3, <1>4 DEF CompOK
<1>6. [Rs |-> <<>>, Ps |-> <<>>] \in ComponentType
  BY DEF ComponentType
<1> QED BY <1>2, <1>5, <1>6

LEMMA Fresh ==
  ASSUME IsSequence(built), \A c \in DOMAIN built : WellDeclared(built[c].declared),
         Len(built) < Len(BindingsOf), calls = <<>>, comp = EmptyComp, agenda = <<>>,
         entries = <<>>, numEntries = 0, declared = [Rs |-> <<>>, Ps |-> <<>>],
         uses = {}, status = "binding"
  PROVE  Inv
<1>1. /\ Range(agenda) = {} /\ DOMAIN agenda = {} /\ DOMAIN calls = {}
      /\ Range(entries) = {} /\ DOMAIN entries = {} /\ IsSequence(agenda) /\ IsSequence(entries)
      /\ Len(entries) = 0
  BY Empty
<1>2. TypeInv
  <2>1. calls \in Seq(BindingCall)
    OBVIOUS
  <2>2. declared \in ComponentType
    BY EmptyIsOK
  <2> QED BY <1>1, <2>1, <2>2 DEF TypeInv
<1>3. CompInv
  BY EmptyIsOK DEF CompInv
<1>4. EnsureInv
  BY DEF EnsureInv
<1>5. ConstInv
  <2>1. Range(comp.DeferredBindingFunctors) = {}
    BY EmptyIsOK, Empty
  <2> QED BY <1>1, <2>1 DEF ConstInv, Compiled
<1>6. CapacityInv /\ CompressibleInv
  BY <1>1 DEF CapacityInv, CompressibleInv, MadeWithCompressed
<1> QED BY <1>2, <1>3, <1>4, <1>5, <1>6 DEF Inv

LEMMA InitialInvariants == Init => Inv
<1> SUFFICES ASSUME Init
             PROVE  Inv
  OBVIOUS
<1>1. IsSequence(built) /\ DOMAIN built = {} /\ Len(built) = 0
  BY Empty DEF Init
<1>2. Len(built) < Len(BindingsOf)
  <2>1. Len(BindingsOf) \in Nat
    <3> DEFINE S == SUBSET BindingCall
    <3>1. BindingsOf \in Seq(S)
      BY BindingsAssumption
    <3> HIDE DEF S
    <3> QED BY <3>1
  <2>2. 1 .. Len(BindingsOf) # {}
    BY ComponentAssumption
  <2> QED BY <1>1, <2>1, <2>2
<1> QED BY <1>1, <1>2, Fresh DEF Init

LEMMA CreateComponentKeeps ==
  ASSUME Inv, CreateComponent
  PROVE  Inv'
<1>1. IsSequence(built) /\ \A c \in DOMAIN built : WellDeclared(built[c].declared)
  BY DEF Inv, TypeInv
<1>2. /\ built' = built /\ Len(built) < Len(BindingsOf) /\ calls' = <<>>
      /\ comp' = EmptyComp /\ agenda' = <<>> /\ entries' = <<>> /\ numEntries' = 0
      /\ declared' = [Rs |-> <<>>, Ps |-> <<>>] /\ uses' = {} /\ status' = "binding"
  BY DEF CreateComponent, Start
<1>3. /\ Range(agenda') = {} /\ DOMAIN agenda' = {} /\ DOMAIN calls' = {}
      /\ Range(entries') = {} /\ DOMAIN entries' = {} /\ IsSequence(agenda')
      /\ IsSequence(entries') /\ Len(entries') = 0
  BY <1>2, Empty
<1>4. TypeInv'
  <2>1. calls' \in Seq(BindingCall)
    BY <1>2
  <2>2. declared' \in ComponentType
    BY <1>2, EmptyIsOK
  <2> QED BY <1>1, <1>2, <1>3, <2>1, <2>2 DEF TypeInv
<1>5. CompInv' /\ EnsureInv'
  BY <1>2, EmptyIsOK DEF CompInv, EnsureInv
<1>6. ConstInv'
  <2>1. Range(comp'.DeferredBindingFunctors) = {}
    BY <1>2, EmptyIsOK, Empty
  <2> QED BY <1>2, <1>3, <2>1 DEF ConstInv, Compiled
<1>7. CapacityInv' /\ CompressibleInv'
  BY <1>2, <1>3 DEF CapacityInv, CompressibleInv, MadeWithCompressed
<1> QED BY <1>4, <1>5, <1>6, <1>7 DEF Inv

LEMMA UnchangedKeeps ==
  ASSUME Inv, UNCHANGED vars
  PROVE  Inv'
<1>1. /\ built' = built /\ calls' = calls /\ comp' = comp /\ agenda' = agenda
      /\ entries' = entries /\ numEntries' = numEntries /\ declared' = declared
      /\ uses' = uses /\ status' = status
  BY DEF vars
<1>2. TypeInv'
  BY <1>1 DEF Inv, TypeInv, FunctorOK, Deferring, Ensuring
<1>3. CompInv'
  BY <1>1 DEF Inv, CompInv
<1>4. EnsureInv'
  <2>1. /\ Target' = Target /\ TargetRequirements' = TargetRequirements
        /\ TargetNonConstRequirements' = TargetNonConstRequirements
    BY <1>1 DEF Target, TargetRequirements, TargetNonConstRequirements
  <2>2. \A t, b : (Covered(t, b)' <=> Covered(t, b)) /\ (Pending(t, b)' <=> Pending(t, b))
    BY <1>1, <2>1 DEF Covered, Pending, InTargetRequirements
  <2>3. Ensuring' <=> Ensuring
    BY <1>1 DEF Ensuring
  <2> QED BY <1>1, <2>1, <2>2, <2>3 DEF Inv, EnsureInv
<1>5. ConstInv' /\ CapacityInv'
  BY <1>1 DEF Inv, ConstInv, CapacityInv, Compiling, Compiled
<1>6. CompressibleInv'
  BY <1>1 DEF Inv, CompressibleInv, Compiling, Compiled, MadeWithCompressed, IsImplementation
<1> QED BY <1>2, <1>3, <1>4, <1>5, <1>6 DEF Inv

LEMMA FunctorKeeps ==
  ASSUME Inv, Keeps, NEW f, Calling(f), f # "ConvertComponent"
  PROVE  Inv'
<1>1. Called.f = f
  BY DEF Calling, Called
<1> QED BY <1>1, KeptInvariants

LEMMA InjectorKeeps ==
  ASSUME Inv, NEW n \in DOMAIN built, NEW c \in DOMAIN built,
         NEW P \in {built[n].declared.Ps, built[c].declared.Ps},
         CreateInjectorFromNormalized(n, c, P)
  PROVE  Inv'
<1>1. declared \in ComponentType /\ P \in Seq(Parameter)
  <2>1. built[n].declared \in ComponentType /\ built[c].declared \in ComponentType
    BY DEF Inv, TypeInv, WellDeclared
  <2>2. declared \in ComponentType
    BY DEF Inv, TypeInv
  <2>3. \A d \in ComponentType : d.Ps \in Seq(Parameter)
    BY DEF ComponentType
  <2> QED BY <2>1, <2>2, <2>3
<1>2. [Rs |-> <<>>, Ps |-> P] \in ComponentType
  BY <1>1 DEF ComponentType
<1>3. /\ status' \in {"error", "injector"}
      /\ declared' = declared \/ declared' = [Rs |-> <<>>, Ps |-> P]
      /\ UNCHANGED <<built, calls, comp, agenda, entries, numEntries, uses>>
  BY DEF CreateInjectorFromNormalized, Fail
<1> QED BY <1>1, <1>2, <1>3, EndKeeps

LEMMA StepKeeps ==
  ASSUME Inv, [Next]_vars
  PROVE  Inv'
<1>1. CASE ComponentFunctorIdentity \/ LeaveCatch
  <2>1. Keeps
    BY <1>1, KeepsIdentity
  <2>2. Calling("ComponentFunctorIdentity") \/ Calling("Catch")
    BY <1>1 DEF ComponentFunctorIdentity, LeaveCatch
  <2> QED BY <2>1, <2>2, FunctorKeeps
<1>2. CASE AddDeferredInterfaceBinding
  BY <1>2, KeepsDeferredInterface, FunctorKeeps DEF AddDeferredInterfaceBinding
<1>3. CASE ProcessInterfaceBinding
  BY <1>3, KeepsInterfaceBinding, FunctorKeeps DEF ProcessInterfaceBinding
<1>4. CASE AddInterfaceMultibinding
  BY <1>4, KeepsInterfaceMultibinding, FunctorKeeps DEF AddInterfaceMultibinding
<1>5. CASE DeferredRegisterConstructor \/ DeferredRegisterProvider
  <2>1. Keeps
    BY <1>5, KeepsDeferred
  <2>2. Calling("DeferredRegisterConstructor") \/ Calling("DeferredRegisterProvider")
    BY <1>5 DEF DeferredRegisterConstructor, DeferredRegisterProvider
  <2> QED BY <2>1, <2>2, FunctorKeeps
<1>6. CASE PreProcessRegisterConstructor \/ PreProcessRegisterProvider
  <2>1. Keeps
    BY <1>6, KeepsPreProcessed
  <2>2. Calling("PreProcessRegisterConstructor") \/ Calling("PreProcessRegisterProvider")
    BY <1>6 DEF PreProcessRegisterConstructor, PreProcessRegisterProvider
  <2> QED BY <2>1, <2>2, FunctorKeeps
<1>7. CASE PostProcessRegisterConstructor \/ PostProcessRegisterProvider
  <2>1. Keeps
    BY <1>7, KeepsPostProcessed
  <2>2. Calling("PostProcessRegisterConstructor") \/ Calling("PostProcessRegisterProvider")
    BY <1>7 DEF PostProcessRegisterConstructor, PostProcessRegisterProvider
  <2> QED BY <2>1, <2>2, FunctorKeeps
<1>8. CASE RegisterMultibindingProvider
  BY <1>8, KeepsMultibindingProvider, FunctorKeeps DEF RegisterMultibindingProvider
<1>9. CASE RegisterInstance
  BY <1>9, KeepsInstance, FunctorKeeps DEF RegisterInstance
<1>10. CASE RegisterFactory
  BY <1>10, KeepsFactory, FunctorKeeps DEF RegisterFactory
<1>11. CASE InstallComponent
  BY <1>11, KeepsInstall, FunctorKeeps DEF InstallComponent
<1>12. CASE InstallEachComponent
  BY <1>12, KeepsInstallEach, FunctorKeeps DEF InstallEachComponent
<1>13. CASE ProcessDeferredBindings
  BY <1>13, KeepsProcessDeferred, FunctorKeeps DEF ProcessDeferredBindings
<1>14. CASE ConvertComponent
  BY <1>14, ConvertKeeps
<1>15. CASE EnsureProvidedType
  BY <1>15, KeepsEnsureProvidedType, FunctorKeeps DEF EnsureProvidedType
<1>16. CASE AutoRegisterClass
  BY <1>16, KeepsAutoRegisterClass, FunctorKeeps DEF AutoRegisterClass
<1>17. CASE AutoRegisterFactory
  BY <1>17, KeepsAutoRegisterFactory, FunctorKeeps DEF AutoRegisterFactory
<1>18. CASE CheckVirtualDestructor
  BY <1>18, KeepsCheckVirtualDestructor, FunctorKeeps DEF CheckVirtualDestructor
<1>19. ASSUME status = "binding", NEW b \in BindingsOf[Len(built) + 1], AddBinding(b)
       PROVE  Inv'
  BY <1>19, AddBindingKeeps
<1>20. ASSUME status = "binding", NEW d \in DeclaredOf[Len(built) + 1], ConvertTo(d)
       PROVE  Inv'
  BY <1>20, ConvertToKeeps
<1>21. CASE CheckNoLoopInDeps
  <2>1. Fails
    BY <1>21 DEF CheckNoLoopInDeps, Fail, Fails
  <2> QED BY <2>1, FailStep
<1>22. CASE FinishConversion
  BY <1>22, FinishKeeps
<1>23. CASE CreateComponent
  BY <1>23, CreateComponentKeeps
<1>24. ASSUME NEW c \in DOMAIN built, CreateInjector(c)
       PROVE  Inv'
  <2>1. declared \in ComponentType
    BY DEF Inv, TypeInv
  <2> QED BY <1>24, <2>1, EndKeeps DEF CreateInjector
<1>25. ASSUME NEW n \in DOMAIN built, NEW c \in DOMAIN built,
              NEW P \in {built[n].declared.Ps, built[c].declared.Ps},
              n # c /\ CreateInjectorFromNormalized(n, c, P)
       PROVE  Inv'
  BY <1>25, InjectorKeeps
<1>26. CASE Terminated \/ UNCHANGED vars
  BY <1>26, UnchangedKeeps DEF Terminated
<1> QED BY <1>1, <1>2, <1>3, <1>4, <1>5, <1>6, <1>7, <1>8, <1>9, <1>10, <1>11, <1>12,
           <1>13, <1>14, <1>15, <1>16, <1>17, <1>18, <1>19, <1>20, <1>21, <1>22, <1>23,
           <1>24, <1>25, <1>26 DEF Next

(* The invariants of the meta program hold in every state of a compilation.     *)
THEOREM DeductionInvariant == Spec => []Inv
<1>1. Init => Inv
  BY InitialInvariants
<1>2. Inv /\ [Next]_vars => Inv'
  BY StepKeeps
<1> QED BY <1>1, <1>2, PTL DEF Spec

-----------------------------------------------------------------------------
(* What the invariants say of a component that compiles.                        *)
LEMMA NothingIsPending ==
  ASSUME Inv, Compiled
  PROVE  /\ agenda = <<>> /\ Range(agenda) = {}
         /\ \A t \in Target.Ps \cup comp.RsSuperset :
              t \in comp.Ps \/ t \in TargetRequirements
         /\ \A t \in comp.NonConstRsPs :
              t \in comp.Ps \/ t \in TargetNonConstRequirements
         /\ \A t \in Target.Ps \cap Target.NonConstRsPs : t \in comp.NonConstRsPs
<1>1. status = "compiled" /\ TypeInv /\ EnsureInv
  BY DEF Compiled, Inv
<1>2. agenda = <<>>
  BY <1>1 DEF TypeInv
<1>3. Range(agenda) = {} /\ Ensuring
  BY <1>2, NothingCalled
<1>4. \A t, nonConst : ~Pending(t, nonConst)
  BY <1>3 DEF Pending
<1>5. /\ \A t \in Target.Ps \cup comp.RsSuperset : Covered(t, FALSE)
      /\ \A t \in comp.NonConstRsPs : Covered(t, TRUE)
      /\ \A t \in Target.Ps \cap Target.NonConstRsPs :
           t \in comp.NonConstRsPs \/ Pending(t, TRUE)
  BY <1>1, <1>3 DEF EnsureInv
<1> QED BY <1>2, <1>3, <1>4, <1>5 DEF Covered, InTargetRequirements

(* The invariants that the comments on Comp state: each provided type heads one  *)
(* Dep, a Dep leads to requirements, and non-const is provided or required.      *)
THEOREM CompStaysConsistent == Spec => []CompIsConsistent
<1>1. Inv => CompIsConsistent
  <2> SUFFICES ASSUME Inv
               PROVE  CompIsConsistent
    OBVIOUS
  <2>1. CompOK(comp)
    BY DEF Inv, CompInv
  <2>2. ASSUME NEW t \in comp.Ps
        PROVE  Cardinality({k \in DOMAIN comp.Deps : comp.Deps[k].th.type = t}) = 1
    <3>1. PICK k \in DOMAIN comp.Deps : comp.Deps[k].th.type = t
      BY <2>1 DEF CompOK
    <3>2. {j \in DOMAIN comp.Deps : comp.Deps[j].th.type = t} = {k}
      BY <2>1, <3>1 DEF CompOK
    <3> QED BY <3>2, FS_Singleton
  <2>3. \A k \in DOMAIN comp.Deps : comp.Deps[k].th.type \in comp.Ps
    BY <2>1 DEF CompOK
  <2> QED BY <2>1, <2>2, <2>3 DEF CompIsConsistent, CompOK
<1> QED BY <1>1, DeductionInvariant, PTL

(* CheckComponentEntails, for every program: what compiles provides what it      *)
(* declares and requires no more, with the constness it declares.               *)
THEOREM CompiledEntails == Spec => []Entails
<1>1. Inv => Entails
  <2> SUFFICES ASSUME Inv, Compiled
               PROVE  /\ Target.Ps \subseteq comp.Ps
                      /\ RequirementsOf(comp) \subseteq TargetRequirements
                      /\ NonConstRs(comp) \subseteq Target.NonConstRsPs
                      /\ Target.Ps \cap Target.NonConstRsPs \subseteq comp.NonConstRsPs
    BY DEF Entails
  <2>1. TargetRequirements \cap Target.Ps = {}
    BY DEF TargetRequirements, RequirementsOf
  <2>2. TargetNonConstRequirements \subseteq Target.NonConstRsPs
    BY DEF TargetNonConstRequirements, NonConstRs
  <2> QED BY <2>1, <2>2, NothingIsPending DEF RequirementsOf, NonConstRs
<1> QED BY <1>1, DeductionInvariant, PTL

(* The vector that is reserved with the number of entries that the Ops and the   *)
(* storage announce is filled exactly: no push_back goes past it.                *)
THEOREM EntriesFillTheirCapacity == Spec => []CapacityIsExact
<1>1. Inv => CapacityIsExact
  BY DEF Inv, CapacityInv, CapacityIsExact
<1> QED BY <1>1, DeductionInvariant, PTL

(* A class that an interface is bound to always comes with the compressed entry,  *)
(* in whatever order bind() and the constructor or the provider are called.       *)
THEOREM CompressibleAlways == Spec => []CompressibleInEveryOrder
<1>1. Inv => CompressibleInEveryOrder
  <2> SUFFICES ASSUME Inv, Compiled,
                      NEW k \in BindingEntries(entries),
                      entries[k].create.fn \in {"constructor", "provider"},
                      \E j \in DOMAIN comp.InterfaceBindings :
                        comp.InterfaceBindings[j].c = entries[k].type
               PROVE  /\ k > 1
                      /\ entries[k - 1].kind = "compressed"
                      /\ entries[k - 1].c_type = entries[k].type
    BY DEF CompressibleInEveryOrder
  <2>1. k \in DOMAIN entries /\ IsMade(entries[k]) /\ IsImplementation(entries[k].type)
    BY DEF BindingEntries, IsMade, IsImplementation
  <2>2. MadeWithCompressed(entries)
    BY DEF Inv, CompressibleInv
  <2> QED BY <2>1, <2>2 DEF MadeWithCompressed
<1> QED BY <1>1, DeductionInvariant, PTL

(* What a subcomponent provides as const, or the component requires as const, is  *)
(* requested by no entry as something that can be modified.                      *)
THEOREM ConstOfOthersRespected == Spec => []ConstOfOthersIsRespected
<1>1. Inv => ConstOfOthersIsRespected
  <2> SUFFICES ASSUME Inv, Compiled, NEW u \in uses, u.nonConst
               PROVE  /\ u.type \notin {p.type : p \in {q \in UNION {DeclaredParams(c) :
                                          c \in InstalledIn(entries)} : q.const}}
                      /\ u.type \notin TargetRequirements \ (Target.NonConstRsPs \cup comp.Ps)
    BY DEF ConstOfOthersIsRespected
  <2>1. u.type \in comp.NonConstRsPs
    BY DEF Inv, ConstInv, Compiled
  <2>2. ASSUME NEW c \in InstalledIn(entries), NEW p \in DeclaredParams(c), p.const
        PROVE  u.type # p.type
    <3>1. PICK k \in DOMAIN calls : c \in InstalledBy(calls[k])
      <4>1. PICK b \in Range(calls) : c \in InstalledBy(b)
        BY <2>2 DEF Inv, ConstInv
      <4> QED BY <4>1 DEF Range
    <3>2. ConstTypesOf(built[c].declared.Ps) \subseteq ConstPs(comp)
      BY <3>1, NothingIsPending DEF Inv, ConstInv, Compiled
    <3>3. p.type \in ConstTypesOf(built[c].declared.Ps)
      BY <2>2 DEF DeclaredParams, ConstTypesOf, Range
    <3> QED BY <2>1, <3>2, <3>3 DEF ConstPs
  <2>3. u.type \notin TargetRequirements \ (Target.NonConstRsPs \cup comp.Ps)
    BY <2>1, NothingIsPending DEF TargetNonConstRequirements, NonConstRs
  <2> QED BY <2>2, <2>3
<1> QED BY <1>1, DeductionInvariant, PTL

-----------------------------------------------------------------------------
(* The arguments of a factory.  As many of the arguments after the first m are   *)
(* assisted as there are in all but among the first m.                          *)
SortedArg(a) == IsAssisted(a) \in BOOLEAN
CountOf(args, b, n) == Cardinality(Before(args, b, n))

LEMMA CountStep ==
  ASSUME NEW args, NEW b, NEW n \in Nat
  PROVE  /\ CountOf(args, b, n) \in Nat /\ CountOf(args, b, 0) = 0
         /\ IsAssisted(args[n + 1]) = b => CountOf(args, b, n + 1) = CountOf(args, b, n) + 1
         /\ IsAssisted(args[n + 1]) # b => CountOf(args, b, n + 1) = CountOf(args, b, n)
<1>1. CountOf(args, b, n) \in Nat /\ CountOf(args, b, 0) = 0
  BY CountBefore DEF CountOf
<1>2. CountOf(args, b, n + 1) = CountOf(args, b, n) + (IF IsOfSort(args, b, n + 1) THEN 1 ELSE 0)
  BY CountBefore DEF CountOf
<1> QED BY <1>1, <1>2 DEF IsOfSort

LEMMA CountBoth ==
  ASSUME NEW args, NEW N \in Nat, \A k \in 1 .. N : SortedArg(args[k])
  PROVE  \A n \in 0 .. N : CountOf(args, TRUE, n) + CountOf(args, FALSE, n) = n
<1> DEFINE P == {n \in 0 .. N : CountOf(args, TRUE, n) + CountOf(args, FALSE, n) = n}
<1>1. 0 \in P
  <2>1. CountOf(args, TRUE, 0) = 0 /\ CountOf(args, FALSE, 0) = 0
    BY CountStep
  <2> DEFINE t == CountOf(args, TRUE, 0)
             f == CountOf(args, FALSE, 0)
  <2>2. t = 0 /\ f = 0
    BY <2>1
  <2> HIDE DEF t, f
  <2>3. t + f = 0 /\ 0 \in 0 .. N
    BY <2>2
  <2> QED BY <2>3 DEF t, f
<1>2. \A n \in 0 .. N - 1 : n \in P => n + 1 \in P
  <2> SUFFICES ASSUME NEW n \in 0 .. N - 1, n \in P
               PROVE  n + 1 \in P
    OBVIOUS
  <2>1. n \in Nat /\ n + 1 \in 1 .. N /\ n + 1 \in 0 .. N
    OBVIOUS
  <2>2. IsAssisted(args[n + 1]) = TRUE \/ IsAssisted(args[n + 1]) = FALSE
    BY <2>1 DEF SortedArg
  <2> DEFINE t == CountOf(args, TRUE, n)
             f == CountOf(args, FALSE, n)
             t1 == CountOf(args, TRUE, n + 1)
             f1 == CountOf(args, FALSE, n + 1)
  <2>3. t \in Nat /\ f \in Nat /\ t + f = n
    BY <2>1, CountStep
  <2>4. (t1 = t + 1 /\ f1 = f) \/ (t1 = t /\ f1 = f + 1)
    <3>1. CASE IsAssisted(args[n + 1]) = TRUE
      <4>1. IsAssisted(args[n + 1]) # FALSE
        BY <3>1
      <4> QED BY <2>1, <3>1, <4>1, CountStep
    <3>2. CASE IsAssisted(args[n + 1]) = FALSE
      <4>1. IsAssisted(args[n + 1]) # TRUE
        BY <3>2
      <4> QED BY <2>1, <3>2, <4>1, CountStep
    <3> QED BY <2>2, <3>1, <3>2
  <2> HIDE DEF t, f, t1, f1
  <2>5. t1 + f1 = n + 1
    BY <2>1, <2>3, <2>4
  <2> QED BY <2>1, <2>5 DEF t1, f1
<1> HIDE DEF P
<1>3. \A n \in 0 .. N : n \in P
  BY <1>1, <1>2, InductionTo
<1> QED BY <1>3 DEF P

LEMMA CountRest ==
  ASSUME NEW args, IsSequence(args), NEW m \in 0 .. Len(args)
  PROVE  LET sub == SubSeq(args, m + 1, Len(args))
         IN  /\ IsSequence(sub) /\ Len(sub) = Len(args) - m
             /\ CountOf(sub, TRUE, Len(sub))
                  = CountOf(args, TRUE, Len(args)) - CountOf(args, TRUE, m)
<1> DEFINE sub == SubSeq(args, m + 1, Len(args))
           N == Len(args)
           R == N - m
           c(n) == CountOf(args, TRUE, n)
           d(n) == CountOf(sub, TRUE, n)
<1>1. N \in Nat /\ DOMAIN args = 1 .. N /\ \A i \in DOMAIN args : args[i] \in Range(args)
  BY SequenceFacts
<1>2. m \in Nat /\ R \in Nat /\ m + R = N /\ m + 1 \in Int /\ N \in Int
      /\ \A i \in m + 1 .. N : args[i] \in Range(args)
  BY <1>1
<1>3. /\ sub \in Seq(Range(args)) /\ Len(sub) = (IF m + 1 <= N THEN N - (m + 1) + 1 ELSE 0)
      /\ \A i \in 1 .. N - (m + 1) + 1 : sub[i] = args[(m + 1) + i - 1]
  <2> DEFINE S == Range(args)
             first == m + 1
  <2>1. first \in Int /\ N \in Int /\ \A i \in first .. N : args[i] \in S
    BY <1>2
  <2> HIDE DEF S, first, N
  <2>2. /\ SubSeq(args, first, N) \in Seq(S)
        /\ Len(SubSeq(args, first, N)) = (IF first <= N THEN N - first + 1 ELSE 0)
        /\ \A i \in 1 .. N - first + 1 : SubSeq(args, first, N)[i] = args[first + i - 1]
    BY <2>1, SubSeqProperties
  <2> QED BY <2>2 DEF S, first, N
<1>4. IsSequence(sub)
  BY <1>3, SequenceOver
<1> HIDE DEF sub
<1>5. Len(sub) = R
  <2>1. CASE m + 1 <= N
    <3>1. Len(sub) = N - (m + 1) + 1
      BY <1>3, <2>1
    <3> QED BY <1>1, <1>2, <3>1
  <2>2. CASE ~(m + 1 <= N)
    <3>1. Len(sub) = 0
      BY <1>3, <2>2
    <3> HIDE DEF N, R
    <3>2. N \in Nat /\ m \in Nat /\ R \in Nat /\ m + R = N
      BY <1>1, <1>2
    <3>3. R = 0
      BY ONLY <2>2, <3>2
    <3> QED BY <3>1, <3>3
  <2> QED BY <2>1, <2>2
<1>6. \A n \in 0 .. R - 1 : /\ n + 1 \in 1 .. N - (m + 1) + 1
                           /\ (m + 1) + (n + 1) - 1 = (m + n) + 1
                           /\ n \in Nat /\ m + n \in Nat /\ n + 1 \in 0 .. R
                           /\ m + (n + 1) = (m + n) + 1
  BY <1>1, <1>2
<1>7. \A n \in 0 .. R - 1 : sub[n + 1] = args[(m + n) + 1]
  BY <1>3, <1>6
<1> DEFINE P == {n \in 0 .. R : d(n) = c(m + n) - c(m)}
<1>8. 0 \in P
  <2>1. d(0) = 0 /\ c(m) \in Nat
    <3>1. c(m) \in Nat
      BY <1>2, CountStep
    <3>2. d(0) = 0
      BY CountStep
    <3> QED BY <3>1, <3>2
  <2> HIDE DEF c, d
  <2>2. m + 0 = m /\ 0 \in 0 .. R
    BY <1>2
  <2>3. d(0) = c(m + 0) - c(m)
    BY <2>1, <2>2
  <2> QED BY <2>2, <2>3
<1>9. \A n \in 0 .. R - 1 : n \in P => n + 1 \in P
  <2> SUFFICES ASSUME NEW n \in 0 .. R - 1, n \in P
               PROVE  n + 1 \in P
    OBVIOUS
  <2> DEFINE k == m + n
  <2>1. n \in Nat /\ k \in Nat /\ n + 1 \in 0 .. R /\ m + (n + 1) = k + 1
        /\ sub[n + 1] = args[k + 1]
    BY <1>6, <1>7
  <2>2. d(n) \in Nat /\ c(k) \in Nat /\ c(m) \in Nat
    BY <1>2, <2>1, CountStep
  <2>3. d(n) = c(k) - c(m)
    OBVIOUS
  <2> HIDE DEF k
  <2>4. (d(n + 1) = d(n) + 1 /\ c(k + 1) = c(k) + 1) \/ (d(n + 1) = d(n) /\ c(k + 1) = c(k))
    <3>1. CASE IsAssisted(sub[n + 1]) = TRUE
      <4>1. d(n + 1) = d(n) + 1
        BY <2>1, <3>1, CountStep
      <4>2. IsAssisted(args[k + 1]) = TRUE
        BY <2>1, <3>1
      <4>3. c(k + 1) = c(k) + 1
        BY <2>1, <4>2, CountStep
      <4> QED BY <4>1, <4>3
    <3>2. CASE IsAssisted(sub[n + 1]) # TRUE
      <4>1. d(n + 1) = d(n)
        BY <2>1, <3>2, CountStep
      <4>2. IsAssisted(args[k + 1]) # TRUE
        BY <2>1, <3>2
      <4>3. c(k + 1) = c(k)
        BY <2>1, <4>2, CountStep
      <4> QED BY <4>1, <4>3
    <3> QED BY <3>1, <3>2
  <2> HIDE DEF c, d
  <2>5. d(n + 1) = c(k + 1) - c(m)
    BY <2>2, <2>3, <2>4
  <2>6. c(m + (n + 1)) = c(k + 1)
    BY <2>1
  <2> QED BY <2>1, <2>5, <2>6
<1> HIDE DEF P
<1>10. \A n \in 0 .. R : n \in P
  <2> HIDE DEF R
  <2> QED BY <1>2, <1>8, <1>9, InductionTo
<1>11. R \in 0 .. R
  BY <1>2
<1>12. R \in P
  BY <1>10, <1>11
<1>13. d(R) = c(m + R) - c(m)
  BY <1>12 DEF P
<1>14. c(m + R) = c(N)
  <2> HIDE DEF c, R
  <2> QED BY <1>2
<1> QED BY <1>4, <1>5, <1>13, <1>14 DEF sub

LEMMA AssistedIsCounted ==
  ASSUME NEW args, IsSequence(args), \A k \in DOMAIN args : SortedArg(args[k])
  PROVE  NumAssisted(args) = CountOf(args, TRUE, Len(args))
<1>1. DOMAIN args = 1 .. Len(args)
  BY SequenceFacts
<1>2. \A k \in DOMAIN args : IsAssisted(args[k]) <=> IsAssisted(args[k]) = TRUE
  BY DEF SortedArg
<1>3. {i \in DOMAIN args : IsAssisted(args[i])} = Before(args, TRUE, Len(args))
  BY <1>1, <1>2 DEF Before, IsOfSort
<1> QED BY <1>3 DEF NumAssisted, CountOf

LEMMA AssistedBefore ==
  ASSUME NEW args, IsSequence(args), \A k \in DOMAIN args : SortedArg(args[k]),
         NEW m \in 0 .. Len(args)
  PROVE  NumAssistedBefore(m, args) = CountOf(args, TRUE, m)
<1> DEFINE sub == SubSeq(args, m + 1, Len(args))
           N == Len(args)
<1>1. N \in Nat /\ DOMAIN args = 1 .. N /\ m \in Nat
  BY SequenceFacts
<1>2. /\ IsSequence(sub) /\ Len(sub) = N - m
      /\ CountOf(sub, TRUE, Len(sub)) = CountOf(args, TRUE, N) - CountOf(args, TRUE, m)
  BY CountRest
<1>3. \A k \in DOMAIN sub : SortedArg(sub[k])
  <2> SUFFICES ASSUME NEW k \in DOMAIN sub
               PROVE  SortedArg(sub[k])
    OBVIOUS
  <2>1. k \in 1 .. N - m
    BY <1>2, SequenceFacts
  <2>2. sub[k] = args[m + k] /\ m + k \in 1 .. N
    <3>1. \A i \in m + 1 .. N : args[i] \in Range(args)
      BY <1>1 DEF Range
    <3>2. \A i \in 1 .. N - (m + 1) + 1 : sub[i] = args[(m + 1) + i - 1]
      <4> DEFINE S == Range(args)
                 first == m + 1
      <4>1. first \in Int /\ N \in Int /\ \A i \in first .. N : args[i] \in S
        BY <1>1, <3>1
      <4> HIDE DEF S, first, N
      <4>2. \A i \in 1 .. N - first + 1 : SubSeq(args, first, N)[i] = args[first + i - 1]
        BY <4>1, SubSeqProperties
      <4> QED BY <4>2 DEF first, N
    <3>3. k \in 1 .. N - (m + 1) + 1 /\ (m + 1) + k - 1 = m + k /\ m + k \in 1 .. N
      BY <1>1, <2>1
    <3> HIDE DEF sub
    <3> QED BY <3>2, <3>3
  <2> HIDE DEF sub
  <2> QED BY <1>1, <2>2
<1>4. NumAssisted(args) = CountOf(args, TRUE, N) /\ NumAssisted(sub) = CountOf(sub, TRUE, Len(sub))
  <2> HIDE DEF sub
  <2> QED BY <1>2, <1>3, AssistedIsCounted
<1>5. CountOf(args, TRUE, N) \in Nat /\ CountOf(args, TRUE, m) \in Nat
  BY <1>1, CountStep
<1>6. NumAssistedBefore(m, args) = NumAssisted(args) - NumAssisted(sub)
  BY DEF NumAssistedBefore
<1> DEFINE a == CountOf(args, TRUE, N)
           b == CountOf(args, TRUE, m)
<1>7. a \in Nat /\ b \in Nat /\ NumAssistedBefore(m, args) = a - (a - b)
  BY <1>2, <1>4, <1>5, <1>6
<1> HIDE DEF a, b
<1>8. NumAssistedBefore(m, args) = b
  BY <1>7
<1> QED BY <1>8 DEF b

LEMMA ArgsInPlace ==
  ASSUME NEW args \in Seq(InjectedArg \cup AssistedArg)
  PROVE  LET placed == [k \in DOMAIN args |-> [assisted |-> IsAssisted(args[k]), place |-> k]]
             passed == InvocationArgs(args, RemoveAssisted(placed), Sift(placed, TRUE))
         IN  \A k \in DOMAIN args : passed[k].place = k
<1> DEFINE placed == [k \in DOMAIN args |-> [assisted |-> IsAssisted(args[k]), place |-> k]]
           passed == InvocationArgs(args, RemoveAssisted(placed), Sift(placed, TRUE))
           N == Len(args)
<1>1. IsSequence(args) /\ N \in Nat /\ DOMAIN args = 1 .. N
  BY SequenceOver, SequenceFacts
<1>2. \A k \in DOMAIN args : SortedArg(args[k])
  <2>1. \A k \in DOMAIN args : args[k] \in InjectedArg \cup AssistedArg
    OBVIOUS
  <2>2. \A a \in InjectedArg \cup AssistedArg : IsAssisted(a) \in BOOLEAN
    BY DEF InjectedArg, AssistedArg, IsAssisted
  <2> QED BY <2>1, <2>2 DEF SortedArg
<1>3. /\ DOMAIN placed = 1 .. N
      /\ \A k \in 1 .. N : placed[k].place = k /\ IsAssisted(placed[k]) = IsAssisted(args[k])
  BY <1>1 DEF IsAssisted
<1>4. placed = [k \in 1 .. N |-> placed[k]]
  BY <1>1
<1> HIDE DEF placed
<1>5. IsSequence(placed) /\ Len(placed) = N
  BY <1>1, <1>3, <1>4, FunctionIsSequence
<1>6. \A b : \A n \in 0 .. N : CountOf(placed, b, n) = CountOf(args, b, n)
  <2> SUFFICES ASSUME NEW b, NEW n \in 0 .. N
               PROVE  CountOf(placed, b, n) = CountOf(args, b, n)
    OBVIOUS
  <2>1. \A i \in 1 .. n : i \in 1 .. N
    BY <1>1
  <2>2. Before(placed, b, n) = Before(args, b, n)
    BY <1>3, <2>1 DEF Before, IsOfSort
  <2> QED BY <2>2 DEF CountOf
<1>7. ASSUME NEW k \in 1 .. N
      PROVE  passed[k] = placed[k]
  <2> DEFINE m == k - 1
             before == NumAssistedBefore(m, args)
  <2>1. m \in 0 .. N /\ m \in Nat /\ m + 1 = k /\ k \in DOMAIN placed /\ k \in 0 .. N
        /\ k \in DOMAIN args
    BY <1>1, <1>3
  <2>2. before = CountOf(args, TRUE, m)
    <3> HIDE DEF m
    <3> QED BY <1>1, <1>2, <2>1, AssistedBefore
  <2>3. passed[k] = GetAssistedArg(k - 1, args, RemoveAssisted(placed), Sift(placed, TRUE))
    BY <2>1 DEF InvocationArgs
  <2>4. passed[k] = IF IsAssisted(args[k]) THEN Sift(placed, TRUE)[before + 1]
                                          ELSE Sift(placed, FALSE)[m - before + 1]
    <3>1. (k - 1) + 1 = k
      BY <2>1
    <3> QED BY <2>3, <3>1 DEF GetAssistedArg, RemoveAssisted
  <2>5. CountOf(args, TRUE, m) + CountOf(args, FALSE, m) = m
        /\ CountOf(args, TRUE, m) \in Nat /\ CountOf(args, FALSE, m) \in Nat
    <3>1. \A i \in 1 .. N : SortedArg(args[i])
      BY <1>1, <1>2
    <3>2. \A n \in 0 .. N : CountOf(args, TRUE, n) + CountOf(args, FALSE, n) = n
      BY <1>1, <3>1, CountBoth
    <3>3. CountOf(args, TRUE, m) \in Nat /\ CountOf(args, FALSE, m) \in Nat
      BY <2>1, CountStep
    <3> HIDE DEF m
    <3> QED BY <2>1, <3>2, <3>3
  <2> HIDE DEF m, before
  <2>6. CASE IsAssisted(args[k]) = TRUE
    <3>1. CountOf(args, TRUE, k) = before + 1
      BY <2>1, <2>2, <2>6, CountStep
    <3>2. IsOfSort(placed, TRUE, k)
      BY <1>3, <2>6 DEF IsOfSort
    <3>3. Sift(placed, TRUE)[CountOf(placed, TRUE, k)] = placed[k]
      BY <1>5, <2>1, <3>2, SiftedInOrder DEF CountOf
    <3>4. CountOf(placed, TRUE, k) = before + 1
      BY <1>6, <2>1, <3>1
    <3> QED BY <2>4, <2>6, <3>3, <3>4
  <2>7. CASE IsAssisted(args[k]) = FALSE
    <3>1. CountOf(args, FALSE, k) = m - before + 1
      <4>1. CountOf(args, FALSE, k) = CountOf(args, FALSE, m) + 1
        BY <2>1, <2>7, CountStep
      <4> DEFINE t == CountOf(args, TRUE, m)
                 f == CountOf(args, FALSE, m)
      <4>2. before = t /\ t + f = m /\ t \in Nat /\ f \in Nat
        BY <2>2, <2>5
      <4>3. CountOf(args, FALSE, k) = f + 1
        BY <4>1
      <4> HIDE DEF t, f
      <4>4. f + 1 = m - before + 1
        BY <4>2
      <4> QED BY <4>3, <4>4
    <3>2. IsOfSort(placed, FALSE, k)
      BY <1>3, <2>7 DEF IsOfSort
    <3>3. Sift(placed, FALSE)[CountOf(placed, FALSE, k)] = placed[k]
      BY <1>5, <2>1, <3>2, SiftedInOrder DEF CountOf
    <3>4. CountOf(placed, FALSE, k) = m - before + 1
      BY <1>6, <2>1, <3>1
    <3> QED BY <2>4, <2>7, <3>3, <3>4
  <2> QED BY <1>2, <2>1, <2>6, <2>7 DEF SortedArg
<1> HIDE DEF passed
<1>8. \A k \in DOMAIN args : passed[k].place = k
  BY <1>1, <1>3, <1>7
<1> QED BY <1>8 DEF placed, passed

(* The lambda of a factory is invoked with every injected and every assisted     *)
(* argument at the place where its signature has it.                            *)
THEOREM FactoryArgsStayInPlace == Spec => []FactoryArgsInPlace
<1>1. Inv => FactoryArgsInPlace
  <2> SUFFICES ASSUME Inv, Compiling, agenda # <<>>, Head(agenda).f = "RegisterFactory"
               PROVE  LET args == Head(agenda).sig.args
                          placed == [k \in DOMAIN args |->
                                       [assisted |-> IsAssisted(args[k]), place |-> k]]
                          passed == InvocationArgs(args, RemoveAssisted(placed),
                                                   Sift(placed, TRUE))
                      IN  \A k \in DOMAIN args : passed[k].place = k
    BY DEF FactoryArgsInPlace
  <2>1. Calling("RegisterFactory")
    BY DEF Calling, Compiling
  <2>2. FunctorOK(Called) /\ Called.f = "RegisterFactory"
    BY <2>1, CalledFunctor
  <2>3. Called.sig \in Signature
    BY <2>2 DEF FunctorOK
  <2>4. Called.sig.args \in Seq(InjectedArg \cup AssistedArg)
    BY <2>3 DEF Signature
  <2> QED BY <2>4, ArgsInPlace DEF Called
<1> QED BY <1>1, DeductionInvariant, PTL
=============================================================================
