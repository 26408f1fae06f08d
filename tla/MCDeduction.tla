------------------------------ MODULE MCDeduction ------------------------------
(***************************************************************************)
(* Two components of a program with interfaces I and J (J has no virtual     *)
(* destructor), classes C and G that implement them, classes X and K with     *)
(* no Inject typedef, a class Y that is injected with an I and a class L that  *)
(* is injected with nothing.  Component 1 is about X; component 2 may install  *)
(* it.                                                                       *)
(***************************************************************************)
EXTENDS ComponentDeduction

CONSTANTS I, J, C, G, X, Y, K, L, marked

Classes == {I, J, C, G, X, Y, K, L}

Obj(c) == Object(NoAnnotation, c)
MarkedI == Object(marked, I)
UniquePtrFactory(c, args) == FactoryOf(Obj(c), "unique_ptr_factory", args)
ValueFactory(c, args) == FactoryOf(Obj(c), "factory", args)

Types ==
  {Obj(c) : c \in Classes} \cup {MarkedI}
  \cup {FactoryOf(Obj(c), shape, args) :
          c \in Classes, shape \in Shape \ {"object"}, args \in {<<>>, <<Y>>, <<Y, Y>>}}

Interface(virtualDestructor) ==
  [abstract |-> TRUE, virtualDestructor |-> virtualDestructor, bases |-> {},
   hasInject |-> FALSE, inject |-> <<>>]
Plain == [abstract |-> FALSE, virtualDestructor |-> FALSE, bases |-> {},
          hasInject |-> FALSE, inject |-> <<>>]
Implements(is, args) ==
  [abstract |-> FALSE, virtualDestructor |-> FALSE, bases |-> is,
   hasInject |-> TRUE, inject |-> args]

MCTraits ==
  [c \in Classes |->
     CASE c = I -> Interface(TRUE)
       [] c = J -> Interface(FALSE)
       [] c = C -> Implements({I}, <<Injected("const T&", Obj(X))>>)
       [] c = G -> Implements({I, J}, <<Assisted(Y), Injected("T&", Obj(X)), Assisted(Y)>>)
       [] c = Y -> Implements({}, <<Injected("const T&", Obj(I))>>)
       [] c = L -> Implements({}, <<>>)
       [] OTHER -> Plain]

-----------------------------------------------------------------------------
(* The bindings of the two components.                                         *)
Binds(i, c) == [kind |-> "Bind", i |-> i, c |-> c]
SignatureOf(t, returns, args) ==
  [result |-> t, returns |-> returns, args |-> args, wellFormed |-> TRUE]
WithSignature(kind, sig) == [kind |-> kind, sig |-> sig]
Ctor(c, args) == WithSignature("RegisterConstructor", SignatureOf(Obj(c), "value", args))
Ref(c) == Injected("T&", Obj(c))
ConstRef(c) == Injected("const T&", Obj(c))

BindingsOf1 ==
  {Ctor(X, <<>>), Ctor(X, <<ConstRef(Y)>>),
   [kind |-> "BindConstInstance", type |-> Obj(X)]}

BindingsOf2 ==
  {Binds(Obj(I), Obj(C)), Binds(Obj(I), Obj(G)), Binds(Obj(J), Obj(G)),
   Binds(Obj(C), Obj(I)), Binds(Obj(C), Obj(C)), Binds(MarkedI, Obj(C)),
   Ctor(X, <<>>), Ctor(X, <<Ref(C)>>), Ctor(X, <<Assisted(Y)>>), Ctor(I, <<>>),
   WithSignature("RegisterConstructor",
                 [SignatureOf(Obj(X), "value", <<ConstRef(K)>>) EXCEPT !.wellFormed = FALSE]),
   Ctor(C, <<>>), Ctor(X, <<Injected("Provider<T>", MarkedI)>>),
   [kind |-> "BindInstance", type |-> Obj(C)],
   [kind |-> "BindConstInstance", type |-> Obj(C)],
   WithSignature("RegisterProvider", SignatureOf(Obj(C), "pointer", <<Ref(X)>>)),
   WithSignature("RegisterProvider", SignatureOf(Obj(J), "pointer", <<>>)),
   WithSignature("RegisterProvider",
                 [SignatureOf(Obj(K), "value", <<>>) EXCEPT !.wellFormed = FALSE]),
   [kind |-> "AddMultibinding", i |-> Obj(I), c |-> Obj(C)],
   [kind |-> "AddMultibinding", i |-> Obj(C), c |-> Obj(I)],
   WithSignature("AddMultibindingProvider", SignatureOf(Obj(K), "value", <<Ref(X)>>)),
   WithSignature("AddMultibindingProvider", SignatureOf(Obj(J), "pointer", <<>>)),
   WithSignature("AddMultibindingProvider", SignatureOf(Obj(J), "value", <<>>)),
   WithSignature("RegisterFactory",
                 SignatureOf(Obj(K), "value", <<Assisted(Y), Injected("T*", Obj(X))>>)),
   WithSignature("RegisterFactory", SignatureOf(Obj(J), "unique_ptr", <<>>)),
   WithSignature("RegisterFactory", SignatureOf(Obj(K), "pointer", <<>>)),
   [kind |-> "AddInstanceMultibinding", type |-> Obj(K)],
   [kind |-> "AddInstanceVectorMultibindings", type |-> Obj(K),
    objs |-> <<"instance", "other_instance">>],
   [kind |-> "InstallComponent", comp |-> 1],
   [kind |-> "InstallComponentFunctions", comps |-> <<1>>],
   [kind |-> "ReplaceComponent", comp |-> 1, replacement |-> 1]}

-----------------------------------------------------------------------------
(* The declared types.                                                         *)
Param(t) == [type |-> t, const |-> FALSE]
ConstParam(t) == [type |-> t, const |-> TRUE]
Declares(rs, ps) == [Rs |-> rs, Ps |-> ps]
Provides(t) == Declares(<<>>, <<Param(t)>>)

DeclaredOf1 ==
  {Provides(Obj(X)), Declares(<<>>, <<ConstParam(Obj(X))>>),
   Declares(<<Param(Obj(Y))>>, <<Param(Obj(X))>>),
   Declares(<<Param(Obj(Y))>>, <<ConstParam(Obj(X))>>)}

DeclaredOf2 ==
  {Declares(<<>>, <<>>), Provides(Obj(X)), Provides(Obj(Y)),
   Declares(<<>>, <<ConstParam(Obj(I)), Param(Obj(C))>>),
   Declares(<<>>, <<Param(Obj(C)), Param(Obj(L))>>),
   Declares(<<Param(Obj(X))>>, <<Param(Obj(Y))>>),
   Declares(<<ConstParam(Obj(X))>>, <<Param(MarkedI)>>),
   Declares(<<ConstParam(Obj(X))>>, <<ConstParam(Obj(X))>>),
   Declares(<<ConstParam(Obj(X))>>, <<Param(UniquePtrFactory(I, <<Y, Y>>))>>),
   Provides(UniquePtrFactory(J, <<Y, Y>>)), Provides(UniquePtrFactory(K, <<Y>>)),
   Provides(ValueFactory(C, <<>>)), Provides(ValueFactory(K, <<Y>>))}

MCBindingsOf == <<BindingsOf1, BindingsOf2>>
MCDeclaredOf == <<DeclaredOf1, DeclaredOf2>>
MCMaxCalls == <<1, 2>>
=============================================================================
