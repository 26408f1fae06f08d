----------------------------- MODULE InjectedTypes -----------------------------
(***************************************************************************)
(* The types that appear in Component<...> and in the signatures of        *)
(* constructors, providers and factories, and what the meta program makes   *)
(* of them (the first part of impl/meta/component.h).                       *)
(*                                                                         *)
(* A type of the injection graph is a class, or a std::function that makes  *)
(* objects of a class from arguments supplied by the caller, possibly with  *)
(* an annotation.  A signature says in which form each argument is          *)
(* injected (T, T&, const T*, Provider<T>, ...) or that the caller of the   *)
(* factory supplies it (Assisted<T>).                                       *)
(***************************************************************************)
EXTENDS Naturals, Sequences, SequencesExt, FiniteSets

CONSTANTS Class,       \* the classes of the program
          Annotation,  \* the annotations, with NoAnnotation
          NoAnnotation

ASSUME AnnotationAssumption == NoAnnotation \in Annotation

-----------------------------------------------------------------------------
Shape == {"object", "factory", "unique_ptr_factory"}

(* Annotated<annotation, class>, and std::function<class(args)> or            *)
(* std::function<unique_ptr<class>(args)> with the same annotation.           *)
GraphType ==
  {t \in [annotation : Annotation, shape : Shape, class : Class, args : Seq(Class)] :
     t.shape = "object" => t.args = <<>>}

Object(a, c) == [annotation |-> a, shape |-> "object", class |-> c, args |-> <<>>]

(* CopyAnnotation(t, std::function<...>): the type of a factory of t, where t *)
(* is the annotated class, or a std::unique_ptr of it.                        *)
FactoryOf(t, shape, args) == [t EXCEPT !.shape = shape, !.args = args]
ObjectOf(t) == [t EXCEPT !.shape = "object", !.args = <<>>]

-----------------------------------------------------------------------------
(* The forms that request a T: the ones that give access to a T that can be   *)
(* modified need a binding that is not const.                                 *)
NonConstForm == {"T*", "T&", "shared_ptr<T>", "Provider<T>"}
ConstForm == {"T", "const T", "const T*", "const T&", "Provider<const T>"}
Form == NonConstForm \cup ConstForm

Injected(form, t) == [assisted |-> FALSE, form |-> form, type |-> t]
Assisted(c) == [assisted |-> TRUE, class |-> c]

InjectedArg == [assisted : {FALSE}, form : Form, type : GraphType]
AssistedArg == [assisted : {TRUE}, class : Class]
Signature == [result : GraphType, returns : {"value", "pointer", "unique_ptr"},
              args : Seq(InjectedArg \cup AssistedArg), wellFormed : BOOLEAN]

NormalizeType(arg) == arg.type
TypeInjectionRequiresNonConstBinding(arg) == arg.form \in NonConstForm

NormalizeTypeVector(args) == [i \in DOMAIN args |-> NormalizeType(args[i])]
NormalizedNonConstTypesIn(args) ==
  {NormalizeType(args[i]) :
     i \in {j \in DOMAIN args : TypeInjectionRequiresNonConstBinding(args[j])}}

-----------------------------------------------------------------------------
(* Factories.  The decorated arguments are split in two: the ones that are     *)
(* injected when the std::function is made, and the ones that its caller       *)
(* supplies.                                                                  *)
IsAssisted(arg) == arg.assisted

(* FoldVector with a Helper that pushes back the arguments of one sort.        *)
Sift(args, assisted) ==
  LET result[n \in 0 .. Len(args)] ==
        IF n = 0 THEN <<>>
        ELSE IF IsAssisted(args[n]) = assisted THEN Append(result[n - 1], args[n])
        ELSE result[n - 1]
  IN  result[Len(args)]
RemoveAssisted(args) == Sift(args, FALSE)
RemoveNonAssisted(args) ==
  LET assisted == Sift(args, TRUE)
  IN  [i \in DOMAIN assisted |-> assisted[i].class]

NumAssisted(args) == Cardinality({i \in DOMAIN args : IsAssisted(args[i])})

(* How many of the arguments before the (0-based) index are assisted.          *)
NumAssistedBefore(index, args) ==
  NumAssisted(args) - NumAssisted(SubSeq(args, index + 1, Len(args)))

(* Mutant: the arguments of the caller are taken from the last one on.         *)
GetAssistedArgFromLast(index, args, injectedArgs, userProvidedArgs) ==
  LET before == NumAssistedBefore(index, args)
  IN  IF IsAssisted(args[index + 1]) THEN userProvidedArgs[Len(userProvidedArgs) - before]
                                     ELSE injectedArgs[index - before + 1]

(* What the ObjectProvider of a factory passes as the argument at index, from  *)
(* the tuple of injected arguments and the one of the caller's arguments.      *)
GetAssistedArg(index, args, injectedArgs, userProvidedArgs) ==
  LET before == NumAssistedBefore(index, args)
  IN  IF IsAssisted(args[index + 1]) THEN userProvidedArgs[before + 1]
                                     ELSE injectedArgs[index - before + 1]

(* The arguments with which the lambda is invoked.                             *)
InvocationArgs(args, injectedArgs, userProvidedArgs) ==
  [i \in DOMAIN args |->
     GetAssistedArg(i - 1, args, injectedArgs, userProvidedArgs)]
=============================================================================
