------------------------------ MODULE MCExpansion ------------------------------
(***************************************************************************)
(* Programs without bindings: components that install and replace one      *)
(* another in every order, with and without a normalized component.        *)
(***************************************************************************)
EXTENDS BindingNormalization, ComponentDefinition

CONSTANTS root, a, b, w,   \* four component functions; w has an argument
          MaxCalls,        \* how many calls the root component makes
          Bases            \* what a normalized component is built from

Names == {root, a, b, w}
Subcomponents == {a, b, w}

InstallCall(c) == [entries |-> Install(c), installs |-> <<c>>]
ReplaceCall(c, r) == [entries |-> Replace(c, r), installs |-> <<>>]

(* installComponentFunctions pushes its first function first, so that the last  *)
(* one is expanded first.                                                     *)
FunctionsCall(cs) == [entries |-> InstallComponentFunctions(cs), installs |-> Reverse(cs)]

SingleCall == {InstallCall(c) : c \in Subcomponents}
                \cup {ReplaceCall(c, r) : c, r \in Subcomponents}
FunctionsInstalled == {<<a, b>>, <<w, a>>}

(* The calls of a subcomponent: none, an install, or a replacement.           *)
OtherCall == {InstallCall(c) : c \in {a, w, root}}
               \cup {ReplaceCall(a, w), ReplaceCall(w, b)}

SubcomponentEntries(calls) ==
  ComponentEntries(<<>>, [i \in DOMAIN calls |-> calls[i].entries])

Programs(RootCall) ==
  {[body |-> [c \in Names |-> IF c = root THEN SubcomponentEntries(calls)
                              ELSE SubcomponentEntries(others[c])],
    root |-> root,
    base |-> nc,
    exposed |-> {},
    baseExposed |-> {},
    declared |-> FlattenSeq([i \in DOMAIN calls |-> calls[i].installs])]
     : calls \in BoundedSeq(RootCall, MaxCalls),
       others \in [Subcomponents -> BoundedSeq(OtherCall, 1)],
       nc \in Bases}

MCProgram ==
  Programs(SingleCall \cup {FunctionsCall(cs) : cs \in FunctionsInstalled})
=============================================================================
