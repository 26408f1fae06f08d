--------------------------- MODULE MCInjectorStorage ---------------------------
(***************************************************************************)
(* An injector of a class A, made from an interface I, bound to a class C,  *)
(* and from the result P of a provider that gets C lazily.  The multibinding *)
(* set M has an element bound to I and one from a provider that needs P.    *)
(***************************************************************************)
EXTENDS InjectorStorage

CONSTANTS A, I, C, P, M, e1, e2, t1, t2

MCType == {A, I, C, P}
MCElement == {e1, e2}
MCKind == [n \in MCType \cup MCElement |->
             CASE n = A -> "constructor"
               [] n = I -> "bind"
               [] n = C -> "constructor"
               [] n = P -> "pointer_provider"
               [] n = e1 -> "bind"
               [] n = e2 -> "value_provider"]
MCNeeds == [n \in MCType \cup MCElement |->
              CASE n = A -> {I, P}
                [] n = I -> {C}
                [] n = e1 -> {I}
                [] n = e2 -> {P}
                [] OTHER -> {}]
MCLazy == [n \in MCType \cup MCElement |-> IF n = P THEN {C} ELSE {}]
MCElements == [m \in {M} |-> <<e1, e2>>]
MCExposed == <<A, I>>

Threads == {t1, t2}
=============================================================================
