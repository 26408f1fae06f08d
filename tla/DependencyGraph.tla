---------------------------- MODULE DependencyGraph ----------------------------
(***************************************************************************)
(* What a SemistaticGraph promises: the graph of a normalized component,   *)
(* which never changes, and the graph of an injector, which starts as that  *)
(* graph with nodes added or overridden, and in which a node loses its      *)
(* dependencies when its object has been constructed.                      *)
(***************************************************************************)
EXTENDS Integers

CONSTANTS NodeId, Unbound,
          Inputs

VARIABLES input,            \* the nodes that the two graphs are made from
          base, injector    \* the node of each id in the two graphs

Nothing == [id \in NodeId |-> Unbound]

(* The nodes of a sequence, of which the last for an id counts.               *)
NodesOf(given, otherwise) ==
  [id \in NodeId |->
     LET at == {i \in DOMAIN given : given[i].id = id}
     IN IF at = {} THEN otherwise[id]
        ELSE given[CHOOSE i \in at : \A j \in at : j <= i].node]

Constructed == [value |-> "object", terminal |-> TRUE, edges |-> <<>>]

Init == input \in Inputs /\ base = Nothing /\ injector = Nothing

Build ==
  /\ base = Nothing /\ injector = Nothing
  /\ base' = NodesOf(input.base, Nothing)
  /\ UNCHANGED <<input, injector>>

Extend ==
  /\ injector = Nothing
  /\ base = NodesOf(input.base, Nothing)
  /\ injector' = NodesOf(input.added, base)
  /\ UNCHANGED <<input, base>>

SetTerminal(id) ==
  /\ injector[id] # Unbound
  /\ injector' = [injector EXCEPT ![id] = Constructed]
  /\ UNCHANGED <<input, base>>

Next == Build \/ Extend \/ \E id \in NodeId : SetTerminal(id)

Spec == Init /\ [][Next]_<<input, base, injector>>
=============================================================================
