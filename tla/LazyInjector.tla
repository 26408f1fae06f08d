----------------------------- MODULE LazyInjector -----------------------------
(***************************************************************************)
(* What an injector promises its users, without threads, frames or locks:  *)
(* a type has at most one instance, made when those that it needs are      *)
(* there; every call for the type is given that instance; and an instance   *)
(* is destroyed after all those that were made from it.                     *)
(***************************************************************************)
EXTENDS Naturals

CONSTANTS Creatable, Kind, Needs, None

VARIABLES instance,   \* the instance of each type and multibinding element
          delivered,  \* the instances that calls have returned
          gone        \* the instances that have been destroyed

vars == <<instance, delivered, gone>>

Init ==
  /\ instance = [n \in Creatable |->
                   IF Kind[n] = "instance" THEN [of |-> n, nth |-> 0] ELSE None]
  /\ delivered = [n \in Creatable |-> {}]
  /\ gone = {}

(* A bind shares the instance of the type that it is bound to.                *)
Provide(n) ==
  /\ instance[n] = None /\ gone = {}
  /\ \A d \in Needs[n] : instance[d] # None
  /\ IF Kind[n] = "bind"
       THEN \E d \in Needs[n] : instance' = [instance EXCEPT ![n] = instance[d]]
       ELSE instance' = [instance EXCEPT ![n] = [of |-> n, nth |-> 1]]
  /\ UNCHANGED <<delivered, gone>>

Deliver(n) ==
  /\ instance[n] # None /\ gone = {}
  /\ delivered' = [delivered EXCEPT ![n] = {instance[n]}]
  /\ UNCHANGED <<instance, gone>>

Destroy(n) ==
  /\ Kind[n] \notin {"instance", "bind"}
  /\ instance[n] \notin {None} \cup gone
  /\ \A user \in Creatable :
       /\ Kind[user] # "bind" /\ instance[user] # None
       /\ \E d \in Needs[user] : instance[d] = instance[n]
       => instance[user] \in gone
  /\ gone' = gone \cup {instance[n]}
  /\ UNCHANGED <<instance, delivered>>

Next == \E n \in Creatable : Provide(n) \/ Deliver(n) \/ Destroy(n)

Spec == Init /\ [][Next]_vars
=============================================================================
