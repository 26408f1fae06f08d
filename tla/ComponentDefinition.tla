-------------------------- MODULE ComponentDefinition --------------------------
(***************************************************************************)
(* From the calls made on a PartialComponent to the entries of a Component. *)
(*                                                                         *)
(* The installs, replacements and instances are kept by the chain of       *)
(* PartialComponentStorage objects; the binds, constructors, providers and *)
(* multibindings are only types, for which the functors of the meta        *)
(* program push entries when the PartialComponent is converted.            *)
(***************************************************************************)
EXTENDS ComponentStorageEntry, SequencesExt

(* Mutant: the entries of the first call are pushed first.                    *)
AddBindingsForward(calls) == FlattenSeq(calls)

(* PartialComponentStorage::addBindings of the last call pushes its entries   *)
(* and then calls the one before: the entries of the first call end on top.   *)
AddBindings(calls) ==
  LET added[n \in 0 .. Len(calls)] == IF n = 0 THEN <<>> ELSE calls[n] \o added[n - 1]
  IN  added[Len(calls)]

(* The entries of installComponentFunctions, in the order of its arguments.   *)
InstallComponentFunctions(components) ==
  [i \in DOMAIN components |-> [kind |-> "lazy", comp |-> components[i]]]

(* addInstanceMultibindings pushes its vector from the back to the front, so   *)
(* that the first instance is processed first.                                *)
AddInstanceMultibindings(t, objs) ==
  AddBindings([i \in DOMAIN objs |-> AddInstanceMultibinding(t, objs[i])])

(* Component(PartialComponent&&): first the functors, then the storage.       *)
ComponentEntries(functorEntries, calls) == functorEntries \o AddBindings(calls)
=============================================================================
