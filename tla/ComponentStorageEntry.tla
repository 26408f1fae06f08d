------------------------ MODULE ComponentStorageEntry ------------------------
(***************************************************************************)
(* The entries of a ComponentStorage: the one record type in which Fruit   *)
(* keeps bindings, multibindings, installed components and replacements    *)
(* (impl/component_storage/component_storage_entry.h), and the functions    *)
(* of InjectorStorage that make the entries of a binding.                   *)
(*                                                                         *)
(* A member of Component stands for a component function together with the *)
(* tuple of its arguments, which is what the code compares and hashes; the *)
(* members of WithArgs have at least one argument, so that an entry that    *)
(* names one owns a ComponentInterfaceImpl on the heap.                     *)
(***************************************************************************)
EXTENDS Naturals, Sequences

CONSTANTS Type,        \* the (annotated, normalized) types that may be bound
          Component,   \* component functions with their arguments
          WithArgs     \* those that have arguments

ASSUME WithArgsAssumption == WithArgs \subseteq Component

-----------------------------------------------------------------------------
(* A create function, or for a constructed object its address: the code     *)
(* only compares them.  fn names the instantiated template, c the class it  *)
(* constructs and i the type the result is bound to.                        *)
Instance == {"instance", "other_instance"}
CreateFn == Instance \cup {"bind", "constructor", "provider", "other_provider",
              "compressed_constructor", "compressed_provider",
              "multibinding", "multibinding_provider"}
CreateFunction == [fn : CreateFn, c : Type, i : Type]

BindingKind == {"constructed_object", "needs_allocation",
                "needs_no_allocation", "unknown_allocation"}
MultibindingKind == {"multibinding_constructed_object",
                     "multibinding_needs_allocation",
                     "multibinding_needs_no_allocation"}
ComponentKind == {"lazy", "replaced", "replacement", "end_marker"}

Binding == [kind : BindingKind, type : Type, create : CreateFunction,
            deps : SUBSET Type]
CompressedBinding == [kind : {"compressed"}, type : Type, c_type : Type,
                      create : CreateFunction]
Multibinding == [kind : MultibindingKind, type : Type, create : CreateFunction,
                 deps : SUBSET Type]
VectorCreator == [kind : {"multibinding_vector_creator"}, type : Type]
ComponentEntry == [kind : ComponentKind, comp : Component]

Entry == Binding \cup CompressedBinding \cup Multibinding
           \cup VectorCreator \cup ComponentEntry

-----------------------------------------------------------------------------
(* The entry makers.  A component operation pushes one of these entries, or   *)
(* two that have to stay adjacent: a multibinding under its vector creator,   *)
(* and a replacement under the component that it replaces.                    *)
Install(c) == <<[kind |-> "lazy", comp |-> c]>>

Replace(c, r) == <<[kind |-> "replacement", comp |-> r],
                   [kind |-> "replaced", comp |-> c]>>

BindInstance(t, obj) ==
  <<[kind |-> "constructed_object", type |-> t, deps |-> {},
     create |-> [fn |-> obj, c |-> t, i |-> t]]>>

Bind(i, c) ==
  <<[kind |-> "needs_no_allocation", type |-> i, deps |-> {c},
     create |-> [fn |-> "bind", c |-> c, i |-> i]]>>

Constructor(c, deps) ==
  [kind |-> "needs_allocation", type |-> c, deps |-> deps,
   create |-> [fn |-> "constructor", c |-> c, i |-> c]]

(* A provider that returns a pointer: the injector takes ownership of what    *)
(* it returns and allocates nothing for it.                                   *)
Provider(fn, c, deps) ==
  [kind |-> "needs_no_allocation", type |-> c, deps |-> deps,
   create |-> [fn |-> fn, c |-> c, i |-> c]]

RegisterConstructor(c, deps) == <<Constructor(c, deps)>>
RegisterProvider(fn, c, deps) == <<Provider(fn, c, deps)>>

(* What is pushed for a constructor or a provider of c when the component     *)
(* also has a bind of the interface i to c, needed or not.                    *)
CompressibleConstructor(i, c, deps) ==
  <<[kind |-> "compressed", type |-> i, c_type |-> c,
     create |-> [fn |-> "compressed_constructor", c |-> c, i |-> i]],
    Constructor(c, deps)>>

CompressibleProvider(i, c, deps) ==
  <<[kind |-> "compressed", type |-> i, c_type |-> c,
     create |-> [fn |-> "compressed_provider", c |-> c, i |-> i]],
    Provider("provider", c, deps)>>

MultibindingVectorCreator(t) ==
  [kind |-> "multibinding_vector_creator", type |-> t]

AddMultibinding(i, c) ==
  <<[kind |-> "multibinding_needs_no_allocation", type |-> i, deps |-> {c},
     create |-> [fn |-> "multibinding", c |-> c, i |-> i]],
    MultibindingVectorCreator(i)>>

AddInstanceMultibinding(t, obj) ==
  <<[kind |-> "multibinding_constructed_object", type |-> t, deps |-> {},
     create |-> [fn |-> obj, c |-> t, i |-> t]],
    MultibindingVectorCreator(t)>>

AddMultibindingProvider(t, deps) ==
  <<[kind |-> "multibinding_needs_allocation", type |-> t, deps |-> deps,
     create |-> [fn |-> "multibinding_provider", c |-> t, i |-> t]],
    MultibindingVectorCreator(t)>>
=============================================================================
