-------------------------- MODULE FixedSizeAllocator --------------------------
(***************************************************************************)
(* FixedSizeAllocator: the one block of memory in which an injector        *)
(* constructs its objects.  The types are counted first; the block then     *)
(* has room for one object for each time that a type was added, in any     *)
(* order and at any alignment, and a slot in on_destruction for each        *)
(* destructor that will have to run.                                        *)
(***************************************************************************)
EXTENDS Integers, Sequences, FiniteSets

CONSTANTS Type,
          Size, Alignment,          \* sizeof and alignof each type
          TriviallyDestructible,    \* the types without a destructor
          Address,                  \* where new char[] may put the block
          MaxTypes, MaxExternal,    \* bounds: how often a type is added
          MaxSize,                  \* bound: bytes reserved
          NoType                    \* stands for what the allocator only owns

ASSUME LayoutAssumption ==
  /\ Size \in [Type -> Nat \ {0}]
  /\ Alignment \in [Type -> Nat \ {0}]
  /\ TriviallyDestructible \subseteq Type
  /\ Address \subseteq Nat
  /\ MaxTypes \in Nat /\ MaxExternal \in Nat /\ MaxSize \in Nat
  /\ NoType \notin Type

VARIABLES
  phase,              \* "reserving", "allocating" or "destroyed"
  totalSize,          \* FixedSizeAllocatorData::total_size
  numTypesToDestroy,  \* FixedSizeAllocatorData::num_types_to_destroy
  remainingTypes,     \* remaining_types: what has been added and not used
  remainingExternal,  \* the same for externally allocated objects
  storageBegin,       \* storage_begin
  storageLastUsed,    \* storage_last_used
  onDestruction,      \* on_destruction
  constructing,       \* objects whose constructor is running, innermost last
  objects             \* every object that was given space

vars == <<phase, totalSize, numTypesToDestroy, remainingTypes,
          remainingExternal, storageBegin, storageLastUsed, onDestruction,
          constructing, objects>>

Object == [type : Type, at : Nat]
Owned == [type : Type \cup {NoType}, at : Nat]

TypeOK ==
  /\ phase \in {"reserving", "allocating", "destroyed"}
  /\ totalSize \in Nat
  /\ numTypesToDestroy \in Nat
  /\ remainingTypes \in [Type -> Nat]
  /\ remainingExternal \in Nat
  /\ storageBegin \in Nat
  /\ storageLastUsed \in Nat
  /\ onDestruction \in Seq(Owned)
  /\ constructing \in Seq(Object)
  /\ objects \subseteq Object

Init ==
  /\ phase = "reserving"
  /\ totalSize = 0
  /\ numTypesToDestroy = 0
  /\ remainingTypes = [t \in Type |-> 0]
  /\ remainingExternal = 0
  /\ storageBegin = 0
  /\ storageLastUsed = 0
  /\ onDestruction = <<>>
  /\ constructing = <<>>
  /\ objects = {}

-----------------------------------------------------------------------------
(* Mutant: no allowance for the alignment.                                    *)
ExactSpace(t) == Size[t]

MaximumRequiredSpace(t) == Alignment[t] + Size[t] - 1

(* Mutant: a type with a destructor gets no slot.                             *)
AddTypeWithoutSlot(t) ==
  /\ phase = "reserving"
  /\ remainingTypes[t] < MaxTypes
  /\ totalSize + MaximumRequiredSpace(t) <= MaxSize
  /\ totalSize' = totalSize + MaximumRequiredSpace(t)
  /\ remainingTypes' = [remainingTypes EXCEPT ![t] = @ + 1]
  /\ UNCHANGED <<phase, numTypesToDestroy, remainingExternal, storageBegin,
                 storageLastUsed, onDestruction, constructing, objects>>

AddType(t) ==
  /\ phase = "reserving"
  /\ remainingTypes[t] < MaxTypes
  /\ totalSize + MaximumRequiredSpace(t) <= MaxSize
  /\ totalSize' = totalSize + MaximumRequiredSpace(t)
  /\ numTypesToDestroy' = IF t \in TriviallyDestructible
                            THEN numTypesToDestroy ELSE numTypesToDestroy + 1
  /\ remainingTypes' = [remainingTypes EXCEPT ![t] = @ + 1]
  /\ UNCHANGED <<phase, remainingExternal, storageBegin, storageLastUsed,
                 onDestruction, constructing, objects>>

AddExternallyAllocatedType ==
  /\ phase = "reserving"
  /\ remainingExternal < MaxExternal
  /\ numTypesToDestroy' = numTypesToDestroy + 1
  /\ remainingExternal' = remainingExternal + 1
  /\ UNCHANGED <<phase, totalSize, remainingTypes, storageBegin,
                 storageLastUsed, onDestruction, constructing, objects>>

(* The block has totalSize + 1 bytes: the first one is not used.              *)
Construct ==
  /\ phase = "reserving"
  /\ phase' = "allocating"
  /\ \E a \in Address : storageBegin' = a /\ storageLastUsed' = a
  /\ UNCHANGED <<totalSize, numTypesToDestroy, remainingTypes,
                 remainingExternal, onDestruction, constructing, objects>>

-----------------------------------------------------------------------------
(* The first aligned byte after the last one used.                            *)
NextPlace(t) ==
  storageLastUsed + Alignment[t] - (storageLastUsed % Alignment[t])

(* Mutant: the last byte of the object is not counted.                        *)
StartConstructObjectShort(t) ==
  /\ phase = "allocating" /\ remainingTypes[t] > 0
  /\ LET x == [type |-> t, at |-> NextPlace(t)]
     IN /\ storageLastUsed' = x.at + Size[t] - 2
        /\ constructing' = Append(constructing, x)
        /\ objects' = objects \cup {x}
  /\ remainingTypes' = [remainingTypes EXCEPT ![t] = @ - 1]
  /\ UNCHANGED <<phase, totalSize, numTypesToDestroy, remainingExternal,
                 storageBegin, onDestruction>>

(* constructObject up to the constructor, which may construct other objects.  *)
(* A caller constructs at most as many objects of a type as were added.       *)
StartConstructObject(t) ==
  /\ phase = "allocating" /\ remainingTypes[t] > 0
  /\ LET x == [type |-> t, at |-> NextPlace(t)]
     IN /\ storageLastUsed' = x.at + Size[t] - 1
        /\ constructing' = Append(constructing, x)
        /\ objects' = objects \cup {x}
  /\ remainingTypes' = [remainingTypes EXCEPT ![t] = @ - 1]
  /\ UNCHANGED <<phase, totalSize, numTypesToDestroy, remainingExternal,
                 storageBegin, onDestruction>>

(* The rest of constructObject, when the constructor has returned.            *)
Innermost == constructing[Len(constructing)]
LeaveConstructor == constructing' = SubSeq(constructing, 1, Len(constructing) - 1)

FinishConstructObject ==
  /\ phase = "allocating" /\ constructing # <<>>
  /\ onDestruction' = IF Innermost.type \in TriviallyDestructible
                        THEN onDestruction ELSE Append(onDestruction, Innermost)
  /\ LeaveConstructor
  /\ UNCHANGED <<phase, totalSize, numTypesToDestroy, remainingTypes,
                 remainingExternal, storageBegin, storageLastUsed, objects>>

ConstructorThrows ==
  /\ phase = "allocating" /\ constructing # <<>>
  /\ LeaveConstructor
  /\ UNCHANGED <<phase, totalSize, numTypesToDestroy, remainingTypes,
                 remainingExternal, storageBegin, storageLastUsed,
                 onDestruction, objects>>

RegisterExternallyAllocatedObject ==
  /\ phase = "allocating" /\ remainingExternal > 0
  /\ remainingExternal' = remainingExternal - 1
  /\ onDestruction' = Append(onDestruction, [type |-> NoType, at |-> 0])
  /\ UNCHANGED <<phase, totalSize, numTypesToDestroy, remainingTypes,
                 storageBegin, storageLastUsed, constructing, objects>>

(* ~FixedSizeAllocator runs the last destructor left; then it frees the block. *)
DestroyLast ==
  /\ phase = "allocating" /\ constructing = <<>> /\ onDestruction # <<>>
  /\ remainingTypes' = [t \in Type |-> 0]
  /\ remainingExternal' = 0
  /\ objects' = objects \ {onDestruction[Len(onDestruction)]}
  /\ onDestruction' = SubSeq(onDestruction, 1, Len(onDestruction) - 1)
  /\ UNCHANGED <<phase, totalSize, numTypesToDestroy, storageBegin,
                 storageLastUsed, constructing>>

FreeStorage ==
  /\ phase = "allocating" /\ constructing = <<>> /\ onDestruction = <<>>
  /\ phase' = "destroyed"
  /\ objects' = {}
  /\ UNCHANGED <<totalSize, numTypesToDestroy, remainingTypes,
                 remainingExternal, storageBegin, storageLastUsed,
                 onDestruction, constructing>>

Terminated == phase = "destroyed" /\ UNCHANGED vars

Next ==
  \/ \E t \in Type : AddType(t) \/ StartConstructObject(t)
  \/ AddExternallyAllocatedType \/ Construct
  \/ FinishConstructObject \/ ConstructorThrows
  \/ RegisterExternallyAllocatedObject
  \/ DestroyLast \/ FreeStorage
  \/ Terminated

Spec == Init /\ [][Next]_vars
-----------------------------------------------------------------------------
LastByte(x) == x.at + Size[x.type] - 1

(* The block is large enough for every order of construction: what was added  *)
(* for the alignments and for the bytes between the objects suffices.         *)
WithinStorage ==
  \A x \in objects : /\ storageBegin < x.at
                     /\ LastByte(x) <= storageBegin + totalSize

(* Every object is aligned, wherever the block and the objects before it are. *)
Aligned == \A x \in objects : x.at % Alignment[x.type] = 0

(* No two objects share a byte, also when one is constructed inside the       *)
(* constructor of another, and after a constructor has thrown.                *)
NoOverlap ==
  \A x, y \in objects : x # y => LastByte(x) < y.at \/ LastByte(y) < x.at

(* What a caller of constructObject relies on: the object is aligned and shares *)
(* no byte with another, with the padding that makes it aligned in between.     *)
ObjectsAreUsable == Aligned /\ NoOverlap

(* on_destruction, whose capacity is fixed, has a slot left for each object   *)
(* whose constructor is running and for each external one still to come, in   *)
(* whatever order the constructors nest, return and throw.                    *)
SlotsSuffice ==
  phase # "reserving" =>
    Len(onDestruction) + remainingExternal
      + Cardinality({i \in DOMAIN constructing :
                       constructing[i].type \notin TriviallyDestructible})
      <= numTypesToDestroy
=============================================================================
