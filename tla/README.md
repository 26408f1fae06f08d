# TLA+ models of Fruit

Fruit is a dependency injection framework for C++. A program describes its
objects with *components* (`fruit::Component`), functions that say which
interface is bound to which class, how classes are constructed, and which other
components they install. Template meta programs check the components when they
are compiled. At run time Fruit *normalizes* a component into a graph of
bindings, and an *injector* creates objects from the graph when they are first
asked for.

This directory holds specifications of both: the meta program that turns the
calls of the user into a `Component`, and what the code does between
`Injector<...> injector(getComponent)` and the destructor of the injector. Line
numbers below and in `PROJECT.json` are those of this commit.

* [Inventory](#inventory)
* [Modules and their correspondence to the code](#modules)
* [Model-checking runs](#runs)
* [Where the code disagrees with its documentation](#findings)
* [Proofs](#proofs)
* [What is not modelled](#not-modelled)
* [Plan](#plan)

## Inventory <a name="inventory"></a>

The parts, in the order in which a program meets them.

| Part | State it keeps | Operations | Interacts with |
|---|---|---|---|
| `PartialComponent`, `PartialComponentStorage` | a chain of references, one for each call (`bind`, `install`, `replace`, ...) | one per call; `addBindings` at the end | pushes entries on the vector of the `Component` |
| meta program (`impl/meta/*`, `component_functors.defn.h`) | a `Comp`: provided and required types, which of them are not const, dependencies, remembered binds, deferred functors | one functor per binding; conversion to a declared type; automatic registration; the checks of an injector | its Ops push entries; sees the declared type only of the components that are installed |
| `ComponentStorageEntry` | a kind and a union; entries with arguments own a heap object | `create`, `copy`, `destroy` | everything |
| `ComponentStorage` | a vector of entries | copy, move, destroy | `Component`, normalization |
| `BindingNormalization` | stack of entries, sets of components expanded and in progress, replacement maps, binding map, compression map, multibindings, allocator data | one handler per kind of entry; compression; three entry points | calls component functions, builds the next two |
| `NormalizedComponentStorage` | the result for a `NormalizedComponent`, with what is needed to undo compressions | construction, use by injectors, destruction | input of `normalizeBindingsAndAddTo` |
| `InjectorStorage` | binding graph, multibinding sets with cached vectors, allocator, recursive mutex | `get`, `getMultibindings`, eager injection, construction, destruction | runs constructors and providers of the user, which call back through `Provider` |
| `FixedSizeAllocator` | a block, the last byte used, the destructors to run | reserve, construct, register, destroy | normalization reserves, the injector constructs |
| `MemoryPool`, `ArenaAllocator` | chunks, the free part of the last one | allocate, move, destroy | memory of the containers of the others |
| `FixedSizeVector` | a buffer that never grows | `push_back`, move | entries, values and edges |
| `SemistaticMap`, `SemistaticGraph` | perfect hash table; nodes and edges in two vectors | build, look up, copy with more nodes | the graph of an injector |

### What is hard, and what makes it correct

* **Order of expansion.** Components are expanded lazily and depth-first with an
  explicit stack, on which an end marker stands for a return. A replacement
  must precede the component it replaces; the order of pushes is the reverse of
  the order of declarations. Correct: each component function runs once, a
  replaced one never, nothing reachable is left out, loops are reported, and
  normalization ends.
* **Ownership.** A component with arguments has a `ComponentInterface` on the
  heap. Its pointer moves between the stack, three maps and the normalized
  component, with early returns for duplicates. Correct: freed exactly once.
* **Stale decisions.** Compression of `I -> C` is decided for a normalized
  component and revised when another component is added. Correct: conflicts
  are reported, compressions that are no longer licensed are undone, and memory
  is reserved for what will be constructed.
* **Concurrency and callbacks.** Threads share an injector under a recursive
  mutex; constructors call back into it through `Provider`, and throw. Correct:
  one instance per type, the mutex is unlocked as often as it was locked, every
  call returns, destruction respects every use.
* **Checks of one component at a time.** A component is compiled with only the
  declared types of those that it installs, and its calls come in any order.
  Correct: a program that compiles binds each type once, has a binding for
  everything it needs, hands out nothing const as something that can be
  modified, has no loop of dependencies, and pushes as many entries as it
  counted.
* **Layout.** One block is reserved for all objects before their order is
  known. Correct: objects are aligned, disjoint and inside the block, and
  `on_destruction` never needs to grow. A `MemoryPool` hands out pieces of
  chunks and is moved while they are in use. Correct: no piece is shared, freed
  early or misaligned, and each chunk is freed once.

The hazards behind these, each at its line and with the properties that cover
it, are in `PROJECT.json`.

## Modules and their correspondence to the code <a name="modules"></a>

### `ComponentStorageEntry`, `ComponentDefinition`

`Entry` is the union of `component_storage_entry.h` as a set of records. A
member of `Component` is a component function *with its arguments*, which is
what the code hashes and compares; the members of `WithArgs` have arguments. A
create function is a record of the template that is instantiated, the class it
constructs and the type it is bound to, because the code only compares the
pointers. The pairs of kinds `..._WITH_ARGS` and `..._WITH_NO_ARGS` are one
kind with a condition on `WithArgs`. An annotated type is another type, a
`const` binding has the same entry, and `registerFactory` makes a provider.

`AddBindings` is the chain of `PartialComponentStorage::addBindings`: the last
call pushes first. `InstallComponentFunctions` pushes in the order of its
arguments, unlike everything else
(see [below](#findings)).

### `InjectedTypes`, `MetaGraph`, `ComponentFunctors`, `ComponentDeduction`

`InjectedTypes` has the types of `meta/component.h`: a class, or a
`std::function` that makes it, with an annotation; the forms in which one is
requested (`T&`, `const T*`, `Provider<T>`, ...); and how the arguments of a factory are
split into injected and assisted ones and put together again (`Sift` is the code's
fold over the arguments). `MetaGraph` is the
search for a loop of `meta/graph.h`, as a recursive function over the nodes being
visited.

`ComponentFunctors` is the meta program as a state machine. The code composes
functors from `Comp` to an Op (a new `Comp`, entries to push, their number); the
state has the `Comp` so far and the agenda of functors still to be called, and
calling the first one is the action of its name. An error ends the compilation;
the handlers around a functor that fails are on the agenda after it.

| Actions | Code |
|---|---|
| `AddBinding` | the calls on a `PartialComponent` and `ProcessBinding` |
| `AddDeferredInterfaceBinding`, `ProcessInterfaceBinding`, `AddInterfaceMultibinding` | the functors of these names |
| `DeferredRegisterConstructor`, `PreProcess...`, `PostProcessRegisterConstructor`, and the same for providers | the functors of these names; the last one decides on compression |
| `RegisterMultibindingProvider`, `RegisterInstance`, `RegisterFactory` | the functors of these names |
| `InstallComponent`, `InstallEachComponent` | `InstallComponent(Helper)`, `InstallComponentFunctions` |
| `ConvertTo`, `ProcessDeferredBindings`, `ConvertComponent`, `EnsureProvidedType`, `AutoRegisterClass`, `AutoRegisterFactory`, `CheckVirtualDestructor`, `LeaveCatch` | the conversion to `Component<...>` and what it registers by itself |
| `CheckNoLoopInDeps`, `FinishConversion` | `Component(PartialComponent&&)` |
| `CreateInjector`, `CreateInjectorFromNormalized` | the constructors of `Injector` and their checks |

Sets of types are sets; in which order `ConvertComponent` registers the missing
ones follows in the code from how the sets were built, and is any order here.
That a signature is one, with injectable types and a lambda or a constructor
that matches it, is the flag `IsWellFormed` of the signature. The components
of a program are compiled one after the other, each seeing the declared types of
those before. An error
ends the model where it arises; the code passes it on in the `Result` of an Op (as
`AddInterfaceMultibinding` does) or in its place, to the same end. An instance is bound
as its own class; that `bindInstance` may name a base class of it, and the check of the
two types, are left out. `uses` and `constBound` are history variables: how the entries
that were pushed will request their arguments, and what was bound as const.

`ComponentDeduction` states what the run-time modules take for granted.

### `BindingNormalization`

The variables are the fields of `BindingNormalizationContext`, plus the
storages that are built (`base`, `graph`), the number of `ComponentInterface`
objects on the heap (`live`) and a history of the calls of component functions
(`installs`). `prog` is the program: what every component function pushes, the
root, and the component of a `NormalizedComponent` if there is one.

| Actions | Code |
|---|---|
| `HandleBinding`, `HandleInconsistentBinding` | the three `handleBindingFor...` |
| `HandleCompressedBinding`, `HandleMultibinding` | the handlers of these kinds |
| `HandleReplaced`, `...TooLate`, `...Again`, `...Differently` | `handleReplacedLazyComponent*`, `handlePreexistingLazyComponent*Replacement` |
| `SkipLazyComponent`, `PerformComponentReplacement`, `DetectInstallationLoop`, `ExpandLazyComponent` | `handleLazyComponent*` and its exits |
| `HandleEndMarker` | the end marker handlers |
| `StartCompression`, `CompressBinding`, `CompressMissingBinding` | `performBindingCompression` |
| `FinishPermanent`, `FinishUndoable`, `StartAddTo`, `FinishAddTo` | the three entry points and what the constructors of the storages do with their results |
| `DestroyNormalizedComponent` | `~NormalizedComponentStorage` |

The errors that print a message and call `exit(1)` are final values of
`status`. Undefined behaviour is the status `"undefined_behaviour"`; where its
outcome depends on the build, both outcomes are possible. The order in which an
unordered map is visited is a choice; so is that of the set of
merges to undo, of which the last one visited provides the binding of a type that
several of them bring back (`LastUndone`). The case of `handleMultibinding` where a
multibinding is at the back of the vector is not an action: `WellPaired`, which
is proved, says that a vector creator is always above it.

### `LazyInjector` and `InjectorStorage`

`LazyInjector` is the abstract specification: a type has one instance, made
after those it needs, handed out by every call, destroyed after those made from
it. `InjectorStorage` is the code. Each thread has a stack of frames, one for
each object that is being created; a frame remembers whether it was entered
through `get()`, which locks, or `getPtr()`, which does not. The steps between
which another thread could run, or user code could call back or throw, are
separate actions. The evaluation order of constructor arguments is a choice.
`ImplementsLazyInjector` maps `object`, the results returned and the objects
destroyed to the variables of `LazyInjector`.

The bodies of constructors and providers are not Fruit's. They are modelled by
all they may do to the injector: get a type from a `Provider` they were given,
throw, catch what such a call throws, return, or (a provider of a pointer)
return `nullptr`, which ends the program.

Every object is registered for destruction, as if its destructor did something;
`fixed_size_allocator.defn.h:90` leaves out the types for which it does not.
`allocated` counts the space taken in the allocator: `StartConstructor` takes it
before the constructor runs, and does not give it back when that throws.

### `FixedSizeAllocator`

`totalSize` and `numTypesToDestroy` are `FixedSizeAllocatorData`. Addresses are
natural numbers. `StartConstructObject` takes the space and
`FinishConstructObject` registers the destructor, since the constructor runs in
between, may construct others, and may throw. `remainingTypes` is the debug
field `remaining_types`, which carries the contract of the callers: at most one
construction for each reservation. Only builds with `FRUIT_EXTRA_DEBUG` check it. The
contract has two sides. `AllocatorReserved` in `BindingNormalization` says that enough is
reserved, `SpaceTakenOnce` in `InjectorStorage` that each type takes its space once
unless its constructor throws. A `get()` that tries again after an exception breaks the
contract ([below](#findings)), and the properties of the layout say nothing then.

### `SemistaticMap`, `SemistaticGraph` and `DependencyGraph`

`SemistaticMap` has the two constructors and the lookup. The first map is
`"old"`, the one copied from it with more elements `"new"`. A pointer into a
vector is the map that owns the vector and a position. `hashFunction` is `a`
and the number of bits kept, and the product wraps around at `2^WordBits`.
`PickAnother` and `PickHashFunction` are one round of the search each, with any
multiplier; `FillNext` stores one element; `Insert` is `insert()`, for all the new
elements of one bucket. `Find` is `at()` and `find()`.

`SemistaticGraph` extends it: `StartGraph`, `AllocateNodes`, `FillNode`, `FinishGraph` are
the constructor for a normalized component; `StartCopy` and `CopyNodes`, and
the last two again, the one that copies a graph and adds nodes. The indexes are
those of nodes, not of bytes. `edges_begin` is 0, 1 or a pointer, as in the
code. `SetTerminal` is what an injector does with a node whose object it has
constructed. The order of a hash set and of a sort by address are choices.

`DependencyGraph` is what a client relies on: a graph that never changes and
one that starts as that graph with nodes added and overridden. The refinement
mapping reads each graph through `find()` and the edge iterators. This is also
what `BindingNormalization` (`base.graph`, `FinishAddTo`) and `InjectorStorage`
assume of their graphs.

### `MemoryPool`

An address is a chunk and an offset. `AllocateInChunk`, `AllocateNewChunk` and
`AllocateThrows` are the paths of `allocate`; whether the `push_back` of a new chunk can
throw depends on the capacity reserved before. `blocks` is a history of the blocks in
use and of the pool that has to outlive them; `ArenaAllocator` passes `allocate` on and
frees nothing. A pool that is moved from keeps `first_free` and `capacity`, so it
must not be allocated from again, and Fruit does not.

`allocate` takes the place `first_free + misalignment`, not `first_free +
(alignment - misalignment)`. This is aligned when the misalignment is 0 or half of
the alignment, hence for alignments that differ by a factor of 2 at most, which are
those of the run (4 and 8) and more than Fruit needs: all that it
allocates today is aligned like a pointer. For an alignment four times another
one `BlocksAreUsable` would not hold. There is no run for that: it would be about types
that no pool of Fruit holds.

## Model-checking runs <a name="runs"></a>

| Run | States | What it covers |
|---|---|---|
| `MCExpansion` | 577 000 | all programs whose root makes up to two `install`, `replace` or (for two pairs of functions) `installComponentFunctions` calls over three subcomponents (one with arguments), each of which makes at most one `install` or `replace`; without a normalized component and with one made of `w`; termination under fairness |
| `MCCompression` | 170 000 | interface `I`, classes `C`, `D`, a user `X`, a multibinding `M`; five definitions of `a`, nine of `b`, six of the root; all orders of installing; with and without a normalized component; `C`, `I` or nothing exposed |
| `MCInjectorStorage` | 257 000 | two threads with two calls each, a bind, two constructors, both kinds of providers, a `Provider` called from user code, a multibinding set of two elements, one exception; liveness and refinement included, so without symmetry |
| `MCFixedSizeAllocator` | 94 000 | three types of sizes 1, 4, 6 and alignments 1, 4, 2, each added up to twice, one external object, blocks at every address modulo 4 |
| `MCDeduction` | 402 000 | two components: up to one of three bindings and four declared types for the first, up to two of 31 bindings in every order and 13 declared types for the second, which may install the first; interfaces with and without a virtual destructor, classes with and without an Inject typedef, assisted arguments, an annotation, const, factories; then an injector of either, or of both through a normalized component |
| `MCMemoryPool` | 216 000 | two pools (symmetric), three element types, chunks of 48 bytes, up to three of them, requests of 0, 1 and 2 elements, `operator new` that throws |
| `MCSemistaticGraph` | 15 000 | five pairs of a graph and what is added to it, over five types: none, shared and repeated edges, nodes only referred to, nodes overridden; all 16 multipliers of a 4-bit hash and all orders of ids |

*Bounds.* In `MCExpansion`, two calls are needed for a replacement and an install in
either order, and three subcomponents for a chain of replacements, a loop of
length three through the root, and two replacements of one component that
differ. In `MCCompression`, a conflict, a compression and its undoing each need
two components besides the root. In `MCInjectorStorage`, two threads and
two calls let a call overlap another, fail, and be retried. In `MCFixedSizeAllocator`
the address only matters modulo the largest alignment, 4, and two objects of a
type beside one of the others give every combination of a gap before and after;
`MaxSize = 22` keeps the number of objects finite. In `MCSemistaticGraph` a
first graph of four types is the smallest for which a multiplier (0) is
rejected, and four bits of hash are one more than the three that four types
keep, so that the product both wraps around and loses bits. In `MCDeduction`,
two calls give every pair of bindings in both orders, and whatever needs more is
deduced from Inject typedefs; a loop or a const that no single component sees needs
two components. In `MCMemoryPool`, chunks of 48 bytes hold several
blocks, are filled, and are too small for the largest request; with three of
them the vector of chunks grows (for the first two) and does not (for the third).

*What the invariants say.*

* `MarkersMatchInProgress`, `InstalledAtMostOnce`, `ReplacedNeverInstalled`,
  `ExpandedIsClosure`, `LoopsAreDetected`: the stack machine computes the
  depth-first closure of the installs, in which a replaced component stands for
  its replacement. `ExpandedIsClosure` compares it with a definition of
  reachability that knows no order; `LoopsAreDetected` says the same of loops: one
  that is reported is there, and no graph is built from components that have one.
* `OwnershipExact`: the number of heap objects is the number of their owners.
* `InstalledInDeclaredOrder`: `install` calls take effect in their order. Until
  the component of one has started or turns out to be replaced, nothing has started
  but the root and what the calls before it lead to. The functions of one
  `installComponentFunctions` are in `MCExpansion` taken to be declared last one first,
  which is how the code treats them; with the documented order TLC reports the property
  as violated.
* `ConflictsAreReported`: an error for two bindings of a type exactly when
  there are two, except for pairs that the normalized component has compressed
  (see below for those).
* `CompressionIsLicensed`, `InterfaceKeepsItsClass`: a compression left in the
  graph is one that `component_storage_entry.h:160` permits, and constructs the
  class that was bound. In an injector built on a normalized component, no binding of the
  whole graph needs a merged class, and no multibinding or exposed type of the
  normalized component does; those of the component that was added may, because the code
  undoes nothing for them. Two conditions come from the code. `BindsAreDeclared`: a
  component that pushes a compressed entry pushes the bind as well, which is not so
  when `bind<I, C>` is unused (`MCHijackedInterface`). `PairsAreDisjoint`, for the
  injector built on a normalized component: no type is in two of the compressed
  pairs. The first implies the second (this is proved), and without it the code,
  which undoes one pair at a time, can leave a class merged and bound.
* `AllocatorReserved`: the reservations cover what the graph constructs, under the
  same condition.
* `SpaceTakenOnce`: a type takes space in the allocator once, whatever the threads do,
  and once more at most for each exception. Without that allowance
  it is violated: a `get()` that is tried again after an exception constructs again.
* `OneInstancePerType`, `LocksMatchFrames`, `VectorsAreComplete`,
  `EagerInjectsEverything`, `OwnedExactlyOnce`, `DestroyedAfterDependents`: as
  named, with exceptions and callbacks at every point.
* `CompIsConsistent`, `Entails`: the invariants that `meta/component.h` documents or
  checks in debug builds only. `CapacityIsExact`: the count of entries is exact,
  and `push_back` does not pass it. `BoundExactlyOnce`: what a component provides comes
  from one entry or one installed component. `CompressibleInEveryOrder`: the order of
  `bind` and constructor does not matter. `ConstOfOthersIsRespected`: what other
  components provide as const, or this one requires as const, is not modified.
  `FactoryArgsInPlace`: assisted and injected arguments end up where they belong.
* `ProgramIsComplete`, `LoopsWithoutConstAreReported`: over all components of an
  injector, though each was checked by itself. The second is restricted to
  programs in which no declared type is const, and to those whose components do not
  privately bind one type differently, which normalization reports at run time.
  `LoopReportIsExact`: a loop that is reported is one.
* `BlocksAreUsable`, `EachChunkHasOneOwner`: the memory pool.
* `WithinStorage`, `ObjectsAreUsable` (aligned and disjoint), `SlotsSuffice`: the layout.
* `FindIsExact`: each map finds what it was given, and the first one still does
  when its values are shared. `StorageIsExact`: `push_back` on the vectors of
  fixed size never passes their capacity, and none is left over.
  `ImplementsDependencyGraph`: the two graphs
  together.

*Fairness.* `NormalizationTerminates` assumes that normalization, which is
sequential code, takes its next step. It is stated for programs whose
replacements do not run in a circle, because the code does not check for one
and then does not end. `CallsReturn` assumes that each thread that can take a
step does (`WF` of `Step(t)`). For a thread that waits for the mutex this is
enough, as the number of calls is bounded: the others run out of calls, and the
lock is then continuously free. The code promises nothing more: it relies on
`std::recursive_mutex`, which is not fair. Destruction and new calls are not
assumed to happen.

Each property of a passing run has a mutant in `PROJECT.json`: an operator
marked *Mutant* in its module, that replaces the operator after it by a
plausible mistake and makes TLC report the property.

## Where the code disagrees with its documentation <a name="findings"></a>

Each of these is a run in which TLC finds a counterexample; `PROJECT.json`
quotes the line that says otherwise.

| Run | What happens |
|---|---|
| `MCReplacementConflict` | a second, different replacement is compared through the wrong member of the union when only the new one has arguments (`new_replacement.kind` is tested instead of `preexisting_replacement.kind`) |
| `MCMissedConflict` | another binding of a class that has been compressed away is not a conflict |
| `MCHijackedInterface` | the compressed entry of a `bind<I, C>` that its component does not use overwrites the binding of `I` to `D` of another component |
| `MCMissedLoop` | a loop through a type that a component declares as `const` is not found at compile time, because `const X` and `X` are different nodes of its dependencies |
| `MCConstInstance` | a const instance bound after the binding that needs it as non-const is accepted; in the other order it is an error |

Both of the last two compile: `Component<Required<Y>, const X>` with `X(const Y&)`,
installed in a `Component<Y>` in which `Y` needs `I`, `I` is bound to `C` and `C`
needs `X`; and `addMultibinding<I, C>().bindInstance(c)` with a const `c`.

Four more are in the models, where the properties of the passing runs leave room for
them; TLC finds each when that room is taken away:

* `installComponentFunctions(f, g)` expands `g` first (`partial_component_storage.defn.h:378`
  pushes `f` first), while the `install` calls that `component.h:912` says it "Is equivalent
  to" expand `f` first. A replacement made by `f` of something that `g` installs comes too
  late. (`InstalledInDeclaredOrder` with the functions in the documented order.)
* A component added to a normalized one exposes a class that this has merged, or has a
  multibinding that needs it. `binding_normalization.cpp:390` decides what to undo from the
  dependencies of the new bindings only, so that the merge stays, and `get()` of the
  class, or the creation of the multibinding, looks up a node that is not in the graph.
  The normalized component installs `a`, which has `bind<I, C>` and the constructor of `C`,
  and exposes `I`; the other one installs `a` as well and exposes `C`; `a` is expanded
  already, so that no new binding appears. `component_storage_entry.h:161` and `:163`
  exclude such a compression, and `normalized_component.h:54` says that an injector may be
  split in this way. (`CompressionIsLicensed` with `prog.exposed` and
  `DeclaredMultibindings` in every phase.)
* After a constructor has thrown, `get()` constructs again, in space that was reserved
  once, although `fixed_size_allocator.h:79` allows one `constructObject` for each
  reservation. The second object takes the room of another one, or lies beyond the
  block. (`SpaceTakenOnce` without the exceptions.)
* The same bindings in a normalized component that has compressed them and in the
  component added to it are a conflict.

The unused `bind<I, C>` of `MCHijackedInterface` has a second effect, the action
`CompressMissingBinding`: when nobody binds `I`, compression looks up a binding
that does not exist, and its status is `"undefined_behaviour"`.

## Proofs <a name="proofs"></a>

TLAPS checks these for every value of the constants.

### `BindingNormalizationProofs`

Assumptions: `WithArgsAssumption`, `ComponentAssumption` (finitely many
components, needed for the cardinalities in `OwnedBy`), and `ProgramAssumption`
(what component functions push is made by the operators of
`ComponentStorageEntry`: no end markers, and pairs stay together).

* `TypeCorrectness`: `TypeOK`. It is not inductive by itself, because a handler that
  takes two entries off the stack needs to know what the second one is. `TypeInv`
  adds `WellPaired(stack)`: a replaced component lies on its replacement, a
  vector creator on its multibinding. Lemmas show that `WellPaired` survives
  popping one entry that is not half of a pair, popping a pair, replacing the
  top, and putting a body on top of a marker.
* `MarkersAreTheCallStack`, `ReplacementsAreRespected` and
  `EachComponentExpandedOnce` follow from `ExpansionInv`: `TypeInv`, the markers match
  `inProgress`, no replaced component has started, a component function
  has been called once if it has started (in this normalization or in the base)
  and never otherwise, and nothing is left on the stack or in progress outside
  of a normalization. The parts need each other: that a component without a
  marker is not in progress gives that it is called once; that the three sets of
  started components are disjoint is kept by the guards of `ExpandLazyComponent`
  and of `HandleReplaced`.
* `EachInterfaceHasOneOwner`: `OwnershipExact`, on top of `TypeInv` and
  `ExpansionInv`. `OwnershipInv` adds that the context owns nothing once a
  normalized component has taken its sets over, which is what makes the second
  normalization start from a count that is right. The lemmas count owners: what
  popping, replacing and pushing entries adds to `Owners(stack, c)`, and what a new
  element of the expanded set or of the replacement map adds to `OwnedBy`.

### `ClosureProofs`

No further assumptions; `DeclaredOrderIsKept` has a hypothesis.

* `ClosureIsExpanded` and `NoLoopUnnoticed`: `ExpandedIsClosure` and
  `LoopsAreDetected`. Both speak of reachability, which is not defined by paths but as
  the least closed set, so that no induction over paths is needed. `ClosureInv` says that the
  stack is a call stack, with two fixpoints. The components named by the entries above
  an end marker *account for* what its component leads to (the largest set whose
  members are named there, or are settled and lead to members: nothing is left
  out), and are *reached from* it through what has been processed (the least
  one: nothing is added). The same holds of the whole stack and the roots. When
  the stack is empty the first gives one inclusion of `ExpandedIsClosure` and the
  second the other. A component below whose marker the same one is found again
  is reached from itself, which makes the report of a loop right; and a component that
  has lost its marker leads to a closed set without it (`LeadsAway`), which makes
  the silence right.
* `DeclaredOrderIsKept`: `InstalledInDeclaredOrder`, for programs with
  `DeclaredOnTop`, the meaning of `declared`: the installs in the body of the root, the
  first one on top. `ComponentDefinition` pushes them so. `DeclaredInv` says of each of
  them that it has been processed, or waits at its place on the stack with only the
  work of those declared before it above.

### `CompressionProofs`

Assumptions, besides those above: `CreateFunctionAssumption` and
`CompressedEntryAssumption`. `handleBinding` compares only the create functions, and
whether both are objects, when the older binding is in the normalized component; that
the kinds then agree as well is because a create function is instantiated by one
operation, which makes one kind of binding. It also has one set of dependencies, those
of its signature. And a compressed entry is pushed with the constructor or the
provider of its class (`component_functors.defn.h` does), one of the same sort as its
own create function, and the create functions of pairs are used for nothing else.

* `MultipleBindingsAreReported`: `ConflictsAreReported`. `BindingInv` follows each
  declared binding through the three normalizations. While entries are handled it is
  on the stack or in force, in the map or in the normalized component, and the maps
  hold nothing that was not declared (`HandlingInv`). During compression all
  declared bindings agree, and one that has left the map belongs to a pair that
  `undoInfo` remembers; a class is compressed once, so that nothing remembered is
  overwritten (`CompressingInv`). The storage hands both facts to the injector built
  on it (`ReadyInv`). The exception for compressed pairs cannot be dropped:
  `MCMissedConflict` is the counterexample.
* `OnlyLicensedCompressions` and `InterfacesKeepTheirClass`:
  `CompressionIsLicensed` and `InterfaceKeepsItsClass`. Neither is inductive, even
  with the other. `CompressionInv` adds what happens in between.
  `MergedAreFree`: a class that has been merged, or was and waits in `undoInfo`, is in
  no map, is not exposed, and nothing in the map or remembered needs it.
  `WaitingAreFree`: a class that will be merged is needed by its interface only; this
  is what `StartCompression` establishes and each `CompressBinding`, which moves
  dependencies from one binding to another, has to keep. `MergedBefore`: a
  remembered binding that was itself the result of a merge shares a type with
  the pair it was merged for (chains `I -> J -> C`). `StoredInv` is what the injector
  built on a normalized component relies on: what it has stored was merged with its
  license, and while new entries are handled no other binding of a merged
  interface is accepted. Its conjunct `NotNeededInBase` keeps what the license said of
  the exposed types and multibindings of the normalized component.
* In the graph of that injector a merged binding is one of the normalized component that
  was not undone, or one that an undone pair brings back (`MergedIsRemembered`). The latter
  had been merged before the pair was, so that the two pairs share a type, whichever of
  them was visited last; `PairsAreDisjoint` excludes it (`MergedComesFromBase`).
* `PairsShareNothing` and the last conjunct of `StoredInv`: `BindsAreDeclared`
  implies `PairsAreDisjoint`, so that the condition on the second property is
  enough for it in every phase.

`CompressionInv` was checked with TLC on `MCCompression`, and on a variation of it
with chains of interfaces, before it was proved. This showed that the properties
need `PairsAreDisjoint`.

The last part of the module is about the allocator. Its assumption, in addition, is
`MadeEntryAssumption`. A constructor or a provider is bound to
the class that it makes, and its kind says whether the injector needs space for the
object (`createComponentStorageEntryForConstructor` and `...ForProvider` in
`injector_storage.defn.h` set both).

* `GraphFitsItsAllocator`: `AllocatorReserved`. The data is counted up while bindings
  are handled, one step for each, and what it has to cover is only known at the end,
  after bindings have been merged, forgotten, or brought back. `ReservationInv` closes
  the gap with sets of classes. While bindings are handled, one object (a slot, for
  a provider) has been counted for each class in `Handled`, the classes made by declared
  bindings that have left the stack; duplicates are counted again, hence "at
  least". `MergedAreMade`: whatever pairs have been merged, the map and `undoInfo` make
  no other classes. `StoredReserved`: the normalized component has counted the
  classes of its bindings and of those that undoing brings back, and its
  multibindings.
* The types of the graph inject into those classes (`EnoughForEach`), as long as no two
  bindings make the same class (`OneEach`). A graph without a normalized component has
  this property (`MapMakesOneEach`). The graph of an injector built on one does not: when
  the second component binds a class that was merged, the class is made by its own
  binding and by that of the interface. So the graph is split in the bindings that
  are new and those that come from the normalized component. Each part has the
  property, the second one (`BaseReserved`) only under `PairsAreDisjoint`, and the two
  reservations add up.

`ReservationInv` was checked with TLC on `MCCompression` before it was proved.

### `InjectorStorageProofs`

Assumptions: `GraphAssumption` (the graph of bindings is typed and has no cycle,
which is what makes recursion end) and `NamesAssumption` (types, elements, calls and
`None` are different names). Threads, calls and exceptions are arbitrary.

All theorems follow from one inductive invariant, `IInv == TypeOK /\
LocksMatchFrames /\ StacksOK /\ TodoOK /\ DataOK`.

* `StacksOK` describes every frame of every thread: what it creates does not exist
  yet, it was pushed for a dependency that the frame below still waits for, and what
  has been collected so far are the objects of the dependencies. Because the graph
  is acyclic, the nodes of the frames of one stack are distinct
  (`NodesAreDistinct`), so that a nested call never creates what a frame below it is
  creating. That only the owner of the mutex has frames is `LocksMatchFrames`, and
  the two together give `EachTypeHasOneInstance`.
* `DataOK` has `OwnedExactlyOnce` and `VectorsAreComplete` with what they need: an
  object exists only with those it was made from, each constructor has returned at
  most once, and an object is registered for destruction after those that it uses
  (`UsesOK`), which gives `DependentsAreDestroyedFirst`.
* `TodoOK` says that `eagerlyInjectAll` gets the multibindings last, after every
  exposed type is there; it gives `EagerInjectionIsComplete`.

`IInv` was checked with TLC on `MCInjectorStorage` before it was proved.

* `EachSpaceIsTakenOnce`: `SpaceTakenOnce`, on top of `IInv`. `SpaceInv` compares the
  space taken with the objects completed and the exceptions thrown: a
  type has taken at most their sum, and one more while its constructor runs in a thread
  that has not thrown (`Taking`). A throw makes every such constructor's space
  vain at once, and gives each type one more in exchange. That a constructor does not
  run twice at a time is again `NodesAreDistinct` with the mutex.

The last section of the module has the refinement.

* `StorageImplementsLazyInjector`: `Spec => ImplementsLazyInjector`. The initial
  state maps to the initial state of `LazyInjector`; the return of a constructor, of
  a provider or of a bind is its `Provide`, the return of a call its `Deliver`, the
  destruction of an object its `Destroy`, and locking, frames, vectors and
  exceptions are stutters. `IInv` supplies the guards of the abstract actions.
  `LazyInjector` is stated without fairness, so the refinement is one of safety.

### `FixedSizeAllocatorProofs`

Assumption: `LayoutAssumption` (sizes and alignments are positive).

* `AllocatorTypeCorrectness` and `ObjectsStayUsable` (`ObjectsAreUsable`) follow from
  `LayoutInv`: the types, no object before the block exists, every object ends at or
  below `storageLastUsed`, which is at or above `storageBegin`, no overlap,
  alignment. The arithmetic is in two lemmas: `x + a - x % a` is a multiple of `a`,
  and is greater than `x`.
* `ObjectsFitTheBlock` (`WithinStorage`) and `SlotsAreEnough` (`SlotsSuffice`) are
  about a sum over the types: the space, or the destroy operations, of the objects
  that were reserved and are not constructed yet. The invariants count instead of
  adding. `Reserved(remainingTypes)` is the set of the
  reserved bytes, each named by a type, an object and a number, and `SpaceInv` says
  that its cardinality and the space used stay within the block; `SlotInv` counts
  slots, with those of the objects under construction, whose constructors may throw
  or construct others. The set is finite at first because nothing is reserved, and
  one object more or less of a type adds or removes one finite set: both
  lemmas rest on the facts about cardinality of the library.

### `SemistaticProofs`

Assumptions: `HashAssumption` (`std::hash` gives each type a word), `PowersAssumption`
(two laws of the powers of two up to the width of a word, for which the provers have
none), `GraphInputAssumption` (a node has as many edges as its create function has
dependencies, a terminal one none), and `SizeAssumption` (a word has enough bits for
the bucket numbers of as many types as there are). The hash function, the
multipliers drawn, the types, the bindings and the order of hash sets are arbitrary.

The proofs need sums (`std::partial_sum`, the space for the copied buckets, the number
of edges) and least and greatest elements. `FiniteInduction` makes them accessible: a
set of subsets of a finite set that has a subset whenever it has it without any
of its elements, has them all. It follows from the library's fact that the strict subset
order is well founded, and takes a set where the library's induction rules take an
operator. `SumIsCount` then says that the sum of a function is the number of pairs
below it.

* `FindTheorem`: `FindIsExact`. `MapInv` follows a map through its construction. While
  it is filled, the range of each bucket holds the elements of the bucket that are not
  waiting any more (`Exact`), and below the range there is room for those that are,
  above the ranges of all lower buckets (`Room`): the `begin - 1` of `FillNext`
  never reaches another bucket nor goes below 0. While the copy is extended, a bucket
  for which new elements wait still points to the range of the old map, the waiting
  elements are sorted by hash, and the capacity is what has been pushed, what
  waits, and the sizes of the old ranges of the buckets that wait.
* `StorageTheorem`: `StorageIsExact`. The first half is the last fact at the end of the
  insertions. The second is `SpaceInv`: the edges pushed and those of the nodes that
  are still to be filled in are as many as there is space for. It needs `IndexInv`,
  that each id of a node or an edge has a number of its own, below the size of
  the vector of nodes, and that the new ones come after all the old ones.
* `GraphRefinement`: `Spec => ImplementsDependencyGraph`. `GraphInv` adds `NodesInv`,
  that the edges of every node lie within one of the two vectors, and those in the
  vector of the old graph are numbers of ids that the old map knows (so that the
  injector's copy reads the same ids from them); and `FilledInv`, what a
  client would see of each id while nodes are filled in: the last node so far
  that was given for it, or what was there before. The end of the two
  constructors is `Build` and `Extend`, `SetTerminal` is its namesake, and all other
  steps change nothing that a client sees. `DependencyGraph` has no fairness, so the
  refinement is one of safety.

`MapInv` and `GraphInv` were checked with TLC on `MCSemistaticGraph` before they were
proved.

### `MemoryPoolProofs`

Assumptions: `ElemAssumption` (sizes are positive multiples of alignments, as in
C++), `PoolBoundsAssumption`, and for `BlocksStayUsable` `AlignmentAssumption`: the
alignments of the element types differ by a factor of two at most. The pools hold
structures of pointers, sizes and integers only, and the code relies on it without
an assertion: `allocate` does not check that the space it leaves in a chunk starts
at a multiple of a larger alignment.

* `ChunksAreFreedOnce`: `EachChunkHasOneOwner`, for any number of pools. `OwnerInv`
  says that each chunk has been freed once or is in one place of one pool's vector,
  that only a live pool has chunks, and that the vector has room for those it has.
* `BlocksStayUsable`: `BlocksAreUsable`. `LayoutInv` adds the layout: each block
  lies in its chunk, below the first free byte when the chunk is the current one,
  and the first free byte is a multiple of half of every alignment.
* `PoolTypeCorrectness` is `StateOK` with the fact that a block names a chunk that
  was allocated.

### `DeductionProofs`

Assumptions: `TraitsAssumption`, `BindingsAssumption`, `DeclaredAssumption` and
`ComponentAssumption` give the types of what a program consists of: bindings are
records of `BindingCall`, which says what each template of `bindings.h` takes (a
well-formed signature of a provider, for one, has no assisted arguments), and the declared types are types. `AnnotationAssumption` is
of `InjectedTypes`. Classes, annotations, signatures, the programs and their
number of components are arbitrary.

One inductive invariant, `Inv`, of six parts. Its step is proved for all functors
at once: `StepOK` says what the functors, the entries and the requirements that a
functor makes have to satisfy for `Inv` to be kept, and there is one lemma for each
functor, that it makes such a step or reports an error (`Keeps`).

* `CompInv` gives `CompStaysConsistent` (`CompIsConsistent`): one dependency for each
  provided type, all of whose requirements are among those of the `Comp`.
* `EnsureInv` gives `CompiledEntails` (`Entails`). It follows the conversion. A type that is
  required is `Covered`: it is provided, or the declared component requires it, or a
  functor on the agenda promises it (`Pending`): to ensure it, to process its interface
  binding, or to register it. The same holds of what those functors are going to
  require, and of the non-const requirements with a promise for a non-const type.
  With an empty agenda nothing is promised any more. `TypeInv` has what this
  rests on: that a conversion first calls what was deferred (`Deferring`) and then
  has an agenda of functors that ensure types and nothing else (`Ensuring`).
* `CapacityInv` is `CapacityIsExact`, and gives `EntriesFillTheirCapacity`. Its lemmas are
  about the storage: what `AddBindings` pushes, for each kind of call, is as many
  entries as `NumBindingsOfAll` counts.
* `CompressibleInv` gives `CompressibleAlways` (`CompressibleInEveryOrder`): no entry that
  makes a class is pushed before the conversion, because the functors that push
  one are deferred, and from then on the set of interface bindings is fixed, so that the
  compressed entry is pushed with the first one in whatever order the program has them.
* `ConstInv` gives `ConstOfOthersRespected` (`ConstOfOthersIsRespected`). What the pushed
  entries request without const is in the `Comp`, since a constructor or a provider
  that pushes its entry later has put its requirements there before (`Processed`) or has the
  functor that does ahead of it (`WillProcess`); what an installed component provides
  as const is in the `Comp` or its install is still on the agenda.
* `FactoryArgsStayInPlace` (`FactoryArgsInPlace`) is about the operators only: `Sift`
  keeps the order of the injected and of the assisted arguments
  (`SiftedInOrder`), and the index by which an argument is taken from either is the
  number of such arguments before it (`CountRest`).

All parts of `Inv` were checked with TLC on `MCDeduction` before they were proved.

### Only model-checked

* Liveness (`NormalizationTerminates`, `CallsReturn`) is out of the prover's reach.
* `BoundExactlyOnce`: it would need an invariant that ties each entry to the type, the
  requirement or the install that it was pushed for.
* `LoopReportIsExact`: what the search of `MetaGraph` computes is an induction along
  the nodes being visited, and its reference speaks of paths.
* `ProgramIsComplete` and `LoopsWithoutConstAreReported`: they relate the entries of all
  components of a program, and paths in them, to its declared types.
* That the search of `SemistaticMap` for a hash function ends is true with
  probability one only, so no liveness is stated for it.

## What is not modelled <a name="not-modelled"></a>

* Of the meta program: the checks that a signature, a lambda or a declared type is
  well formed (one flag), `CheckGet`, the arguments of `install`, and the containers of
  `meta/` (sets, vectors, lists, folds), which are those of TLA+. `proof_trees.h` is used by
  extra debug builds only. The MC modules of the run-time part enumerate
  programs that would compile: `Compiles` in `MCCompression` states the
  conditions used, and `GraphAssumption` in `InjectorStorage` the absence of loops, which
  `MCMissedLoop` shows to be more than what compiling gives.
* `PackedPointerAndBool`: a pair for its users.
* `FixedSizeVector` is a sequence, with its capacity where a property is about it;
  `ComponentStorage` is the owner of one, whose copies and moves happen before
  normalization takes the entries.
* The builds with `FRUIT_DISABLE_ARENA_ALLOCATION` or `FRUIT_NO_LOOP_CHECK`.
* Type identifiers, hashing, demangling: types and functions are model values.
* Texts of error messages, the debug output under `FRUIT_EXTRA_DEBUG`, and
  `unsafeGet`, which only the tests use.

## Plan <a name="plan"></a>

The order in which the models grow, most important first.

1. Done: `ComponentStorageEntry`, `ComponentDefinition`, `BindingNormalization`
   with its expansion invariants proved; `InjectorStorage` with `LazyInjector`;
   `FixedSizeAllocator` with its layout proved; `SemistaticMap` and
   `SemistaticGraph` with `DependencyGraph`; `InjectedTypes`, `MetaGraph`,
   `ComponentFunctors` and `ComponentDeduction`; `MemoryPool`.
2. Done: `OwnershipExact` and `ConflictsAreReported` for every program; the invariants of
   `InjectorStorage` and the refinement of `LazyInjector` for any number of threads;
   `EachChunkHasOneOwner` and `BlocksAreUsable` for any number of pools; the closure of the
   installs, their order and the loops; which compressions are made and undone, and
   that the allocator data covers what they leave; `WithinStorage` and `SlotsSuffice` of
   the allocator; the semistatic map and graph for every hash function and all bindings;
   what the meta program promises of a component that compiles.
   Next proofs: `BoundExactlyOnce`, then `ProgramIsComplete` from it.
3. The composition of `ComponentFunctors` with `BindingNormalization`: the programs
   that the second one starts from as those that the first one has compiled, in place of
   `Compiles`.
