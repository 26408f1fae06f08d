---------------------------- MODULE InjectorStorage ----------------------------
(***************************************************************************)
(* InjectorStorage: an injector that creates its objects when they are     *)
(* first asked for, while threads call it concurrently.                    *)
(*                                                                         *)
(* Every public operation holds the recursive mutex of the storage.  The    *)
(* call stack of a thread inside the injector is a sequence of frames, one *)
(* for each object under construction; user code (constructors, providers) *)
(* runs while a frame is "running", may call get() again through a         *)
(* fruit::Provider, and may throw.                                         *)
(***************************************************************************)
EXTENDS Integers, FiniteSets, FiniteSetsExt, SequencesExt

CONSTANTS Thread,
          Type,        \* the types bound in the graph
          Element,     \* the elements of the multibinding sets
          MultiType,   \* the types with multibindings
          Kind,        \* how the object of a type or an element is created
          Needs,       \* the types that creating it injects
          Lazy,        \* the types that it is given a Provider of
          Elements,    \* the elements of a multibinding set, in order
          Exposed,     \* the types of the Injector, in order
          MaxCalls,    \* bound: calls that a thread makes
          MaxThrows,   \* bound: exceptions that user code throws
          None

Creatable == Type \cup Element

(* "instance": bound to an object of the user; "bind": the object of another  *)
(* type; the others are constructors and the two sorts of providers.          *)
CreateKind == {"instance", "bind", "constructor", "value_provider",
               "pointer_provider"}

(* The types under a type form no loop: this is checked when the components   *)
(* are compiled, for Providers too.                                           *)
ASSUME GraphAssumption ==
  /\ Kind \in [Creatable -> CreateKind]
  /\ Needs \in [Creatable -> SUBSET Type]
  /\ Lazy \in [Creatable -> SUBSET Type]
  /\ Elements \in [MultiType -> Seq(Element)]
  /\ Exposed \in Seq(Type)
  /\ \A n \in Creatable :
       /\ Kind[n] = "instance" => Needs[n] = {}
       /\ Kind[n] = "bind" => Cardinality(Needs[n]) = 1
  /\ \A S \in (SUBSET Type) \ {{}} :
       \E n \in S : (Needs[n] \cup Lazy[n]) \cap S = {}

(* What a call of a thread asks for, and the frames that it pushes.           *)
AllMultibindings == "all multibindings"
Call == "call"
Target == Type \cup MultiType \cup {AllMultibindings}

Object == [of : Creatable, nth : Nat]

ASSUME NamesAssumption ==
  /\ Type \cap Element = {} /\ Creatable \cap MultiType = {}
  /\ {Call, AllMultibindings} \cap (Creatable \cup MultiType) = {}
  /\ None \notin Thread \cup Creatable \cup MultiType
  /\ None \notin Object \cup Seq(Object)
  /\ MaxCalls \in Nat /\ MaxThrows \in Nat

VARIABLES
  status,         \* "alive", "destroying", "destroyed" or "fatal"
  owner,          \* the thread that holds the mutex
  depth,          \* how often it has locked it
  calls,          \* the frames of each thread, innermost last
  raised,         \* an exception is leaving the frames of the thread
  todo,           \* what each thread has still to get in its current call
  object,         \* the object of each type and element; None until created
  vector,         \* NormalizedMultibindingSet::v, the cached vectors
  onDestruction,  \* FixedSizeAllocator::on_destruction
  allocated,      \* constructObject calls for each type and element
  created,        \* history: objects completed, for each type and element
  returned,       \* history: what the calls for each target have returned
  uses,           \* history: pairs of an object and one passed to it
  destroyed,      \* history: the objects destroyed
  eager,          \* history: eagerlyInjectAll has returned
  budget,         \* calls that each thread may still make
  throws          \* exceptions that may still be thrown

mutexVars == <<owner, depth>>
graphVars == <<object, vector>>
allocatorVars == <<onDestruction, allocated>>
historyVars == <<created, returned, uses, destroyed, eager>>
callVars == <<calls, raised, todo>>
vars == <<status, mutexVars, callVars, graphVars, allocatorVars,
          historyVars, budget, throws>>

Frame == [node : Creatable \cup MultiType \cup {Call, AllMultibindings},
          pending : SUBSET (Creatable \cup Target),
          args : SUBSET Object, running : BOOLEAN, locks : {0, 1}]

TypeOK ==
  /\ status \in {"alive", "destroying", "destroyed", "fatal"}
  /\ owner \in Thread \cup {None}
  /\ depth \in Nat
  /\ calls \in [Thread -> Seq(Frame)]
  /\ raised \in [Thread -> BOOLEAN]
  /\ todo \in [Thread -> Seq(Target)]
  /\ object \in [Creatable -> Object \cup {None}]
  /\ vector \in [MultiType -> Seq(Object) \cup {None}]
  /\ onDestruction \in Seq(Object)
  /\ allocated \in [Creatable -> Nat]
  /\ created \in [Creatable -> Nat]
  /\ DOMAIN returned = Type \cup MultiType
  /\ \A n \in Type : returned[n] \subseteq Object
  /\ \A m \in MultiType : returned[m] \subseteq Seq(Object)
  /\ uses \subseteq Object \X Object
  /\ destroyed \subseteq Object
  /\ eager \in BOOLEAN
  /\ budget \in [Thread -> 0 .. MaxCalls]
  /\ throws \in 0 .. MaxThrows

(* The objects that the user binds exist from the start.                      *)
Init ==
  /\ status = "alive"
  /\ owner = None
  /\ depth = 0
  /\ calls = [t \in Thread |-> <<>>]
  /\ raised = [t \in Thread |-> FALSE]
  /\ todo = [t \in Thread |-> <<>>]
  /\ object = [n \in Creatable |->
                 IF Kind[n] = "instance" THEN [of |-> n, nth |-> 0] ELSE None]
  /\ vector = [m \in MultiType |-> None]
  /\ onDestruction = <<>>
  /\ allocated = [n \in Creatable |-> 0]
  /\ created = [n \in Creatable |-> 0]
  /\ returned = [n \in Type \cup MultiType |-> {}]
  /\ uses = {}
  /\ destroyed = {}
  /\ eager = FALSE
  /\ budget = [t \in Thread |-> MaxCalls]
  /\ throws = MaxThrows

-----------------------------------------------------------------------------
(* Frames.                                                                   *)
Dependencies(n) ==
  CASE n = AllMultibindings -> MultiType
    [] n \in MultiType -> ToSet(Elements[n])
    [] OTHER -> Needs[n]

NewFrame(n, locks) ==
  [node |-> n, pending |-> Dependencies(n), args |-> {}, running |-> FALSE,
   locks |-> locks]

CallFrame(n) == [node |-> Call, pending |-> {n}, args |-> {},
                 running |-> FALSE, locks |-> 1]

(* Whether getPtrInternal, ensureConstructedMultibinding or                   *)
(* createMultibindingVector finds its work done.                              *)
Done(n) == CASE n \in MultiType -> vector[n] # None
             [] n = AllMultibindings -> FALSE
             [] OTHER -> object[n] # None

(* The arguments of a constructor or a provider are evaluated in any order,    *)
(* and so is the unordered map of the multibinding sets; the elements of a    *)
(* set are created in order.                                                  *)
NextDependencies(f) ==
  IF f.node \in MultiType
    THEN LET es == Elements[f.node]
         IN {es[i] : i \in {j \in DOMAIN es :
               /\ es[j] \in f.pending
               /\ \A k \in 1 .. j - 1 : es[k] \notin f.pending}}
    ELSE f.pending

Inside(t) == status = "alive" /\ calls[t] # <<>> /\ ~raised[t]
TopFrame(t) == Last(calls[t])
SetTop(t, f) == [calls EXCEPT ![t] = Append(Front(@), f)]
Push(t, f) == [calls EXCEPT ![t] = Append(@, f)]

(* Leaving a frame drops the locks that were taken for it.                    *)
PopFrame(t) ==
  /\ calls' = [calls EXCEPT ![t] = Front(@)]
  /\ depth' = depth - TopFrame(t).locks

-----------------------------------------------------------------------------
(* The calls of the users of the injector.  Injector::get, Provider::get and  *)
(* getMultibindings are one get each.                                         *)
StartGet(t) ==
  /\ status = "alive" /\ calls[t] = <<>> /\ todo[t] = <<>> /\ budget[t] > 0
  /\ \E n \in Type \cup MultiType : todo' = [todo EXCEPT ![t] = <<n>>]
  /\ budget' = [budget EXCEPT ![t] = @ - 1]
  /\ UNCHANGED <<status, mutexVars, calls, raised, graphVars, allocatorVars,
                 historyVars, throws>>

(* eagerlyInjectAll gets the exposed types one by one and then all the        *)
(* multibindings; it does not hold the mutex in between.                      *)
StartEagerlyInjectAll(t) ==
  /\ status = "alive" /\ calls[t] = <<>> /\ todo[t] = <<>> /\ budget[t] > 0
  /\ todo' = [todo EXCEPT ![t] = Exposed \o <<AllMultibindings>>]
  /\ budget' = [budget EXCEPT ![t] = @ - 1]
  /\ UNCHANGED <<status, mutexVars, calls, raised, graphVars, allocatorVars,
                 historyVars, throws>>

(* Mutant: the mutex is not waited for.                                       *)
LockWithoutWaiting(t) ==
  /\ status = "alive" /\ calls[t] = <<>> /\ todo[t] # <<>>
  /\ owner' = t /\ depth' = 1
  /\ calls' = Push(t, CallFrame(Head(todo[t])))
  /\ UNCHANGED <<status, raised, todo, graphVars, allocatorVars, historyVars, budget,
                 throws>>

(* std::lock_guard<std::recursive_mutex>.                                     *)
Lock(t) ==
  /\ status = "alive" /\ calls[t] = <<>> /\ todo[t] # <<>>
  /\ owner = None
  /\ owner' = t /\ depth' = 1
  /\ calls' = Push(t, CallFrame(Head(todo[t])))
  /\ UNCHANGED <<status, raised, todo, graphVars, allocatorVars, historyVars, budget,
                 throws>>

(* The object, or the vector, that was asked for is there: return it.         *)
Result(n) == CASE n \in MultiType -> vector[n] [] OTHER -> object[n]

(* Mutant: the mutex stays locked.                                            *)
ReturnLocked(t) ==
  /\ Inside(t)
  /\ TopFrame(t).node = Call /\ TopFrame(t).pending = {}
  /\ calls' = [calls EXCEPT ![t] = <<>>]
  /\ todo' = [todo EXCEPT ![t] = Tail(@)]
  /\ eager' = (eager \/ Head(todo[t]) = AllMultibindings)
  /\ returned' = IF Head(todo[t]) = AllMultibindings THEN returned
                 ELSE [returned EXCEPT ![Head(todo[t])] =
                         @ \cup {Result(Head(todo[t]))}]
  /\ UNCHANGED <<status, mutexVars, raised, graphVars, allocatorVars, created, uses,
                 destroyed, budget, throws>>

Return(t) ==
  /\ Inside(t)
  /\ TopFrame(t).node = Call /\ TopFrame(t).pending = {}
  /\ PopFrame(t)
  /\ owner' = None
  /\ todo' = [todo EXCEPT ![t] = Tail(@)]
  /\ eager' = (eager \/ Head(todo[t]) = AllMultibindings)
  /\ returned' = IF Head(todo[t]) = AllMultibindings THEN returned
                 ELSE [returned EXCEPT ![Head(todo[t])] =
                         @ \cup {Result(Head(todo[t]))}]
  /\ UNCHANGED <<status, raised, graphVars, allocatorVars, created, uses, destroyed,
                 budget, throws>>

-----------------------------------------------------------------------------
(* Injecting the dependencies of the innermost frame.                         *)
UseDependency(t) ==
  /\ Inside(t)
  /\ LET f == TopFrame(t)
     IN \E d \in NextDependencies(f) :
          /\ Done(d)
          /\ calls' = SetTop(t, [f EXCEPT
               !.pending = @ \ {d},
               !.args = IF d \in Creatable THEN @ \cup {object[d]} ELSE @])
  /\ UNCHANGED <<status, mutexVars, raised, todo, graphVars, allocatorVars,
                 historyVars, budget, throws>>

(* A bind, an element of a multibinding set and a Provider call get(), which   *)
(* locks again; for the arguments of a constructor or a provider of a type     *)
(* the code calls getPtr(), which does not.                                    *)
GetsWithLock(f) ==
  f.running \/ f.node \in Element \/ (f.node \in Type /\ Kind[f.node] = "bind")

InjectDependency(t) ==
  /\ Inside(t)
  /\ LET f == TopFrame(t)
         locks == IF GetsWithLock(f) THEN 1 ELSE 0
     IN \E d \in NextDependencies(f) :
          /\ ~Done(d) /\ d # AllMultibindings
          /\ calls' = Push(t, NewFrame(d, locks))
          /\ depth' = depth + locks
  /\ UNCHANGED <<status, owner, raised, todo, graphVars, allocatorVars, historyVars,
                 budget, throws>>

(* Mutant: the multibinding sets are not visited.                             *)
VisitNoMultibindings(t) ==
  /\ Inside(t)
  /\ TopFrame(t).node = Call /\ TopFrame(t).pending = {AllMultibindings}
  /\ calls' = SetTop(t, [TopFrame(t) EXCEPT !.pending = {}])
  /\ UNCHANGED <<status, mutexVars, raised, todo, graphVars, allocatorVars,
                 historyVars, budget, throws>>

(* eagerlyInjectMultibindings visits every set under one lock.                *)
VisitAllMultibindings(t) ==
  /\ Inside(t)
  /\ TopFrame(t).node = Call /\ TopFrame(t).pending = {AllMultibindings}
  /\ calls' = SetTop(t, [TopFrame(t) EXCEPT !.pending = MultiType])
  /\ UNCHANGED <<status, mutexVars, raised, todo, graphVars, allocatorVars,
                 historyVars, budget, throws>>

RunsUserCode(n) ==
  n \in Creatable /\ Kind[n] \in {"constructor", "value_provider",
                                  "pointer_provider"}

(* Mutant: the destructor is registered before the constructor has run.       *)
StartConstructorRegistered(t) ==
  /\ Inside(t)
  /\ LET f == TopFrame(t)
     IN /\ RunsUserCode(f.node) /\ f.pending = {} /\ ~f.running
        /\ calls' = SetTop(t, [f EXCEPT !.running = TRUE])
        /\ allocated' = IF Kind[f.node] = "constructor"
                          THEN [allocated EXCEPT ![f.node] = @ + 1]
                          ELSE allocated
        /\ onDestruction' =
             IF Kind[f.node] = "constructor"
               THEN Append(onDestruction,
                           [of |-> f.node, nth |-> created[f.node] + 1])
               ELSE onDestruction
  /\ UNCHANGED <<status, mutexVars, raised, todo, graphVars, historyVars, budget,
                 throws>>

(* constructObject takes the space first and then runs the constructor; what  *)
(* a provider returns by value is moved into the space afterwards.            *)
StartConstructor(t) ==
  /\ Inside(t)
  /\ LET f == TopFrame(t)
     IN /\ RunsUserCode(f.node) /\ f.pending = {} /\ ~f.running
        /\ calls' = SetTop(t, [f EXCEPT !.running = TRUE])
        /\ allocated' = IF Kind[f.node] = "constructor"
                          THEN [allocated EXCEPT ![f.node] = @ + 1]
                          ELSE allocated
  /\ UNCHANGED <<status, mutexVars, raised, todo, graphVars, onDestruction,
                 historyVars, budget, throws>>

(* User code calls get() on a Provider that it was given.                     *)
CallProvider(t) ==
  /\ Inside(t) /\ TopFrame(t).running /\ TopFrame(t).pending = {}
  /\ \E d \in Lazy[TopFrame(t).node] :
       /\ object[d] \notin TopFrame(t).args
       /\ calls' = SetTop(t, [TopFrame(t) EXCEPT !.pending = {d}])
  /\ UNCHANGED <<status, mutexVars, raised, todo, graphVars, allocatorVars,
                 historyVars, budget, throws>>

(* The object is complete: it is registered for destruction, the node becomes *)
(* terminal and the frame returns.                                            *)
FinishConstructor(t) ==
  /\ Inside(t)
  /\ LET f == TopFrame(t)
         n == f.node
         obj == [of |-> n, nth |-> created[n] + 1]
     IN /\ f.running /\ f.pending = {}
        /\ created' = [created EXCEPT ![n] = @ + 1]
        /\ object' = [object EXCEPT ![n] = obj]
        /\ uses' = uses \cup ({obj} \X f.args)
        /\ onDestruction' = Append(onDestruction, obj)
        /\ allocated' = IF Kind[n] = "value_provider"
                          THEN [allocated EXCEPT ![n] = @ + 1] ELSE allocated
  /\ PopFrame(t)
  /\ UNCHANGED <<status, owner, raised, todo, vector, returned, destroyed,
                 eager, budget, throws>>

(* A provider that returns nullptr ends the program.                          *)
ProviderReturnsNull(t) ==
  /\ Inside(t)
  /\ TopFrame(t).running /\ TopFrame(t).pending = {}
  /\ Kind[TopFrame(t).node] = "pointer_provider"
  /\ status' = "fatal"
  /\ UNCHANGED <<mutexVars, callVars, graphVars, allocatorVars, historyVars,
                 budget, throws>>

(* createInjectedObjectForBind, createInjectedObjectForMultibinding: the      *)
(* object is that of the dependency.                                          *)
FinishBind(t) ==
  /\ Inside(t)
  /\ LET f == TopFrame(t)
     IN /\ f.node \in Creatable /\ Kind[f.node] = "bind" /\ f.pending = {}
        /\ \E obj \in f.args : object' = [object EXCEPT ![f.node] = obj]
  /\ PopFrame(t)
  /\ UNCHANGED <<status, owner, raised, todo, vector, allocatorVars,
                 historyVars, budget, throws>>

(* Mutant: the vector is made of the elements constructed so far.             *)
FinishVectorEarly(t) ==
  /\ Inside(t)
  /\ LET f == TopFrame(t)
         built(e) == object[e] # None
     IN /\ f.node \in MultiType
        /\ vector' = [vector EXCEPT ![f.node] =
             LET es == SelectSeq(Elements[f.node], built)
             IN [i \in DOMAIN es |-> object[es[i]]]]
  /\ PopFrame(t)
  /\ UNCHANGED <<status, owner, raised, todo, object, allocatorVars,
                 historyVars, budget, throws>>

FinishVector(t) ==
  /\ Inside(t)
  /\ LET f == TopFrame(t)
     IN /\ f.node \in MultiType /\ f.pending = {}
        /\ vector' = [vector EXCEPT ![f.node] =
             [i \in DOMAIN Elements[f.node] |-> object[Elements[f.node][i]]]]
  /\ PopFrame(t)
  /\ UNCHANGED <<status, owner, raised, todo, object, allocatorVars,
                 historyVars, budget, throws>>

-----------------------------------------------------------------------------
(* User code throws.  The space that constructObject has taken is not given   *)
(* back; a move constructor that throws has taken it as well.                 *)
Throw(t) ==
  /\ Inside(t) /\ throws > 0
  /\ TopFrame(t).running /\ TopFrame(t).pending = {}
  /\ throws' = throws - 1
  /\ raised' = [raised EXCEPT ![t] = TRUE]
  /\ \/ UNCHANGED allocated
     \/ /\ Kind[TopFrame(t).node] = "value_provider"
        /\ allocated' = [allocated EXCEPT ![TopFrame(t).node] = @ + 1]
  /\ PopFrame(t)
  /\ UNCHANGED <<status, owner, todo, graphVars, onDestruction, historyVars,
                 budget>>

(* The exception leaves a frame, unless user code that is running catches it; *)
(* it leaves the call as well.                                                *)
Propagate(t) ==
  /\ status = "alive" /\ raised[t] /\ TopFrame(t).node # Call
  /\ PopFrame(t)
  /\ UNCHANGED <<status, owner, raised, todo, graphVars, allocatorVars,
                 historyVars, budget, throws>>

Catch(t) ==
  /\ status = "alive" /\ raised[t] /\ TopFrame(t).running
  /\ raised' = [raised EXCEPT ![t] = FALSE]
  /\ calls' = SetTop(t, [TopFrame(t) EXCEPT !.pending = {}])
  /\ UNCHANGED <<status, mutexVars, todo, graphVars, allocatorVars,
                 historyVars, budget, throws>>

(* Mutant: the mutex is not unlocked by the exception.                        *)
LeaveWithExceptionLocked(t) ==
  /\ status = "alive" /\ raised[t] /\ TopFrame(t).node = Call
  /\ calls' = [calls EXCEPT ![t] = Front(@)]
  /\ raised' = [raised EXCEPT ![t] = FALSE]
  /\ todo' = [todo EXCEPT ![t] = <<>>]
  /\ UNCHANGED <<status, mutexVars, graphVars, allocatorVars, historyVars,
                 budget, throws>>

LeaveWithException(t) ==
  /\ status = "alive" /\ raised[t] /\ TopFrame(t).node = Call
  /\ PopFrame(t)
  /\ owner' = None
  /\ raised' = [raised EXCEPT ![t] = FALSE]
  /\ todo' = [todo EXCEPT ![t] = <<>>]
  /\ UNCHANGED <<status, graphVars, allocatorVars, historyVars, budget, throws>>

-----------------------------------------------------------------------------
(* The owner of the injector destroys it when no call is under way.           *)
StartDestruction ==
  /\ status = "alive"
  /\ \A t \in Thread : calls[t] = <<>> /\ todo[t] = <<>>
  /\ status' = "destroying"
  /\ UNCHANGED <<mutexVars, callVars, graphVars, allocatorVars, historyVars,
                 budget, throws>>

(* Mutant: the objects are destroyed in the order of their construction.      *)
DestroyFirstObject ==
  /\ status = "destroying" /\ onDestruction # <<>>
  /\ destroyed' = destroyed \cup {Head(onDestruction)}
  /\ onDestruction' = Tail(onDestruction)
  /\ UNCHANGED <<status, mutexVars, callVars, graphVars, allocated, created,
                 returned, uses, eager, budget, throws>>

(* ~FixedSizeAllocator runs the destructors in reverse order.                 *)
DestroyObject ==
  /\ status = "destroying" /\ onDestruction # <<>>
  /\ destroyed' = destroyed \cup {Last(onDestruction)}
  /\ onDestruction' = Front(onDestruction)
  /\ UNCHANGED <<status, mutexVars, callVars, graphVars, allocated, created,
                 returned, uses, eager, budget, throws>>

FinishDestruction ==
  /\ status = "destroying" /\ onDestruction = <<>>
  /\ status' = "destroyed"
  /\ UNCHANGED <<mutexVars, callVars, graphVars, allocatorVars, historyVars,
                 budget, throws>>

Terminated == status \in {"destroyed", "fatal"} /\ UNCHANGED vars

(* What a thread does once it has entered the injector, or waits for it.      *)
Step(t) ==
  \/ Lock(t) \/ Return(t)
  \/ UseDependency(t) \/ InjectDependency(t) \/ VisitAllMultibindings(t)
  \/ StartConstructor(t) \/ CallProvider(t) \/ FinishConstructor(t)
  \/ ProviderReturnsNull(t) \/ FinishBind(t) \/ FinishVector(t)
  \/ Throw(t) \/ Propagate(t) \/ Catch(t) \/ LeaveWithException(t)

Next ==
  \/ \E t \in Thread : StartGet(t) \/ StartEagerlyInjectAll(t) \/ Step(t)
  \/ StartDestruction \/ DestroyObject \/ FinishDestruction
  \/ Terminated

Spec == Init /\ [][Next]_vars

(* The scheduler runs every thread that can take a step.                      *)
FairSpec == Spec /\ \A t \in Thread : WF_vars(Step(t))
-----------------------------------------------------------------------------
(* No type and no element of a multibinding set is constructed twice, and all *)
(* the calls for a target return the same object or vector, whatever the      *)
(* threads, the Providers and the exceptions do.                              *)
OneInstancePerType ==
  /\ \A n \in Creatable : created[n] <= 1
  /\ \A n \in Type \cup MultiType : Cardinality(returned[n]) <= 1

(* Only the thread that holds the mutex is inside the injector, and the mutex *)
(* has been locked as often as its frames will unlock it: also when calls     *)
(* nest, and when an exception leaves them.                                   *)
LocksMatchFrames ==
  /\ \A t \in Thread : calls[t] # <<>> =>
       /\ owner = t
       /\ depth = Cardinality({i \in DOMAIN calls[t] : calls[t][i].locks = 1})
  /\ owner = None <=> \A t \in Thread : calls[t] = <<>>
  /\ owner = None => depth = 0

(* An object is destroyed only after every object that it was passed to, or    *)
(* that got it from a Provider while it was constructed.                      *)
DestroyedAfterDependents ==
  \A pair \in uses : pair[2] \in destroyed => pair[1] \in destroyed

(* The objects registered for destruction are those that were constructed,    *)
(* each of them once, until it is destroyed; one whose constructor has thrown *)
(* is not among them.                                                         *)
Constructed == {[of |-> n, nth |-> 1] : n \in {m \in Creatable : created[m] > 0}}
OwnedExactlyOnce ==
  /\ IsInjective(onDestruction)
  /\ ToSet(onDestruction) \cap destroyed = {}
  /\ ToSet(onDestruction) \cup destroyed = Constructed

(* The allocator has room for one object of each type: a type takes that room  *)
(* once, whatever the threads do, unless an exception has made it in vain.    *)
SpaceTakenOnce ==
  \A n \in Creatable : allocated[n] <= 1 + (MaxThrows - throws)

(* A vector of multibindings has an object for every element, in order.       *)
VectorsAreComplete ==
  \A m \in MultiType : vector[m] # None =>
    /\ Len(vector[m]) = Len(Elements[m])
    /\ \A i \in DOMAIN Elements[m] :
         vector[m][i] # None /\ vector[m][i] = object[Elements[m][i]]

(* When eagerlyInjectAll has returned, every exposed type, every multibinding *)
(* and all that they need have been created.                                  *)
EagerInjectsEverything ==
  eager =>
    /\ \A n \in ToSet(Exposed) : object[n] # None
    /\ \A m \in MultiType : vector[m] # None
    /\ \A n \in Creatable : object[n] # None =>
         \A d \in Needs[n] : object[d] # None

(* A call that has been made returns, throws or ends the program: threads     *)
(* waiting for the mutex get it.                                              *)
CallsReturn ==
  \A t \in Thread : todo[t] # <<>> ~> (todo[t] = <<>> \/ status = "fatal")

(* The storage implements the abstract injector.                              *)
Abstract == INSTANCE LazyInjector WITH
  instance <- object,
  delivered <- [n \in Creatable |-> IF n \in Type THEN returned[n] ELSE {}],
  gone <- destroyed
ImplementsLazyInjector == Abstract!Spec
=============================================================================
