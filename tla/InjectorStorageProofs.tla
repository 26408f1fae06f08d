------------------------- MODULE InjectorStorageProofs -------------------------
(***************************************************************************)
(* Proofs about InjectorStorage, for every set of threads, every graph of   *)
(* types and every number of calls and exceptions: the safety invariants    *)
(* of the injector, and that it implements LazyInjector.                    *)
(***************************************************************************)
EXTENDS InjectorStorage, SequenceTheorems, FiniteSetTheorems, TLAPS

(* The objects that a frame may hold: those of the user, and those that were  *)
(* registered for destruction.                                                *)
Registered == ToSet(onDestruction) \cup destroyed
Known == {[of |-> n, nth |-> 0] : n \in Creatable} \cup Registered

Built(n, obj, vec) == IF n \in MultiType THEN vec[n] # None ELSE obj[n] # None

(* The frame of a call that asks for h: what is no longer pending is done.    *)
CallFrameOK(f, h, obj, vec) ==
  /\ f.node = Call /\ f.locks = 1 /\ ~f.running
  /\ h \in Target
  /\ h # AllMultibindings =>
       f.pending \subseteq {h} /\ (f.pending = {} => Built(h, obj, vec))
  /\ h = AllMultibindings =>
       \/ f.pending = {AllMultibindings}
       \/ /\ f.pending \subseteq MultiType
          /\ \A m \in MultiType \ f.pending : vec[m] # None

(* The frame of a vector under construction: the elements of the set that are *)
(* no longer pending have been created.                                       *)
VectorFrameOK(f, obj) ==
  /\ ~f.running
  /\ f.pending \subseteq ToSet(Elements[f.node])
  /\ \A e \in ToSet(Elements[f.node]) \ f.pending : obj[e] # None

(* The frame of an object under construction: first its dependencies are       *)
(* gathered, then user code runs with all of them and may call Providers.     *)
ObjectFrameOK(f, obj, known) ==
  /\ f.args \subseteq known
  /\ ~f.running =>
       /\ f.pending \subseteq Needs[f.node]
       /\ \A d \in Needs[f.node] \ f.pending : obj[d] \in f.args
       /\ \A a \in f.args : \E d \in Needs[f.node] : a = obj[d]
  /\ f.running =>
       /\ RunsUserCode(f.node)
       /\ f.pending \subseteq Lazy[f.node]
       /\ \A d \in Needs[f.node] : obj[d] \in f.args

FrameOK(f, obj, vec, known) ==
  /\ f.node \in Creatable \cup MultiType
  /\ ~Built(f.node, obj, vec)
  /\ f.node \in MultiType => VectorFrameOK(f, obj)
  /\ f.node \in Creatable => ObjectFrameOK(f, obj, known)

(* A frame was pushed for a dependency that the frame below still waits for.  *)
StackOK(s, h, obj, vec, known) ==
  /\ s # <<>> => CallFrameOK(s[1], h, obj, vec)
  /\ \A i \in DOMAIN s \ {1} :
       FrameOK(s[i], obj, vec, known) /\ s[i].node \in s[i - 1].pending

StacksOK ==
  \A t \in Thread :
    /\ StackOK(calls[t], Head(todo[t]), object, vector, Known)
    /\ calls[t] # <<>> => todo[t] # <<>>
    /\ raised[t] => calls[t] # <<>>

(* What a thread has still to get: eagerlyInjectAll has got the exposed types  *)
(* that are no longer listed, and gets the multibindings last.                *)
TodoListOK(s, obj) ==
  /\ \A i \in DOMAIN s : s[i] = AllMultibindings => i = Len(s)
  /\ AllMultibindings \in ToSet(s) =>
       \A n \in ToSet(Exposed) : n \in ToSet(s) \/ obj[n] # None

TodoOK == \A t \in Thread : TodoListOK(todo[t], object)

(* An object exists only with those that it needs, and was made from them.    *)
ObjectsOK ==
  \A n \in Creatable : object[n] # None =>
    /\ object[n] \in Known
    /\ \A d \in Needs[n] :
         /\ object[d] # None
         /\ Kind[n] # "bind" => <<object[n], object[d]>> \in uses

CreatedOK ==
  \A n \in Creatable :
    /\ created[n] <= 1
    /\ created[n] > 0 => RunsUserCode(n) /\ object[n] = [of |-> n, nth |-> 1]

ReturnedOK ==
  /\ \A n \in Type : returned[n] \subseteq {object[n]} \ {None}
  /\ \A m \in MultiType : returned[m] \subseteq {vector[m]} \ {None}

(* An object is registered after those that it was made from.                 *)
UsesOK ==
  \A pair \in uses :
    /\ pair[1] \in Registered /\ pair[2] \in Known
    /\ \A i, j \in DOMAIN onDestruction :
         onDestruction[i] = pair[1] /\ onDestruction[j] = pair[2] => j < i
    /\ pair[2] \in destroyed => pair[1] \in destroyed

EagerOK ==
  eager =>
    /\ \A n \in ToSet(Exposed) : object[n] # None
    /\ \A m \in MultiType : vector[m] # None

AliveOK == status = "alive" => destroyed = {}

DataOK ==
  /\ ObjectsOK /\ CreatedOK /\ ReturnedOK /\ UsesOK /\ EagerOK /\ AliveOK
  /\ OwnedExactlyOnce /\ VectorsAreComplete

(* The inductive invariant.                                                   *)
IInv == TypeOK /\ LocksMatchFrames /\ StacksOK /\ TodoOK /\ DataOK

-----------------------------------------------------------------------------
(* Sequences without their last element, and with another last element.       *)
LEMMA LastProperties ==
  ASSUME NEW S, NEW s \in Seq(S), s # <<>>
  PROVE  /\ Len(s) \in Nat \ {0} /\ DOMAIN s = 1 .. Len(s)
         /\ Last(s) = s[Len(s)] /\ Last(s) \in S
<1>1. Len(s) \in Nat \ {0} /\ DOMAIN s = 1 .. Len(s)
  BY EmptySeq, LenProperties
<1> QED BY <1>1, ElementOfSeq DEF Last

(* Front drops the last element and keeps the others in place.                *)
LEMMA FrontProperties ==
  ASSUME NEW S, NEW s \in Seq(S), s # <<>>
  PROVE  /\ Front(s) \in Seq(S) /\ Len(Front(s)) = Len(s) - 1
         /\ DOMAIN Front(s) = 1 .. Len(s) - 1
         /\ \A i \in 1 .. Len(s) - 1 : Front(s)[i] = s[i]
<1> DEFINE m == Len(s) - 1
<1>1. Len(s) \in Nat \ {0} /\ m \in Nat /\ DOMAIN s = 1 .. Len(s)
  BY LastProperties
<1>2. \A i \in 1 .. m : s[i] \in S
  BY <1>1, ElementOfSeq
<1>3. /\ SubSeq(s, 1, m) \in Seq(S)
      /\ Len(SubSeq(s, 1, m)) = IF 1 <= m THEN m - 1 + 1 ELSE 0
      /\ \A i \in 1 .. m - 1 + 1 : SubSeq(s, 1, m)[i] = s[1 + i - 1]
  BY <1>1, <1>2, SubSeqProperties
<1>4. \A i \in 1 .. m : i \in 1 .. m - 1 + 1 /\ 1 + i - 1 = i
  BY <1>1
<1>5. Len(Front(s)) = m
  BY <1>1, <1>3 DEF Front
<1> QED BY <1>3, <1>4, <1>5, LenProperties DEF Front

(* Append adds an element at the end and keeps the others in place.           *)
LEMMA AppendedProperties ==
  ASSUME NEW S, NEW s \in Seq(S), NEW x \in S
  PROVE  /\ Append(s, x) \in Seq(S) /\ Len(Append(s, x)) = Len(s) + 1
         /\ DOMAIN Append(s, x) = 1 .. Len(s) + 1 /\ Append(s, x) # <<>>
         /\ \A i \in 1 .. Len(s) : Append(s, x)[i] = s[i]
         /\ Append(s, x)[Len(s) + 1] = x
<1>1. Len(s) \in Nat
  BY LenProperties
<1>2. /\ Append(s, x) \in Seq(S) /\ Len(Append(s, x)) = Len(s) + 1
      /\ \A i \in 1 .. Len(s) : Append(s, x)[i] = s[i]
      /\ Append(s, x)[Len(s) + 1] = x
  BY AppendProperties
<1>3. DOMAIN Append(s, x) = 1 .. Len(s) + 1
  BY <1>2, LenProperties
<1>4. Append(s, x) # <<>>
  BY <1>1, <1>2, EmptySeq
<1> QED BY <1>2, <1>3, <1>4

(* SetTop replaces the last element and keeps the others in place.            *)
LEMMA ReplacedProperties ==
  ASSUME NEW S, NEW s \in Seq(S), s # <<>>, NEW x \in S
  PROVE  /\ Append(Front(s), x) \in Seq(S) /\ Len(Append(Front(s), x)) = Len(s)
         /\ DOMAIN Append(Front(s), x) = 1 .. Len(s)
         /\ Append(Front(s), x) # <<>>
         /\ \A i \in 1 .. Len(s) - 1 : Append(Front(s), x)[i] = s[i]
         /\ Append(Front(s), x)[Len(s)] = x
<1> DEFINE p == Front(s)
<1>1. Len(s) \in Nat \ {0}
  BY LastProperties
<1>2. /\ p \in Seq(S) /\ Len(p) = Len(s) - 1
      /\ \A i \in 1 .. Len(s) - 1 : p[i] = s[i]
  BY FrontProperties
<1> HIDE DEF p
<1>3. Len(p) + 1 = Len(s)
  BY <1>1, <1>2
<1> QED BY <1>2, <1>3, AppendedProperties DEF p

-----------------------------------------------------------------------------
(* The frames of a stack that hold a lock of the mutex.                       *)
Locking(s) == {i \in DOMAIN s : s[i].locks = 1}

(* There are finitely many of them.                                           *)
LEMMA LockingIsFinite ==
  ASSUME NEW s \in Seq(Frame)
  PROVE  IsFiniteSet(Locking(s)) /\ Cardinality(Locking(s)) \in Nat
<1>1. Len(s) \in Nat /\ DOMAIN s = 1 .. Len(s)
  BY LenProperties
<1>2. IsFiniteSet(1 .. Len(s))
  BY <1>1, FS_Interval
<1>3. Locking(s) \subseteq 1 .. Len(s)
  BY <1>1 DEF Locking
<1> QED BY <1>2, <1>3, FS_Subset, FS_CardinalityType

(* Pushing a frame adds its lock.                                             *)
LEMMA LockingPushed ==
  ASSUME NEW s \in Seq(Frame), NEW f \in Frame
  PROVE  Cardinality(Locking(Append(s, f))) = Cardinality(Locking(s)) + f.locks
<1> DEFINE n == Len(s) + 1
           p == Append(s, f)
<1>1. /\ Len(s) \in Nat /\ DOMAIN s = 1 .. Len(s)
      /\ DOMAIN p = 1 .. n
      /\ \A i \in 1 .. Len(s) : p[i] = s[i]
      /\ p[n] = f
  BY LenProperties, AppendedProperties
<1> HIDE DEF p
<1>2. n \notin Locking(s)
  BY <1>1 DEF Locking
<1>3. f.locks \in {0, 1}
  BY DEF Frame
<1>4. CASE f.locks = 1
  <2>1. Locking(p) = Locking(s) \cup {n}
    BY <1>1, <1>4 DEF Locking
  <2> QED BY <2>1, <1>2, <1>4, LockingIsFinite, FS_AddElement DEF p
<1>5. CASE f.locks = 0
  <2>1. Locking(p) = Locking(s)
    BY <1>1, <1>5 DEF Locking
  <2> QED BY <2>1, <1>5, LockingIsFinite DEF p
<1> QED BY <1>3, <1>4, <1>5

(* Popping a frame drops its lock.                                            *)
LEMMA LockingPopped ==
  ASSUME NEW s \in Seq(Frame), s # <<>>
  PROVE  Cardinality(Locking(Front(s))) = Cardinality(Locking(s)) - Last(s).locks
<1> DEFINE n == Len(s)
           p == Front(s)
<1>1. /\ n \in Nat \ {0} /\ DOMAIN s = 1 .. n
      /\ Last(s) = s[n] /\ Last(s) \in Frame
      /\ DOMAIN p = 1 .. n - 1
      /\ \A i \in 1 .. n - 1 : p[i] = s[i]
  BY LastProperties, FrontProperties
<1> HIDE DEF p
<1>3. Last(s).locks \in {0, 1}
  BY <1>1 DEF Frame
<1>4. CASE Last(s).locks = 1
  <2>1. Locking(p) = Locking(s) \ {n} /\ n \in Locking(s)
    BY <1>1, <1>4 DEF Locking
  <2> QED BY <2>1, <1>4, LockingIsFinite, FS_RemoveElement DEF p
<1>5. CASE Last(s).locks = 0
  <2>1. Locking(p) = Locking(s)
    BY <1>1, <1>5 DEF Locking
  <2> QED BY <2>1, <1>5, LockingIsFinite DEF p
<1> QED BY <1>3, <1>4, <1>5

(* Changing the innermost frame, but not its lock, changes no lock.           *)
LEMMA LockingReplaced ==
  ASSUME NEW s \in Seq(Frame), s # <<>>, NEW f \in Frame, f.locks = Last(s).locks
  PROVE  Locking(Append(Front(s), f)) = Locking(s)
<1> DEFINE n == Len(s)
           p == Append(Front(s), f)
<1>1. /\ n \in Nat \ {0} /\ DOMAIN s = 1 .. n /\ Last(s) = s[n]
      /\ DOMAIN p = 1 .. n
      /\ \A i \in 1 .. n - 1 : p[i] = s[i]
      /\ p[n] = f
  BY LastProperties, ReplacedProperties
<1> HIDE DEF p
<1>2. \A i \in 1 .. n : p[i].locks = s[i].locks
  BY <1>1
<1>3. Locking(p) = Locking(s)
  BY <1>1, <1>2 DEF Locking
<1> QED BY <1>3 DEF p

-----------------------------------------------------------------------------
(* Stacks.  A frame pushed for a pending dependency fits on the stack.        *)
LEMMA StackPushed ==
  ASSUME NEW s \in Seq(Frame), s # <<>>, NEW f \in Frame,
         NEW h, NEW obj, NEW vec, NEW known,
         StackOK(s, h, obj, vec, known), FrameOK(f, obj, vec, known),
         f.node \in Last(s).pending
  PROVE  StackOK(Append(s, f), h, obj, vec, known)
<1> DEFINE n == Len(s)
           p == Append(s, f)
<1>1. /\ n \in Nat \ {0} /\ DOMAIN s = 1 .. n /\ Last(s) = s[n]
      /\ DOMAIN p = 1 .. n + 1
      /\ \A i \in 1 .. n : p[i] = s[i]
      /\ p[n + 1] = f
  BY LastProperties, AppendedProperties
<1> HIDE DEF p
<1>2. p[1] = s[1]
  BY <1>1
<1>3. ASSUME NEW i \in DOMAIN p \ {1}
      PROVE  FrameOK(p[i], obj, vec, known) /\ p[i].node \in p[i - 1].pending
  <2>1. CASE i = n + 1
    BY <1>1, <2>1
  <2>2. CASE i # n + 1
    <3>1. i \in DOMAIN s \ {1} /\ i - 1 \in 1 .. n /\ p[i] = s[i] /\ p[i - 1] = s[i - 1]
      BY <1>1, <2>2
    <3> QED BY <3>1 DEF StackOK
  <2> QED BY <2>1, <2>2
<1> QED BY <1>2, <1>3 DEF StackOK, p

(* What is left of a stack is a stack.                                        *)
LEMMA StackPopped ==
  ASSUME NEW s \in Seq(Frame), s # <<>>, NEW h, NEW obj, NEW vec, NEW known,
         StackOK(s, h, obj, vec, known)
  PROVE  StackOK(Front(s), h, obj, vec, known)
<1> DEFINE n == Len(s)
           p == Front(s)
<1>1. /\ n \in Nat \ {0} /\ DOMAIN s = 1 .. n
      /\ p \in Seq(Frame) /\ Len(p) = n - 1 /\ DOMAIN p = 1 .. n - 1
      /\ \A i \in 1 .. n - 1 : p[i] = s[i]
  BY LastProperties, FrontProperties
<1> HIDE DEF p
<1>2. p # <<>> => p[1] = s[1]
  BY <1>1, LastProperties
<1>3. ASSUME NEW i \in DOMAIN p \ {1}
      PROVE  FrameOK(p[i], obj, vec, known) /\ p[i].node \in p[i - 1].pending
  <2>1. i \in DOMAIN s \ {1} /\ p[i] = s[i] /\ p[i - 1] = s[i - 1]
    BY <1>1
  <2> QED BY <2>1 DEF StackOK
<1> QED BY <1>2, <1>3 DEF StackOK, p

(* The innermost frame may change as long as it stays a frame of its node.    *)
LEMMA StackReplaced ==
  ASSUME NEW s \in Seq(Frame), s # <<>>, NEW f \in Frame,
         NEW h, NEW obj, NEW vec, NEW known,
         StackOK(s, h, obj, vec, known), f.node = Last(s).node,
         Len(s) = 1 => CallFrameOK(f, h, obj, vec),
         Len(s) # 1 => FrameOK(f, obj, vec, known)
  PROVE  StackOK(Append(Front(s), f), h, obj, vec, known)
<1> DEFINE n == Len(s)
           p == Append(Front(s), f)
<1>1. /\ n \in Nat \ {0} /\ DOMAIN s = 1 .. n /\ Last(s) = s[n]
      /\ DOMAIN p = 1 .. n
      /\ \A i \in 1 .. n - 1 : p[i] = s[i]
      /\ p[n] = f
  BY LastProperties, ReplacedProperties
<1> HIDE DEF p
<1>2. CallFrameOK(p[1], h, obj, vec)
  BY <1>1 DEF StackOK
<1>3. ASSUME NEW i \in DOMAIN p \ {1}
      PROVE  FrameOK(p[i], obj, vec, known) /\ p[i].node \in p[i - 1].pending
  <2>1. i \in DOMAIN s \ {1} /\ p[i - 1] = s[i - 1] /\ n # 1
    BY <1>1
  <2>2. p[i].node = s[i].node /\ (p[i] = s[i] \/ p[i] = f)
    BY <1>1
  <2> QED BY <2>1, <2>2 DEF StackOK
<1> QED BY <1>2, <1>3 DEF StackOK, p

(* The node of the innermost frame tells whether it is the frame of a call.   *)
LEMMA TopOfStack ==
  ASSUME NEW s \in Seq(Frame), s # <<>>, NEW h, NEW obj, NEW vec, NEW known,
         StackOK(s, h, obj, vec, known)
  PROVE  /\ Len(s) \in Nat \ {0} /\ Last(s) \in Frame
         /\ Last(s).node = Call <=> Len(s) = 1
         /\ Last(s).node = Call => CallFrameOK(Last(s), h, obj, vec)
         /\ Last(s).node # Call => FrameOK(Last(s), obj, vec, known)
         /\ Last(s).running => Last(s).node # Call /\ Last(s).node \in Creatable
<1>1. /\ Len(s) \in Nat \ {0} /\ DOMAIN s = 1 .. Len(s) /\ Last(s) = s[Len(s)]
      /\ Last(s) \in Frame
  BY LastProperties
<1>2. CASE Len(s) = 1
  BY <1>1, <1>2 DEF StackOK, CallFrameOK
<1>3. CASE Len(s) > 1
  <2>1. FrameOK(Last(s), obj, vec, known)
    BY <1>1, <1>3 DEF StackOK
  <2>2. Last(s).node # Call
    BY <2>1, NamesAssumption DEF FrameOK
  <2>3. Last(s).running => Last(s).node \in Creatable
    BY <2>1 DEF FrameOK, VectorFrameOK
  <2> QED BY <1>1, <1>3, <2>1, <2>2, <2>3
<1> QED BY <1>1, <1>2, <1>3

(* A vector is made for a call only and an element for a vector only; the      *)
(* objects above are those of types, each a dependency of the one below.      *)
LEMMA StackShape ==
  ASSUME NEW s \in Seq(Frame), NEW h, NEW obj, NEW vec, NEW known,
         StackOK(s, h, obj, vec, known), NEW i \in DOMAIN s, i > 1
  PROVE  /\ i \in Nat /\ i - 1 \in DOMAIN s
         /\ s[i].node \in MultiType => i = 2
         /\ s[i].node \in Element => i = 3
         /\ s[i].node \in MultiType \cup Creatable
         /\ s[i - 1].node \in Creatable =>
              s[i].node \in Needs[s[i - 1].node] \cup Lazy[s[i - 1].node]
         /\ s[i].node \in Type \/ i <= 3
<1>0. Len(s) \in Nat /\ DOMAIN s = 1 .. Len(s)
  BY LenProperties
<1>1. /\ i \in Nat /\ i - 1 \in DOMAIN s /\ i \in DOMAIN s \ {1}
      /\ FrameOK(s[i], obj, vec, known) /\ s[i].node \in s[i - 1].pending
  BY <1>0 DEF StackOK
<1>2. ASSUME NEW j \in DOMAIN s, j > 1
      PROVE  /\ FrameOK(s[j], obj, vec, known)
             /\ s[j].node \in Creatable =>
                  s[j].pending \subseteq Needs[s[j].node] \cup Lazy[s[j].node]
             /\ s[j].node \in Creatable => s[j].pending \subseteq Type
             /\ s[j].node \in MultiType => s[j].pending \subseteq Element
  <2>1. FrameOK(s[j], obj, vec, known)
    BY <1>0, <1>2 DEF StackOK
  <2>2. s[j].node \in Creatable =>
          s[j].pending \subseteq Needs[s[j].node] \cup Lazy[s[j].node]
    BY <2>1 DEF FrameOK, ObjectFrameOK
  <2>3. s[j].node \in Creatable =>
          Needs[s[j].node] \subseteq Type /\ Lazy[s[j].node] \subseteq Type
    BY GraphAssumption
  <2>4. ASSUME NEW m \in MultiType
        PROVE  ToSet(Elements[m]) \subseteq Element
    BY GraphAssumption, ElementOfSeq, LenProperties DEF ToSet
  <2>5. s[j].node \in MultiType => s[j].pending \subseteq Element
    BY <2>1, <2>4 DEF FrameOK, VectorFrameOK
  <2> QED BY <2>1, <2>2, <2>3, <2>5
<1>3. s # <<>> /\ CallFrameOK(s[1], h, obj, vec)
  BY <1>0 DEF StackOK
<1>4. s[1].pending \subseteq Type \cup MultiType \cup {AllMultibindings}
  BY <1>3 DEF CallFrameOK, Target
<1>5. s[i].node \in MultiType \cup Creatable
  BY <1>1 DEF FrameOK
<1>6. ASSUME s[i].node \in MultiType PROVE i = 2
  <2>1. SUFFICES ASSUME i - 1 > 1 PROVE FALSE
    BY <1>0, <1>1
  <2>2. s[i - 1].node \in Creatable \cup MultiType
    BY <1>1, <1>2, <2>1 DEF FrameOK
  <2> QED BY <1>1, <1>2, <1>6, <2>1, <2>2, NamesAssumption DEF Creatable
<1>7. ASSUME s[i].node \in Element PROVE i = 3
  <2>1. i - 1 > 1
    <3>1. s[i].node \notin s[1].pending
      BY <1>4, <1>7, NamesAssumption DEF Creatable
    <3> QED BY <3>1, <1>0, <1>1
  <2>2. s[i - 1].node \in MultiType
    BY <1>1, <1>2, <1>7, <2>1, NamesAssumption DEF FrameOK
  <2>3. i - 2 \in DOMAIN s
    BY <1>0, <2>1
  <2>4. ~(i - 2 > 1)
    <3>1. SUFFICES ASSUME i - 2 > 1 PROVE FALSE
      OBVIOUS
    <3>2. s[i - 2].node \in Creatable \cup MultiType
      BY <2>3, <1>2, <3>1 DEF FrameOK
    <3>3. i - 1 \in DOMAIN s \ {1} /\ (i - 1) - 1 = i - 2
      BY <1>0, <1>1, <2>1
    <3>4. s[i - 1].node \in s[i - 2].pending
      BY <3>3 DEF StackOK
    <3> QED BY <2>2, <2>3, <1>2, <3>1, <3>2, <3>4, NamesAssumption DEF Creatable
  <2> QED BY <2>1, <2>4, <1>1
<1>8. ASSUME s[i - 1].node \in Creatable
      PROVE  s[i].node \in Needs[s[i - 1].node] \cup Lazy[s[i - 1].node]
  <2>1. i - 1 > 1
    BY <1>0, <1>1, <1>3, <1>8, NamesAssumption DEF CallFrameOK
  <2> QED BY <2>1, <1>1, <1>2, <1>8
<1>9. s[i].node \in Type \/ i <= 3
  BY <1>5, <1>6, <1>7, <1>1 DEF Creatable
<1> QED BY <1>1, <1>5, <1>6, <1>7, <1>8, <1>9

(* No node is under construction twice: a type above itself would depend on    *)
(* itself, which GraphAssumption excludes.                                    *)
LEMMA NodesAreDistinct ==
  ASSUME NEW s \in Seq(Frame), NEW h, NEW obj, NEW vec, NEW known,
         StackOK(s, h, obj, vec, known),
         NEW i \in DOMAIN s, NEW j \in DOMAIN s, 1 < i, i < j
  PROVE  s[i].node # s[j].node
<1>1. SUFFICES ASSUME s[i].node = s[j].node PROVE FALSE
  OBVIOUS
<1>2. Len(s) \in Nat /\ DOMAIN s = 1 .. Len(s)
  BY LenProperties
<1>3. s[i].node \in Type
  <2>1. s[j].node \notin MultiType
    BY <1>2, StackShape
  <2>2. s[j].node \notin Element
    <3>1. SUFFICES ASSUME s[j].node \in Element PROVE FALSE
      OBVIOUS
    <3>2. j = 3
      BY <1>2, <3>1, StackShape
    <3>3. i = 3
      BY <1>1, <1>2, <3>1, StackShape
    <3> QED BY <3>2, <3>3
  <2> QED BY <1>1, <1>2, <2>1, <2>2, StackShape DEF Creatable
<1>4. \A k \in i .. j : k \in DOMAIN s /\ k > 1
  BY <1>2
<1>5. \A k \in i .. j : s[k].node \in Type
  <2>1. TAKE k \in i .. j
  <2>2. CASE k = i
    BY <1>3, <2>2
  <2>3. CASE k > i
    <3>1. k \in DOMAIN s /\ k > 1
      BY <1>4
    <3>2. s[k].node \notin MultiType
      <4>1. SUFFICES ASSUME s[k].node \in MultiType PROVE FALSE
        OBVIOUS
      <4>2. k = 2
        BY <3>1, <4>1, StackShape
      <4> QED BY <1>2, <2>3, <4>2
    <3>3. s[k].node \notin Element
      <4>1. SUFFICES ASSUME s[k].node \in Element PROVE FALSE
        OBVIOUS
      <4>2. k = 3
        BY <3>1, <4>1, StackShape
      <4>3. i = 2
        BY <1>2, <2>3, <4>2
      <4>4. 3 \in DOMAIN s /\ 3 > 1 /\ s[3 - 1] = s[i]
        BY <3>1, <4>2, <4>3
      <4>5. s[2].node \in Creatable
        BY <1>3, <4>3 DEF Creatable
      <4>6. s[3].node \in Needs[s[2].node] \cup Lazy[s[2].node]
        BY <4>4, <4>5, <4>3, StackShape
      <4> QED BY <4>1, <4>2, <4>5, <4>6, GraphAssumption, NamesAssumption
    <3> QED BY <3>1, <3>2, <3>3, StackShape DEF Creatable
  <2> QED BY <2>2, <2>3, <1>2
<1> DEFINE S == {s[k].node : k \in i .. j}
<1>6. S \in (SUBSET Type) \ {{}}
  <2>1. i \in i .. j
    BY <1>2
  <2> QED BY <1>5, <2>1
<1>7. PICK n \in S : (Needs[n] \cup Lazy[n]) \cap S = {}
  <2> HIDE DEF S
  <2> QED BY <1>6, GraphAssumption
<1>8. PICK k \in i .. j : n = s[k].node
  BY <1>7
<1>9. ASSUME NEW l \in i .. j - 1
      PROVE  s[l + 1].node \in (Needs[s[l].node] \cup Lazy[s[l].node]) \cap S
  <2>1. l + 1 \in i .. j /\ l \in i .. j /\ l + 1 \in DOMAIN s /\ l + 1 > 1
        /\ (l + 1) - 1 = l
    BY <1>2
  <2>2. s[l].node \in Creatable
    BY <1>5, <2>1 DEF Creatable
  <2>3. s[l + 1].node \in Needs[s[l].node] \cup Lazy[s[l].node]
    BY <2>1, <2>2, StackShape
  <2> QED BY <2>1, <2>3
<1> HIDE DEF S
<1>10. CASE k < j
  <2>1. k \in i .. j - 1
    BY <1>2, <1>10
  <2>2. s[k + 1].node \in (Needs[s[k].node] \cup Lazy[s[k].node]) \cap S
    BY <2>1, <1>9
  <2> QED BY <2>2, <1>7, <1>8
<1>11. CASE k = j
  <2>1. i \in i .. j - 1
    BY <1>2
  <2> QED BY <2>1, <1>1, <1>7, <1>8, <1>9, <1>11
<1> QED BY <1>2, <1>10, <1>11

(* A stack stays one when objects and vectors are added, as long as none of    *)
(* them is that of a frame.                                                   *)
LEMMA StackStable ==
  ASSUME NEW s \in Seq(Frame), NEW h, NEW obj, NEW vec, NEW known,
         NEW obj2, NEW vec2, NEW known2,
         StackOK(s, h, obj, vec, known), known \subseteq known2, None \notin known,
         \A n \in Creatable : obj[n] # None => obj2[n] = obj[n],
         \A m \in MultiType : vec[m] # None => vec2[m] = vec[m],
         \A i \in DOMAIN s \ {1} : ~Built(s[i].node, obj2, vec2)
  PROVE  StackOK(s, h, obj2, vec2, known2)
<1>1. ASSUME NEW f, CallFrameOK(f, h, obj, vec)
      PROVE  CallFrameOK(f, h, obj2, vec2)
  <2>1. Built(h, obj, vec) /\ h # AllMultibindings => Built(h, obj2, vec2)
    BY <1>1 DEF CallFrameOK, Built, Target, Creatable
  <2> QED BY <1>1, <2>1 DEF CallFrameOK
<1>2. ASSUME NEW f, FrameOK(f, obj, vec, known), ~Built(f.node, obj2, vec2)
      PROVE  FrameOK(f, obj2, vec2, known2)
  <2>1. ASSUME f.node \in MultiType, VectorFrameOK(f, obj)
        PROVE  VectorFrameOK(f, obj2)
    <3>1. \A e \in ToSet(Elements[f.node]) : e \in Creatable
      BY <2>1, GraphAssumption, ElementOfSeq, LenProperties DEF ToSet, Creatable
    <3> QED BY <2>1, <3>1 DEF VectorFrameOK
  <2>2. ASSUME f.node \in Creatable, ObjectFrameOK(f, obj, known)
        PROVE  ObjectFrameOK(f, obj2, known2)
    <3>1. \A d \in Needs[f.node] : d \in Creatable
      BY <2>2, GraphAssumption DEF Creatable
    <3>2. \A d \in Needs[f.node] : obj[d] \in f.args => obj2[d] = obj[d]
      BY <2>2, <3>1 DEF ObjectFrameOK
    <3> QED BY <2>2, <3>2 DEF ObjectFrameOK
  <2> QED BY <1>2, <2>1, <2>2 DEF FrameOK
<1> QED BY <1>1, <1>2 DEF StackOK

(* With the innermost frame, all the nodes equal to its node are gone.        *)
LEMMA PoppedNode ==
  ASSUME NEW s \in Seq(Frame), s # <<>>, NEW h, NEW obj, NEW vec, NEW known,
         StackOK(s, h, obj, vec, known),
         NEW i \in DOMAIN Front(s) \ {1}
  PROVE  /\ Front(s)[i].node # Last(s).node
         /\ FrameOK(Front(s)[i], obj, vec, known)
<1>1. /\ Len(s) \in Nat \ {0} /\ DOMAIN s = 1 .. Len(s) /\ Last(s) = s[Len(s)]
      /\ DOMAIN Front(s) = 1 .. Len(s) - 1
      /\ \A k \in 1 .. Len(s) - 1 : Front(s)[k] = s[k]
  BY LastProperties, FrontProperties
<1>2. /\ i \in DOMAIN s /\ Len(s) \in DOMAIN s /\ 1 < i /\ i < Len(s)
      /\ Front(s)[i] = s[i]
  BY <1>1
<1>3. s[i].node # s[Len(s)].node
  BY <1>2, NodesAreDistinct
<1> QED BY <1>1, <1>2, <1>3 DEF StackOK

-----------------------------------------------------------------------------
(* None is neither an object nor a vector.                                    *)
LEMMA KnownProperties ==
  ASSUME TypeOK
  PROVE  Known \subseteq Object /\ None \notin Known
<1>1. ToSet(onDestruction) \subseteq Object
  BY ElementOfSeq, LenProperties DEF TypeOK, ToSet
<1>2. {[of |-> n, nth |-> 0] : n \in Creatable} \subseteq Object
  BY DEF Object
<1> QED BY <1>1, <1>2, NamesAssumption DEF Known, Registered, TypeOK

(* What is known of a thread inside the injector: it is the only one, and the  *)
(* kind of its innermost frame follows from the node of the frame.            *)
LEMMA InsideProperties ==
  ASSUME IInv, NEW t \in Thread, calls[t] # <<>>
  PROVE  /\ calls[t] \in Seq(Frame) /\ Len(calls[t]) \in Nat \ {0}
         /\ TopFrame(t) = Last(calls[t]) /\ TopFrame(t) \in Frame
         /\ owner = t /\ depth = Cardinality(Locking(calls[t]))
         /\ \A u \in Thread \ {t} : calls[u] = <<>> /\ ~raised[u]
         /\ todo[t] # <<>> /\ todo[t] \in Seq(Target)
         /\ StackOK(calls[t], Head(todo[t]), object, vector, Known)
         /\ TopFrame(t).node = Call <=> Len(calls[t]) = 1
         /\ TopFrame(t).node = Call =>
              CallFrameOK(TopFrame(t), Head(todo[t]), object, vector)
         /\ TopFrame(t).node # Call => FrameOK(TopFrame(t), object, vector, Known)
         /\ TopFrame(t).running =>
              TopFrame(t).node # Call /\ TopFrame(t).node \in Creatable
<1>1. calls[t] \in Seq(Frame) /\ TypeOK
  BY DEF IInv, TypeOK
<1>2. owner = t /\ depth = Cardinality(Locking(calls[t]))
  BY DEF IInv, LocksMatchFrames, Locking
<1>3. \A u \in Thread \ {t} : calls[u] = <<>> /\ ~raised[u]
  BY <1>2 DEF IInv, LocksMatchFrames, StacksOK
<1>4. /\ todo[t] # <<>> /\ todo[t] \in Seq(Target)
      /\ StackOK(calls[t], Head(todo[t]), object, vector, Known)
  BY DEF IInv, StacksOK, TypeOK
<1>5. TopFrame(t) = Last(calls[t])
  BY DEF TopFrame
<1> QED BY <1>1, <1>2, <1>3, <1>4, <1>5, TopOfStack

(* The part of the invariant about the frames and the mutex.                  *)
CallsOK ==
  /\ owner \in Thread \cup {None} /\ depth \in Nat
  /\ calls \in [Thread -> Seq(Frame)]
  /\ LocksMatchFrames /\ StacksOK

(* A step of a thread that stays inside.                                      *)
LEMMA StayInside ==
  ASSUME IInv, NEW t \in Thread, calls[t] # <<>>, NEW s \in Seq(Frame), s # <<>>,
         calls' = [calls EXCEPT ![t] = s], owner' = owner, todo' = todo,
         depth' = Cardinality(Locking(s)),
         \A u \in Thread \ {t} : raised'[u] = raised[u],
         StackOK(s, Head(todo[t]), object', vector', Known')
  PROVE  CallsOK'
<1>1. /\ calls \in [Thread -> Seq(Frame)] /\ owner = t /\ None \notin Thread
      /\ todo[t] # <<>>
      /\ \A u \in Thread \ {t} : calls[u] = <<>> /\ ~raised[u]
  BY InsideProperties, NamesAssumption DEF IInv, TypeOK
<1>2. /\ calls' \in [Thread -> Seq(Frame)] /\ calls'[t] = s
      /\ \A u \in Thread \ {t} : calls'[u] = <<>> /\ ~raised'[u]
  BY <1>1
<1>3. owner' \in Thread \cup {None} /\ depth' \in Nat
  BY <1>1, LockingIsFinite
<1>4. LocksMatchFrames'
  BY <1>1, <1>2 DEF LocksMatchFrames, Locking
<1>5. \A u \in Thread : StackOK(calls'[u], Head(todo'[u]), object', vector', Known')
  <2>1. ASSUME NEW h PROVE StackOK(<<>>, h, object', vector', Known')
    BY DEF StackOK
  <2> QED BY <1>2, <2>1
<1>6. StacksOK'
  BY <1>1, <1>2, <1>5 DEF StacksOK
<1> QED BY <1>2, <1>3, <1>4, <1>6 DEF CallsOK

(* A step that changes the innermost frame only.                              *)
LEMMA ReplaceTop ==
  ASSUME IInv, NEW t \in Thread, calls[t] # <<>>, NEW f \in Frame,
         f.node = TopFrame(t).node, f.locks = TopFrame(t).locks,
         calls' = SetTop(t, f),
         \A u \in Thread \ {t} : raised'[u] = raised[u],
         UNCHANGED <<owner, depth, todo, object, vector, onDestruction, destroyed>>,
         f.node = Call => CallFrameOK(f, Head(todo[t]), object, vector),
         f.node # Call => FrameOK(f, object, vector, Known)
  PROVE  CallsOK'
<1> DEFINE s == Append(Front(calls[t]), f)
<1>1. s \in Seq(Frame) /\ s # <<>> /\ depth' = Cardinality(Locking(s))
  BY InsideProperties, ReplacedProperties, LockingReplaced
<1>2. calls' = [calls EXCEPT ![t] = s]
  BY DEF SetTop
<1>3. StackOK(s, Head(todo[t]), object, vector, Known)
  <2>1. /\ calls[t] \in Seq(Frame) /\ Len(calls[t]) \in Nat \ {0}
        /\ TopFrame(t) = Last(calls[t])
        /\ Len(calls[t]) = 1 <=> f.node = Call
        /\ StackOK(calls[t], Head(todo[t]), object, vector, Known)
    BY InsideProperties
  <2>2. /\ Len(calls[t]) = 1 => CallFrameOK(f, Head(todo[t]), object, vector)
        /\ Len(calls[t]) # 1 => FrameOK(f, object, vector, Known)
    BY <2>1, Zenon
  <2> QED BY <2>1, <2>2, StackReplaced
<1>4. object' = object /\ vector' = vector /\ Known' = Known
  BY DEF Known, Registered
<1> HIDE DEF s
<1> QED BY <1>1, <1>2, <1>3, <1>4, StayInside

(* A step that pushes a frame.                                                *)
LEMMA PushFrame ==
  ASSUME IInv, NEW t \in Thread, calls[t] # <<>>, NEW f \in Frame,
         f.node \in TopFrame(t).pending, FrameOK(f, object, vector, Known),
         calls' = Push(t, f), depth' = depth + f.locks,
         UNCHANGED <<owner, raised, todo, object, vector, onDestruction, destroyed>>
  PROVE  CallsOK'
<1> DEFINE s == Append(calls[t], f)
<1>1. s \in Seq(Frame) /\ s # <<>> /\ depth' = Cardinality(Locking(s))
  BY InsideProperties, AppendedProperties, LockingPushed
<1>2. calls' = [calls EXCEPT ![t] = s]
  BY DEF Push
<1>3. StackOK(s, Head(todo[t]), object, vector, Known)
  BY InsideProperties, StackPushed
<1>4. object' = object /\ vector' = vector /\ Known' = Known
  BY DEF Known, Registered
<1> HIDE DEF s
<1> QED BY <1>1, <1>2, <1>3, <1>4, StayInside

(* A step that pops the frame of an object or a vector.                       *)
LEMMA PopObjectFrame ==
  ASSUME IInv, NEW t \in Thread, calls[t] # <<>>, TopFrame(t).node # Call,
         PopFrame(t), UNCHANGED <<owner, todo>>,
         \A u \in Thread \ {t} : raised'[u] = raised[u],
         StackOK(Front(calls[t]), Head(todo[t]), object', vector', Known')
  PROVE  CallsOK'
<1> DEFINE s == Front(calls[t])
<1>1. s \in Seq(Frame) /\ Len(s) = Len(calls[t]) - 1
  BY InsideProperties, FrontProperties
<1>2. s # <<>>
  <2>1. Len(calls[t]) \in Nat /\ Len(calls[t]) # 1
    BY InsideProperties
  <2>2. Len(s) # 0
    <3> HIDE DEF s
    <3> QED BY <1>1, <2>1
  <2> QED BY <2>2, EmptySeq
<1>3. calls' = [calls EXCEPT ![t] = s] /\ depth' = Cardinality(Locking(s))
  BY InsideProperties, LockingPopped DEF PopFrame
<1> HIDE DEF s
<1>4. StackOK(s, Head(todo[t]), object', vector', Known')
  BY DEF s
<1> QED BY <1>1, <1>2, <1>3, <1>4, StayInside

(* A step that leaves the injector, and releases the mutex.                   *)
LEMMA LeaveInjector ==
  ASSUME IInv, NEW t \in Thread, calls[t] # <<>>, TopFrame(t).node = Call,
         PopFrame(t), owner' = None, ~raised'[t],
         \A u \in Thread \ {t} : raised'[u] = raised[u]
  PROVE  /\ CallsOK'
         /\ \A u \in Thread : calls'[u] = <<>>
<1>1. /\ calls \in [Thread -> Seq(Frame)] /\ calls[t] \in Seq(Frame)
      /\ Len(calls[t]) = 1 /\ DOMAIN calls[t] = 1 .. 1
      /\ TopFrame(t) = calls[t][1] /\ calls[t][1].locks = 1
      /\ depth = Cardinality(Locking(calls[t]))
      /\ \A u \in Thread \ {t} : calls[u] = <<>> /\ ~raised[u]
  <2>1. /\ calls[t] \in Seq(Frame) /\ Len(calls[t]) = 1
        /\ TopFrame(t) = Last(calls[t])
        /\ CallFrameOK(TopFrame(t), Head(todo[t]), object, vector)
        /\ depth = Cardinality(Locking(calls[t]))
        /\ \A u \in Thread \ {t} : calls[u] = <<>> /\ ~raised[u]
    BY InsideProperties
  <2>2. DOMAIN calls[t] = 1 .. 1 /\ TopFrame(t) = calls[t][1]
    BY <2>1, LastProperties
  <2>3. calls \in [Thread -> Seq(Frame)]
    BY DEF IInv, TypeOK
  <2>4. calls[t][1].locks = 1
    BY <2>1, <2>2 DEF CallFrameOK
  <2> QED BY <2>1, <2>2, <2>3, <2>4
<1>2. Front(calls[t]) = <<>>
  BY <1>1, FrontProperties, EmptySeq
<1>3. /\ calls' \in [Thread -> Seq(Frame)]
      /\ \A u \in Thread : calls'[u] = <<>> /\ ~raised'[u]
  BY <1>1, <1>2 DEF PopFrame
<1>4. depth' = 0
  <2>1. Locking(calls[t]) = {1}
    BY <1>1 DEF Locking
  <2>2. Cardinality({1}) = 1
    BY FS_Singleton
  <2>3. depth = 1 /\ depth' = depth - TopFrame(t).locks
    BY <1>1, <2>1, <2>2 DEF PopFrame
  <2> QED BY <1>1, <2>3
<1>5. LocksMatchFrames'
  BY <1>3, <1>4 DEF LocksMatchFrames
<1>6. StacksOK'
  BY <1>3 DEF StacksOK, StackOK
<1> QED BY <1>3, <1>4, <1>5, <1>6 DEF CallsOK

-----------------------------------------------------------------------------
(* What a step that creates, returns and destroys nothing leaves as it is.    *)
LEMMA DataUnchanged ==
  ASSUME IInv, status' = "alive" => status = "alive",
         UNCHANGED <<graphVars, onDestruction, historyVars>>
  PROVE  DataOK' /\ Known' = Known
<1>1. UNCHANGED <<object, vector, onDestruction, created, returned, uses,
                  destroyed, eager>>
  BY DEF graphVars, historyVars
<1>2. Known' = Known /\ Registered' = Registered
  BY <1>1 DEF Known, Registered
<1>3. ObjectsOK'
  BY <1>1, <1>2 DEF IInv, DataOK, ObjectsOK
<1>4. CreatedOK' /\ ReturnedOK'
  BY <1>1 DEF IInv, DataOK, CreatedOK, ReturnedOK
<1>5. UsesOK'
  BY <1>1, <1>2 DEF IInv, DataOK, UsesOK
<1>6. EagerOK' /\ AliveOK'
  BY <1>1 DEF IInv, DataOK, EagerOK, AliveOK
<1>7. OwnedExactlyOnce'
  BY <1>1 DEF IInv, DataOK, OwnedExactlyOnce, Constructed
<1>8. VectorsAreComplete'
  BY <1>1 DEF IInv, DataOK, VectorsAreComplete
<1> QED BY <1>2, <1>3, <1>4, <1>5, <1>6, <1>7, <1>8 DEF DataOK

(* TypeOK without the part that CallsOK states.                               *)
RestOK ==
  /\ status \in {"alive", "destroying", "destroyed", "fatal"}
  /\ raised \in [Thread -> BOOLEAN]
  /\ todo \in [Thread -> Seq(Target)]
  /\ object \in [Creatable -> Object \cup {None}]
  /\ vector \in [MultiType -> Seq(Object) \cup {None}]
  /\ onDestruction \in Seq(Object)
  /\ allocated \in [Creatable -> Nat]
  /\ created \in [Creatable -> Nat]
  /\ DOMAIN returned = Type \cup MultiType
  /\ \A n \in Type : returned[n] \subseteq Object
  /\ \A m \in MultiType : returned[m] \subseteq Seq(Object)
  /\ uses \subseteq Object \X Object
  /\ destroyed \subseteq Object
  /\ eager \in BOOLEAN
  /\ budget \in [Thread -> 0 .. MaxCalls]
  /\ throws \in 0 .. MaxThrows

(* The four parts make up the invariant.                                      *)
LEMMA IInvNext ==
  ASSUME CallsOK', RestOK', TodoOK', DataOK'
  PROVE  IInv'
BY DEF IInv, TypeOK, CallsOK, RestOK

(* The frames of a step that leaves the threads and the graph alone.          *)
LEMMA CallsUnchanged ==
  ASSUME IInv, UNCHANGED <<mutexVars, callVars, graphVars>>,
         Known' = Known
  PROVE  CallsOK' /\ TodoOK'
<1>1. UNCHANGED <<owner, depth, calls, raised, todo, object, vector>>
  BY DEF mutexVars, callVars, graphVars
<1>2. LocksMatchFrames'
  BY <1>1 DEF IInv, LocksMatchFrames
<1>3. StacksOK'
  BY <1>1 DEF IInv, StacksOK
<1>4. TodoOK'
  BY <1>1 DEF IInv, TodoOK
<1>5. /\ owner' \in Thread \cup {None} /\ depth' \in Nat
      /\ calls' \in [Thread -> Seq(Frame)]
  BY <1>1 DEF IInv, TypeOK
<1> QED BY <1>2, <1>3, <1>4, <1>5 DEF CallsOK

-----------------------------------------------------------------------------
(* The actions.  What a thread asks for, when it starts a call.               *)
LEMMA NewTodo ==
  /\ \A n \in Type \cup MultiType :
       <<n>> \in Seq(Target) /\ TodoListOK(<<n>>, object)
  /\ Exposed \o <<AllMultibindings>> \in Seq(Target)
  /\ TodoListOK(Exposed \o <<AllMultibindings>>, object)
<1>1. ASSUME NEW n \in Type \cup MultiType
      PROVE  <<n>> \in Seq(Target) /\ TodoListOK(<<n>>, object)
  <2>1. n # AllMultibindings
    BY NamesAssumption DEF Creatable
  <2>2. <<n>> \in Seq(Target) /\ Len(<<n>>) = 1 /\ <<n>>[1] = n /\ DOMAIN <<n>> = {1}
    BY DEF Target
  <2> QED BY <2>1, <2>2 DEF TodoListOK, ToSet
<1> DEFINE s == Exposed \o <<AllMultibindings>>
           k == Len(Exposed)
<1>2. /\ Exposed \in Seq(Target) /\ k \in Nat /\ DOMAIN Exposed = 1 .. k
      /\ \A i \in 1 .. k : Exposed[i] \in Type
  BY GraphAssumption, LenProperties, ElementOfSeq DEF Target
<1>3. <<AllMultibindings>> \in Seq(Target) /\ Len(<<AllMultibindings>>) = 1
  BY DEF Target
<1>4. /\ s \in Seq(Target) /\ Len(s) = k + 1 /\ DOMAIN s = 1 .. k + 1
      /\ \A i \in 1 .. k : s[i] = Exposed[i]
  BY <1>2, <1>3, ConcatProperties, LenProperties
<1> HIDE DEF s
<1>5. \A i \in DOMAIN s : s[i] = AllMultibindings => i = Len(s)
  <2>1. \A i \in 1 .. k : Exposed[i] # AllMultibindings
    BY <1>2, NamesAssumption DEF Creatable
  <2> QED BY <1>2, <1>4, <2>1
<1>6. \A n \in ToSet(Exposed) : n \in ToSet(s)
  BY <1>2, <1>4 DEF ToSet
<1>7. TodoListOK(s, object)
  BY <1>5, <1>6 DEF TodoListOK
<1> QED BY <1>1, <1>4, <1>7 DEF s

(* StartGet and StartEagerlyInjectAll: a thread outside starts a call.        *)
LEMMA StartsStep ==
  ASSUME IInv, NEW t \in Thread, StartGet(t) \/ StartEagerlyInjectAll(t)
  PROVE  IInv'
<1>1. /\ UNCHANGED <<status, mutexVars, calls, raised, graphVars, allocatorVars,
                     historyVars, throws>>
      /\ calls[t] = <<>> /\ budget[t] > 0 /\ budget' = [budget EXCEPT ![t] = @ - 1]
  BY DEF StartGet, StartEagerlyInjectAll
<1>2. PICK s \in Seq(Target) :
        TodoListOK(s, object) /\ todo' = [todo EXCEPT ![t] = s]
  BY NewTodo DEF StartGet, StartEagerlyInjectAll
<1>3. UNCHANGED <<owner, depth, object, vector, onDestruction, allocated, created,
                  returned, uses, destroyed, eager, status, calls, raised, throws>>
  BY <1>1 DEF mutexVars, graphVars, allocatorVars, historyVars
<1>4. DataOK' /\ Known' = Known
  BY <1>1, <1>3, DataUnchanged
<1>5. todo' \in [Thread -> Seq(Target)] /\ todo'[t] = s
      /\ \A u \in Thread \ {t} : todo'[u] = todo[u]
  BY <1>2 DEF IInv, TypeOK
<1>6. StacksOK'
  <2>1. raised[t] = FALSE
    BY <1>1 DEF IInv, StacksOK, TypeOK
  <2> QED BY <1>1, <1>3, <1>4, <1>5, <2>1 DEF IInv, StacksOK, StackOK
<1>7. LocksMatchFrames'
  BY <1>3 DEF IInv, LocksMatchFrames
<1>8. CallsOK'
  BY <1>3, <1>6, <1>7 DEF CallsOK, IInv, TypeOK
<1>9. TodoOK'
  BY <1>2, <1>3, <1>5 DEF IInv, TodoOK
<1>10. budget' \in [Thread -> 0 .. MaxCalls]
  BY <1>1, NamesAssumption DEF IInv, TypeOK
<1>11. RestOK'
  BY <1>3, <1>5, <1>10 DEF IInv, TypeOK, RestOK
<1> QED BY <1>4, <1>8, <1>9, <1>11, IInvNext

(* Lock: nobody is inside, and the thread enters with the frame of its call.  *)
LEMMA LockStep ==
  ASSUME IInv, NEW t \in Thread, Lock(t)
  PROVE  IInv'
<1> DEFINE f == CallFrame(Head(todo[t]))
           s == Append(<<>>, f)
<1>1. UNCHANGED <<object, vector, onDestruction, allocated, created, returned,
                  uses, destroyed, eager, status, todo, raised, throws, budget>>
  BY DEF Lock, graphVars, allocatorVars, historyVars
<1>2. /\ owner = None /\ owner' = t /\ depth' = 1 /\ todo[t] # <<>>
      /\ calls' = [calls EXCEPT ![t] = Append(@, f)]
  BY DEF Lock, Push
<1>3. \A u \in Thread : calls[u] = <<>> /\ ~raised[u]
  BY <1>2 DEF IInv, LocksMatchFrames, StacksOK
<1>4. /\ calls \in [Thread -> Seq(Frame)] /\ raised \in [Thread -> BOOLEAN]
      /\ todo[t] \in Seq(Target) /\ None \notin Thread
  BY NamesAssumption DEF IInv, TypeOK
<1>5. Head(todo[t]) \in Target
  BY <1>2, <1>4, HeadTailProperties
<1>6. f \in Frame /\ f.locks = 1
  BY <1>5 DEF CallFrame, Frame
<1>7. CallFrameOK(f, Head(todo[t]), object, vector)
  BY <1>5 DEF CallFrame, CallFrameOK
<1> HIDE DEF f
<1>8. s \in Seq(Frame) /\ s # <<>> /\ Len(s) = 1 /\ s[1] = f /\ DOMAIN s = {1}
  BY <1>6
<1>9. Cardinality({i \in DOMAIN s : s[i].locks = 1}) = 1
  <2>1. {i \in DOMAIN s : s[i].locks = 1} = {1}
    BY <1>6, <1>8
  <2> QED BY <2>1, FS_Singleton
<1> HIDE DEF s
<1>10. /\ calls' \in [Thread -> Seq(Frame)] /\ calls'[t] = s
       /\ \A u \in Thread \ {t} : calls'[u] = <<>>
  BY <1>2, <1>3, <1>4, <1>8 DEF s
<1>11. LocksMatchFrames'
  BY <1>2, <1>4, <1>8, <1>9, <1>10 DEF LocksMatchFrames
<1>12. DataOK' /\ Known' = Known
  BY <1>1, DataUnchanged DEF graphVars, historyVars
<1>13. StackOK(s, Head(todo[t]), object, vector, Known)
  BY <1>7, <1>8 DEF StackOK
<1>14. StacksOK'
  <2>1. ASSUME NEW u \in Thread \ {t}
        PROVE  StackOK(<<>>, Head(todo[u]), object, vector, Known)
    BY DEF StackOK
  <2> QED BY <1>1, <1>2, <1>3, <1>10, <1>12, <1>13, <2>1 DEF StacksOK
<1>15. CallsOK'
  BY <1>2, <1>10, <1>11, <1>14 DEF CallsOK
<1>16. RestOK' /\ TodoOK'
  BY <1>1 DEF IInv, TypeOK, RestOK, TodoOK
<1> QED BY <1>12, <1>15, <1>16, IInvNext

(* What a step inside leaves alone unless it creates an object.               *)
LEMMA FramesStep ==
  ASSUME IInv, CallsOK',
         UNCHANGED <<status, todo, graphVars, onDestruction, historyVars, budget>>,
         raised' \in [Thread -> BOOLEAN], allocated' \in [Creatable -> Nat],
         throws' \in 0 .. MaxThrows
  PROVE  IInv'
<1>1. UNCHANGED <<status, todo, object, vector, onDestruction, created, returned,
                  uses, destroyed, eager, budget>>
  BY DEF graphVars, historyVars
<1>2. DataOK'
  BY DataUnchanged
<1>3. RestOK' /\ TodoOK'
  BY <1>1 DEF IInv, TypeOK, RestOK, TodoOK
<1> QED BY <1>2, <1>3, IInvNext

-----------------------------------------------------------------------------
(* Finding work done is finding it built.                                     *)
LEMMA DoneIsBuilt ==
  ASSUME NEW n, n # AllMultibindings
  PROVE  Done(n) <=> Built(n, object, vector)
BY DEF Done, Built

(* A step injects only what its frame waits for: a type, a multibinding set,   *)
(* an element or all the multibindings.                                       *)
LEMMA NextDependenciesProperties ==
  ASSUME NEW f \in Frame
  PROVE  NextDependencies(f) \subseteq f.pending
BY DEF NextDependencies

(* What the frames wait for.                                                  *)
LEMMA PendingTargets ==
  ASSUME IInv, NEW t \in Thread, calls[t] # <<>>, NEW d \in TopFrame(t).pending
  PROVE  d \in Creatable \cup MultiType \cup {AllMultibindings}
<1>1. CASE TopFrame(t).node = Call
  <2>1. CallFrameOK(TopFrame(t), Head(todo[t]), object, vector)
    BY <1>1, InsideProperties
  <2> QED BY <2>1 DEF CallFrameOK, Target, Creatable
<1>2. CASE TopFrame(t).node # Call
  <2>1. FrameOK(TopFrame(t), object, vector, Known)
    BY <1>2, InsideProperties
  <2>2. CASE TopFrame(t).node \in MultiType
    <3>1. ToSet(Elements[TopFrame(t).node]) \subseteq Element
      BY <2>2, GraphAssumption, ElementOfSeq, LenProperties DEF ToSet
    <3> QED BY <2>1, <2>2, <3>1 DEF FrameOK, VectorFrameOK, Creatable
  <2>3. CASE TopFrame(t).node \in Creatable
    <3>1. Needs[TopFrame(t).node] \cup Lazy[TopFrame(t).node] \subseteq Type
      BY <2>3, GraphAssumption
    <3> QED BY <2>1, <2>3, <3>1 DEF FrameOK, ObjectFrameOK, Creatable
  <2> QED BY <2>1, <2>2, <2>3 DEF FrameOK
<1> QED BY <1>1, <1>2

(* UseDependency: what is built is no longer pending, and an object becomes    *)
(* an argument.                                                               *)
LEMMA UseDependencyStep ==
  ASSUME IInv, NEW t \in Thread, UseDependency(t)
  PROVE  IInv'
<1> DEFINE f == TopFrame(t)
<1>1. UNCHANGED <<status, owner, depth, raised, todo, object, vector, onDestruction,
                  allocated, created, returned, uses, destroyed, eager, budget,
                  throws>>
  BY DEF UseDependency, mutexVars, graphVars, allocatorVars, historyVars
<1>2. calls[t] # <<>>
  BY DEF UseDependency, Inside
<1>3. PICK d \in NextDependencies(f) :
        /\ Done(d)
        /\ calls' = SetTop(t, [f EXCEPT
             !.pending = @ \ {d},
             !.args = IF d \in Creatable THEN @ \cup {object[d]} ELSE @])
  BY DEF UseDependency
<1> DEFINE g == [f EXCEPT !.pending = @ \ {d},
                   !.args = IF d \in Creatable THEN @ \cup {object[d]} ELSE @]
<1>4. f \in Frame
  BY <1>2, InsideProperties
<1> HIDE DEF f
<1>5. d \in f.pending
  BY <1>4, NextDependenciesProperties
<1>6. d \in Creatable \cup MultiType /\ Built(d, object, vector)
  <2>1. d # AllMultibindings
    BY <1>3, NamesAssumption DEF Done
  <2>2. d \in Creatable \cup MultiType \cup {AllMultibindings}
    BY <1>2, <1>5, PendingTargets DEF f
  <2> QED BY <1>3, <2>1, <2>2, DoneIsBuilt
<1>7. d \in Creatable => object[d] # None /\ object[d] \in Known /\ object[d] \in Object
  <2>1. d \in Creatable => object[d] # None
    BY <1>6, NamesAssumption DEF Built
  <2> QED BY <2>1, KnownProperties DEF IInv, DataOK, ObjectsOK
<1>8. /\ g \in Frame /\ g.node = f.node /\ g.locks = f.locks
      /\ g.running = f.running /\ g.pending = f.pending \ {d}
      /\ g.args = IF d \in Creatable THEN f.args \cup {object[d]} ELSE f.args
  BY <1>4, <1>7 DEF Frame
<1> HIDE DEF g
<1>9. ASSUME f.node = Call
      PROVE  CallFrameOK(g, Head(todo[t]), object, vector)
  <2>1. CallFrameOK(f, Head(todo[t]), object, vector)
    BY <1>2, <1>9, InsideProperties DEF f
  <2>2. d # AllMultibindings
    BY <1>6, NamesAssumption
  <2>3. CASE Head(todo[t]) = AllMultibindings
    <3>1. /\ f.pending \subseteq MultiType
          /\ \A m \in MultiType \ f.pending : vector[m] # None
      BY <1>5, <2>1, <2>2, <2>3 DEF CallFrameOK
    <3>2. vector[d] # None
      BY <1>5, <1>6, <3>1 DEF Built
    <3> QED BY <1>8, <2>1, <2>3, <3>1, <3>2 DEF CallFrameOK
  <2>4. CASE Head(todo[t]) # AllMultibindings
    BY <1>5, <1>6, <1>8, <2>1, <2>4 DEF CallFrameOK
  <2> QED BY <2>3, <2>4
<1>10. ASSUME f.node # Call
       PROVE  FrameOK(g, object, vector, Known)
  <2>1. FrameOK(f, object, vector, Known)
    BY <1>2, <1>10, InsideProperties DEF f
  <2>2. ASSUME f.node \in MultiType PROVE VectorFrameOK(g, object)
    <3>1. VectorFrameOK(f, object)
      BY <2>1, <2>2 DEF FrameOK
    <3>2. ToSet(Elements[f.node]) \subseteq Element
      BY <2>2, GraphAssumption, ElementOfSeq, LenProperties DEF ToSet
    <3>3. d \in Creatable
      BY <1>5, <3>1, <3>2 DEF VectorFrameOK, Creatable
    <3> QED BY <1>7, <1>8, <3>1, <3>3 DEF VectorFrameOK
  <2>3. ASSUME f.node \in Creatable PROVE ObjectFrameOK(g, object, Known)
    <3>1. ObjectFrameOK(f, object, Known)
      BY <2>1, <2>3 DEF FrameOK
    <3>2. d \in Creatable
      BY <1>5, <2>3, <3>1, GraphAssumption DEF ObjectFrameOK, Creatable
    <3>3. g.args = f.args \cup {object[d]} /\ object[d] \in Known
      BY <1>7, <1>8, <3>2
    <3> QED BY <1>5, <1>8, <3>1, <3>3 DEF ObjectFrameOK
  <2> QED BY <1>8, <2>1, <2>2, <2>3 DEF FrameOK
<1>11. CallsOK'
  <2>1. calls' = SetTop(t, g)
    BY <1>3 DEF g
  <2> QED BY <1>1, <1>2, <1>8, <1>9, <1>10, <2>1, ReplaceTop DEF f
<1> QED BY <1>1, <1>11, FramesStep DEF IInv, TypeOK, graphVars, historyVars

(* InjectDependency: a frame is pushed for a dependency that is not built.    *)
LEMMA InjectDependencyStep ==
  ASSUME IInv, NEW t \in Thread, InjectDependency(t)
  PROVE  IInv'
<1> DEFINE f == TopFrame(t)
           k == IF GetsWithLock(f) THEN 1 ELSE 0
<1>1. UNCHANGED <<status, owner, raised, todo, object, vector, onDestruction,
                  allocated, created, returned, uses, destroyed, eager, budget,
                  throws>>
  BY DEF InjectDependency, graphVars, allocatorVars, historyVars
<1>2. calls[t] # <<>>
  BY DEF InjectDependency, Inside
<1>3. PICK d \in NextDependencies(f) :
        /\ ~Done(d) /\ d # AllMultibindings
        /\ calls' = Push(t, NewFrame(d, k)) /\ depth' = depth + k
  BY DEF InjectDependency
<1> DEFINE g == NewFrame(d, k)
<1>4. k \in {0, 1}
  OBVIOUS
<1> HIDE DEF k
<1>5. d \in f.pending
  BY <1>2, InsideProperties, NextDependenciesProperties
<1>6. d \in Creatable \cup MultiType /\ ~Built(d, object, vector)
  BY <1>2, <1>3, <1>5, PendingTargets, DoneIsBuilt
<1>7. /\ g.node = d /\ g.args = {} /\ g.running = FALSE /\ g.locks = k
      /\ d \in MultiType => g.pending = ToSet(Elements[d])
      /\ d \in Creatable => g.pending = Needs[d]
  BY <1>3, <1>6, NamesAssumption DEF NewFrame, Dependencies
<1>8. g \in Frame
  <2>1. d \in MultiType => ToSet(Elements[d]) \subseteq Element
    BY GraphAssumption, ElementOfSeq, LenProperties DEF ToSet
  <2>2. d \in Creatable => Needs[d] \subseteq Type
    BY GraphAssumption
  <2>3. g.pending \subseteq Creatable \cup Target
    BY <1>6, <1>7, <2>1, <2>2 DEF Creatable
  <2> QED BY <1>4, <1>6, <2>3 DEF NewFrame, Frame
<1>9. FrameOK(g, object, vector, Known)
  <2> HIDE DEF g
  <2>1. d \in MultiType => VectorFrameOK(g, object)
    BY <1>7 DEF VectorFrameOK
  <2>2. d \in Creatable => ObjectFrameOK(g, object, Known)
    BY <1>7 DEF ObjectFrameOK
  <2> QED BY <1>6, <1>7, <2>1, <2>2 DEF FrameOK
<1>10. CallsOK'
  <2> HIDE DEF g
  <2>1. calls' = Push(t, g) /\ depth' = depth + g.locks
    BY <1>3, <1>7 DEF g
  <2> QED BY <1>1, <1>2, <1>5, <1>7, <1>8, <1>9, <2>1, PushFrame
<1> QED BY <1>1, <1>10, FramesStep DEF IInv, TypeOK, graphVars, historyVars

(* VisitAllMultibindings: the call now waits for every multibinding set.      *)
LEMMA VisitAllMultibindingsStep ==
  ASSUME IInv, NEW t \in Thread, VisitAllMultibindings(t)
  PROVE  IInv'
<1> DEFINE f == TopFrame(t)
           g == [f EXCEPT !.pending = MultiType]
<1>1. UNCHANGED <<status, owner, depth, raised, todo, object, vector, onDestruction,
                  allocated, created, returned, uses, destroyed, eager, budget,
                  throws>>
  BY DEF VisitAllMultibindings, mutexVars, graphVars, allocatorVars, historyVars
<1>2. /\ calls[t] # <<>> /\ f.node = Call /\ f.pending = {AllMultibindings}
      /\ calls' = SetTop(t, g)
  BY DEF VisitAllMultibindings, Inside
<1>3. f \in Frame /\ CallFrameOK(f, Head(todo[t]), object, vector)
  BY <1>2, InsideProperties
<1> HIDE DEF f
<1>4. /\ g \in Frame /\ g.node = f.node /\ g.locks = f.locks
      /\ g.running = f.running /\ g.pending = MultiType
  BY <1>3 DEF Frame, Target
<1> HIDE DEF g
<1>5. Head(todo[t]) = AllMultibindings
  BY <1>2, <1>3 DEF CallFrameOK
<1>6. CallFrameOK(g, Head(todo[t]), object, vector)
  BY <1>3, <1>4, <1>5 DEF CallFrameOK
<1>7. CallsOK'
  BY <1>1, <1>2, <1>4, <1>6, ReplaceTop DEF f
<1> QED BY <1>1, <1>7, FramesStep DEF IInv, TypeOK, graphVars, historyVars

(* The innermost frame with user code running.                                *)
LEMMA RunningFrame ==
  ASSUME IInv, NEW t \in Thread, calls[t] # <<>>, TopFrame(t).running
  PROVE  /\ TopFrame(t) \in Frame /\ TopFrame(t).node # Call
         /\ TopFrame(t).node \in Creatable /\ TopFrame(t).node \notin MultiType
         /\ RunsUserCode(TopFrame(t).node)
         /\ object[TopFrame(t).node] = None
         /\ FrameOK(TopFrame(t), object, vector, Known)
         /\ ObjectFrameOK(TopFrame(t), object, Known)
<1>1. /\ TopFrame(t) \in Frame /\ TopFrame(t).node # Call
      /\ TopFrame(t).node \in Creatable
      /\ FrameOK(TopFrame(t), object, vector, Known)
  BY InsideProperties
<1>2. TopFrame(t).node \notin MultiType
  BY <1>1, NamesAssumption
<1>3. ObjectFrameOK(TopFrame(t), object, Known)
  BY <1>1 DEF FrameOK
<1>4. object[TopFrame(t).node] = None
  BY <1>1, <1>2 DEF FrameOK, Built
<1> QED BY <1>1, <1>2, <1>3, <1>4 DEF ObjectFrameOK

(* User code may start to run, or wait for a Provider, or for nothing: the     *)
(* frame keeps its node and its arguments.                                    *)
LEMMA ObjectFrameStep ==
  ASSUME IInv, NEW t \in Thread, calls[t] # <<>>, NEW f \in Frame,
         TopFrame(t).node # Call,
         f.node = TopFrame(t).node, f.locks = TopFrame(t).locks,
         ObjectFrameOK(f, object, Known), f.node \in Creatable,
         calls' = SetTop(t, f),
         UNCHANGED <<status, mutexVars, todo, graphVars, onDestruction, historyVars,
                     budget, throws>>,
         raised' \in [Thread -> BOOLEAN], allocated' \in [Creatable -> Nat],
         \A u \in Thread \ {t} : raised'[u] = raised[u]
  PROVE  IInv'
<1>1. UNCHANGED <<owner, depth, todo, object, vector, onDestruction, destroyed>>
  BY DEF mutexVars, graphVars, historyVars
<1>2. FrameOK(TopFrame(t), object, vector, Known)
  BY InsideProperties
<1>3. FrameOK(f, object, vector, Known)
  BY <1>2, NamesAssumption DEF FrameOK
<1>4. CallsOK'
  BY <1>1, <1>3, ReplaceTop
<1>5. throws' \in 0 .. MaxThrows
  BY DEF IInv, TypeOK
<1> QED BY <1>4, <1>5, FramesStep

(* StartConstructor: nothing is pending, so all the arguments are there.      *)
LEMMA StartConstructorStep ==
  ASSUME IInv, NEW t \in Thread, StartConstructor(t)
  PROVE  IInv'
<1> DEFINE f == TopFrame(t)
           g == [f EXCEPT !.running = TRUE]
<1>1. /\ calls[t] # <<>> /\ RunsUserCode(f.node) /\ f.pending = {} /\ ~f.running
      /\ calls' = SetTop(t, g)
      /\ UNCHANGED <<status, mutexVars, raised, todo, graphVars, onDestruction,
                     historyVars, budget, throws>>
      /\ allocated' = IF Kind[f.node] = "constructor"
                        THEN [allocated EXCEPT ![f.node] = @ + 1] ELSE allocated
  BY DEF StartConstructor, Inside
<1>2. f.node \in Creatable
  BY <1>1 DEF RunsUserCode
<1>3. f \in Frame /\ f.node # Call /\ FrameOK(f, object, vector, Known)
  BY <1>1, <1>2, InsideProperties, NamesAssumption
<1>4. ObjectFrameOK(f, object, Known)
  BY <1>2, <1>3 DEF FrameOK
<1>5. allocated' \in [Creatable -> Nat] /\ raised' \in [Thread -> BOOLEAN]
      /\ raised' = raised
  BY <1>1, <1>2, SMTT(30) DEF IInv, TypeOK
<1> HIDE DEF f
<1>6. /\ g \in Frame /\ g.node = f.node /\ g.locks = f.locks
      /\ g.running = TRUE /\ g.pending = f.pending /\ g.args = f.args
  BY <1>3 DEF Frame
<1> HIDE DEF g
<1>7. ObjectFrameOK(g, object, Known)
  BY <1>1, <1>4, <1>6 DEF ObjectFrameOK
<1> QED BY <1>1, <1>2, <1>3, <1>5, <1>6, <1>7, ObjectFrameStep DEF f

(* CallProvider: user code that runs waits for the type of a Provider.        *)
LEMMA CallProviderStep ==
  ASSUME IInv, NEW t \in Thread, CallProvider(t)
  PROVE  IInv'
<1> DEFINE f == TopFrame(t)
<1>1. /\ calls[t] # <<>> /\ f.running /\ f.pending = {}
      /\ UNCHANGED <<status, mutexVars, raised, todo, graphVars, allocatorVars,
                     historyVars, budget, throws>>
  BY DEF CallProvider, Inside
<1>2. PICK d \in Lazy[f.node] : calls' = SetTop(t, [f EXCEPT !.pending = {d}])
  BY DEF CallProvider
<1> DEFINE g == [f EXCEPT !.pending = {d}]
<1>3. /\ f \in Frame /\ f.node # Call /\ f.node \in Creatable
      /\ ObjectFrameOK(f, object, Known)
  BY <1>1, RunningFrame
<1>4. /\ UNCHANGED <<onDestruction, allocated, raised>>
      /\ allocated' \in [Creatable -> Nat] /\ raised' \in [Thread -> BOOLEAN]
  BY <1>1 DEF allocatorVars, IInv, TypeOK
<1>5. d \in Type
  BY <1>3, GraphAssumption
<1> HIDE DEF f
<1>6. /\ g \in Frame /\ g.node = f.node /\ g.locks = f.locks
      /\ g.running = f.running /\ g.pending = {d} /\ g.args = f.args
  BY <1>3, <1>5 DEF Frame, Creatable
<1>7. calls' = SetTop(t, g)
  BY <1>2
<1> HIDE DEF g
<1>8. ObjectFrameOK(g, object, Known)
  BY <1>1, <1>2, <1>3, <1>6 DEF ObjectFrameOK
<1> QED BY <1>1, <1>3, <1>4, <1>6, <1>7, <1>8, ObjectFrameStep DEF f

(* Catch: user code goes on without what it waited for.                       *)
LEMMA CatchStep ==
  ASSUME IInv, NEW t \in Thread, Catch(t)
  PROVE  IInv'
<1> DEFINE f == TopFrame(t)
           g == [f EXCEPT !.pending = {}]
<1>1. /\ raised[t] /\ f.running /\ raised' = [raised EXCEPT ![t] = FALSE]
      /\ calls' = SetTop(t, g)
      /\ UNCHANGED <<status, mutexVars, todo, graphVars, allocatorVars,
                     historyVars, budget, throws>>
  BY DEF Catch
<1>2. calls[t] # <<>>
  BY <1>1 DEF IInv, StacksOK
<1>3. /\ f \in Frame /\ f.node # Call /\ f.node \in Creatable
      /\ ObjectFrameOK(f, object, Known)
  BY <1>1, <1>2, RunningFrame
<1>4. /\ UNCHANGED <<onDestruction, allocated>>
      /\ allocated' \in [Creatable -> Nat] /\ raised' \in [Thread -> BOOLEAN]
      /\ \A u \in Thread \ {t} : raised'[u] = raised[u]
  BY <1>1 DEF allocatorVars, IInv, TypeOK
<1> HIDE DEF f
<1>6. /\ g \in Frame /\ g.node = f.node /\ g.locks = f.locks
      /\ g.running = f.running /\ g.pending = {} /\ g.args = f.args
  BY <1>3 DEF Frame
<1> HIDE DEF g
<1>8. ObjectFrameOK(g, object, Known)
  BY <1>1, <1>3, <1>6 DEF ObjectFrameOK
<1> QED BY <1>1, <1>2, <1>3, <1>4, <1>6, <1>8, ObjectFrameStep DEF f

-----------------------------------------------------------------------------
(* Throw and Propagate: the frame is gone, the object was not created.        *)
LEMMA UnwindStep ==
  ASSUME IInv, NEW t \in Thread, Throw(t) \/ Propagate(t)
  PROVE  IInv'
<1>1. /\ calls[t] # <<>> /\ TopFrame(t).node # Call /\ PopFrame(t)
      /\ UNCHANGED <<status, owner, todo, graphVars, onDestruction, historyVars,
                     budget>>
  <2>1. CASE Throw(t)
    BY <2>1, RunningFrame DEF Throw, Inside
  <2>2. CASE Propagate(t)
    BY <2>2 DEF Propagate, allocatorVars, IInv, StacksOK
  <2> QED BY <2>1, <2>2
<1>2. /\ raised' \in [Thread -> BOOLEAN]
      /\ \A u \in Thread \ {t} : raised'[u] = raised[u]
  BY DEF Throw, Propagate, IInv, TypeOK
<1>3. throws' \in 0 .. MaxThrows
  BY NamesAssumption DEF Throw, Propagate, IInv, TypeOK
<1>4. allocated' \in [Creatable -> Nat]
  <2>1. CASE Throw(t)
    <3>1. TopFrame(t).node \in Creatable
      BY <1>1, <2>1, RunningFrame DEF Throw
    <3>2. \/ allocated' = allocated
          \/ allocated' = [allocated EXCEPT ![TopFrame(t).node] = @ + 1]
      BY <2>1 DEF Throw
    <3>3. allocated \in [Creatable -> Nat]
      BY DEF IInv, TypeOK
    <3> QED BY <3>1, <3>2, <3>3
  <2>2. CASE Propagate(t)
    BY <2>2 DEF Propagate, allocatorVars, IInv, TypeOK
  <2> QED BY <2>1, <2>2
<1>5. object' = object /\ vector' = vector /\ Known' = Known
  BY <1>1 DEF graphVars, historyVars, Known, Registered
<1>6. StackOK(Front(calls[t]), Head(todo[t]), object, vector, Known)
  BY <1>1, InsideProperties, StackPopped
<1>7. CallsOK'
  BY <1>1, <1>2, <1>5, <1>6, PopObjectFrame
<1> QED BY <1>1, <1>2, <1>3, <1>4, <1>7, FramesStep

(* LeaveWithException: the thread is outside, and its call is over.           *)
LEMMA LeaveWithExceptionStep ==
  ASSUME IInv, NEW t \in Thread, LeaveWithException(t)
  PROVE  IInv'
<1>1. /\ raised[t] /\ TopFrame(t).node = Call /\ PopFrame(t) /\ owner' = None
      /\ raised' = [raised EXCEPT ![t] = FALSE]
      /\ todo' = [todo EXCEPT ![t] = <<>>]
      /\ UNCHANGED <<status, graphVars, allocatorVars, historyVars, budget, throws>>
  BY DEF LeaveWithException
<1>2. calls[t] # <<>>
  BY <1>1 DEF IInv, StacksOK
<1>3. /\ raised' \in [Thread -> BOOLEAN] /\ ~raised'[t]
      /\ \A u \in Thread \ {t} : raised'[u] = raised[u]
  BY <1>1 DEF IInv, TypeOK
<1>4. CallsOK'
  BY <1>1, <1>2, <1>3, LeaveInjector
<1>5. UNCHANGED <<status, object, vector, onDestruction, allocated, created,
                  returned, uses, destroyed, eager, budget, throws>>
  BY <1>1 DEF graphVars, allocatorVars, historyVars
<1>6. DataOK'
  BY <1>1, <1>5, DataUnchanged
<1>7. /\ todo' \in [Thread -> Seq(Target)] /\ todo'[t] = <<>>
      /\ \A u \in Thread \ {t} : todo'[u] = todo[u]
  BY <1>1 DEF IInv, TypeOK
<1>8. TodoListOK(<<>>, object)
  BY DEF TodoListOK, ToSet
<1>9. TodoOK'
  BY <1>5, <1>7, <1>8 DEF IInv, TodoOK
<1>10. RestOK'
  BY <1>3, <1>5, <1>7 DEF IInv, TypeOK, RestOK
<1> QED BY <1>4, <1>6, <1>9, <1>10, IInvNext

(* ProviderReturnsNull, StartDestruction, FinishDestruction: the status alone  *)
(* changes.                                                                   *)
LEMMA StatusStep ==
  ASSUME IInv, status' \in {"destroying", "destroyed", "fatal"},
         UNCHANGED <<mutexVars, callVars, graphVars, allocatorVars, historyVars,
                     budget, throws>>
  PROVE  IInv'
<1>1. UNCHANGED <<raised, todo, object, vector, onDestruction, allocated, created,
                  returned, uses, destroyed, eager, budget, throws>>
  BY DEF callVars, graphVars, allocatorVars, historyVars
<1>2. DataOK' /\ Known' = Known
  BY <1>1, DataUnchanged
<1>3. CallsOK' /\ TodoOK'
  BY <1>2, CallsUnchanged
<1>4. RestOK'
  BY <1>1 DEF IInv, TypeOK, RestOK
<1> QED BY <1>2, <1>3, <1>4, IInvNext

-----------------------------------------------------------------------------
(* The steps that change the data.  Return: what was asked for is built, so    *)
(* the call returns the one object or vector there is.                        *)
LEMMA ReturnTarget ==
  ASSUME IInv, NEW t \in Thread, Return(t)
  PROVE  /\ calls[t] # <<>> /\ TopFrame(t).node = Call
         /\ Head(todo[t]) \in Target
         /\ Head(todo[t]) \in Type => Result(Head(todo[t])) = object[Head(todo[t])]
                                      /\ object[Head(todo[t])] # None
         /\ Head(todo[t]) \in MultiType =>
              Result(Head(todo[t])) = vector[Head(todo[t])]
              /\ vector[Head(todo[t])] # None
         /\ Head(todo[t]) = AllMultibindings => \A m \in MultiType : vector[m] # None
<1> DEFINE h == Head(todo[t])
           f == TopFrame(t)
<1>1. calls[t] # <<>> /\ f.node = Call /\ f.pending = {}
  BY DEF Return, Inside
<1>2. CallFrameOK(f, h, object, vector)
  BY <1>1, InsideProperties
<1> HIDE DEF f, h
<1>3. h \in Target
  BY <1>2 DEF CallFrameOK
<1>4. ASSUME h \in Type PROVE Result(h) = object[h] /\ object[h] # None
  <2>1. h \notin MultiType /\ h # AllMultibindings
    BY <1>4, NamesAssumption DEF Creatable
  <2> QED BY <1>1, <1>2, <2>1 DEF CallFrameOK, Built, Result
<1>5. ASSUME h \in MultiType PROVE Result(h) = vector[h] /\ vector[h] # None
  <2>1. h # AllMultibindings
    BY <1>5, NamesAssumption
  <2> QED BY <1>1, <1>2, <1>5, <2>1 DEF CallFrameOK, Built, Result
<1>6. h = AllMultibindings => \A m \in MultiType : vector[m] # None
  BY <1>1, <1>2 DEF CallFrameOK
<1> QED BY <1>1, <1>3, <1>4, <1>5, <1>6 DEF f, h

(* A call that returns to the program gives up the mutex.                     *)
LEMMA ReturnStep ==
  ASSUME IInv, NEW t \in Thread, Return(t)
  PROVE  IInv'
<1> DEFINE h == Head(todo[t])
<1>1. /\ PopFrame(t) /\ owner' = None
      /\ todo' = [todo EXCEPT ![t] = Tail(@)]
      /\ eager' = (eager \/ h = AllMultibindings)
      /\ returned' = IF h = AllMultibindings THEN returned
                     ELSE [returned EXCEPT ![h] = @ \cup {Result(h)}]
      /\ UNCHANGED <<status, raised, object, vector, onDestruction, allocated,
                     created, uses, destroyed, budget, throws>>
      /\ ~raised[t]
  BY DEF Return, Inside, graphVars, allocatorVars
<1>2. /\ calls[t] # <<>> /\ TopFrame(t).node = Call
      /\ h \in Target
      /\ h \in Type => Result(h) = object[h] /\ object[h] # None
      /\ h \in MultiType => Result(h) = vector[h] /\ vector[h] # None
      /\ h = AllMultibindings => \A m \in MultiType : vector[m] # None
  BY ReturnTarget
<1>3. CallsOK'
  BY <1>1, <1>2, LeaveInjector
<1>4. /\ todo[t] \in Seq(Target) /\ todo[t] # <<>> /\ TodoListOK(todo[t], object)
      /\ todo \in [Thread -> Seq(Target)]
  BY <1>2, InsideProperties DEF IInv, TodoOK, TypeOK
<1>5. /\ Len(todo[t]) \in Nat \ {0} /\ DOMAIN todo[t] = 1 .. Len(todo[t])
      /\ h = todo[t][1]
      /\ Tail(todo[t]) \in Seq(Target) /\ Len(Tail(todo[t])) = Len(todo[t]) - 1
      /\ DOMAIN Tail(todo[t]) = 1 .. Len(todo[t]) - 1
      /\ \A i \in 1 .. Len(todo[t]) - 1 : Tail(todo[t])[i] = todo[t][i + 1]
  BY <1>4, LastProperties, HeadTailProperties, LenProperties
<1> HIDE DEF h
<1>6. TodoListOK(Tail(todo[t]), object)
  <2>1. ASSUME NEW i \in DOMAIN Tail(todo[t]), Tail(todo[t])[i] = AllMultibindings
        PROVE  i = Len(Tail(todo[t]))
    <3>1. i + 1 \in DOMAIN todo[t] /\ todo[t][i + 1] = AllMultibindings
      BY <1>5, <2>1
    <3>2. i + 1 = Len(todo[t])
      BY <1>4, <3>1 DEF TodoListOK
    <3> QED BY <1>5, <3>2
  <2>2. ASSUME AllMultibindings \in ToSet(Tail(todo[t])), NEW n \in ToSet(Exposed)
        PROVE  n \in ToSet(Tail(todo[t])) \/ object[n] # None
    <3>1. PICK i \in 1 .. Len(todo[t]) - 1 : todo[t][i + 1] = AllMultibindings
      BY <1>5, <2>2 DEF ToSet
    <3>2. i + 1 \in DOMAIN todo[t] /\ i + 1 # 1 /\ 1 \in DOMAIN todo[t]
      BY <1>5
    <3>3. n \in ToSet(todo[t]) \/ object[n] # None
      BY <1>4, <2>2, <3>1, <3>2 DEF TodoListOK, ToSet
    <3>4. h # AllMultibindings
      BY <1>4, <1>5, <3>1, <3>2 DEF TodoListOK
    <3>5. n \in Type
      BY <2>2, GraphAssumption, ElementOfSeq, LenProperties DEF ToSet
    <3>6. n = h => object[n] # None
      BY <1>2, <3>5
    <3>7. ASSUME n \in ToSet(todo[t]), n # h
          PROVE  n \in ToSet(Tail(todo[t]))
      <4>1. PICK j \in DOMAIN todo[t] : todo[t][j] = n
        BY <3>7 DEF ToSet
      <4>2. j # 1
        BY <1>5, <3>7, <4>1
      <4>3. j - 1 \in 1 .. Len(todo[t]) - 1 /\ (j - 1) + 1 = j
        BY <1>5, <4>2
      <4>4. Tail(todo[t])[j - 1] = n
        BY <1>5, <4>1, <4>3
      <4> QED BY <1>5, <4>3, <4>4 DEF ToSet
    <3> QED BY <3>3, <3>6, <3>7
  <2> QED BY <2>1, <2>2 DEF TodoListOK
<1>7. /\ todo' \in [Thread -> Seq(Target)] /\ todo'[t] = Tail(todo[t])
      /\ \A u \in Thread \ {t} : todo'[u] = todo[u]
  BY <1>1, <1>4, <1>5
<1>8. TodoOK'
  BY <1>1, <1>6, <1>7 DEF IInv, TodoOK
<1>9. EagerOK'
  <2>1. SUFFICES ASSUME h = AllMultibindings, NEW n \in ToSet(Exposed)
                 PROVE  object[n] # None
    BY <1>1, <1>2 DEF EagerOK, IInv, DataOK
  <2>2. 1 \in DOMAIN todo[t] /\ todo[t][1] = AllMultibindings
    BY <1>5, <2>1
  <2>3. Len(todo[t]) = 1
    BY <1>4, <2>2 DEF TodoListOK
  <2>4. n \in ToSet(todo[t]) \/ object[n] # None
    BY <1>4, <2>1, <2>2 DEF TodoListOK, ToSet
  <2>5. n \in ToSet(todo[t]) => n = AllMultibindings
    BY <1>5, <2>2, <2>3 DEF ToSet
  <2>6. n \in Type
    BY <2>1, GraphAssumption, ElementOfSeq, LenProperties DEF ToSet
  <2> QED BY <2>4, <2>5, <2>6, NamesAssumption DEF Creatable
<1>10. /\ DOMAIN returned' = Type \cup MultiType
       /\ \A n \in Type : returned'[n] \subseteq {object[n]} \ {None}
       /\ \A m \in MultiType : returned'[m] \subseteq {vector[m]} \ {None}
  <2>1. /\ DOMAIN returned = Type \cup MultiType
        /\ \A n \in Type : returned[n] \subseteq {object[n]} \ {None}
        /\ \A m \in MultiType : returned[m] \subseteq {vector[m]} \ {None}
    BY DEF IInv, TypeOK, DataOK, ReturnedOK
  <2>2. CASE h = AllMultibindings
    BY <1>1, <2>1, <2>2
  <2>3. CASE h # AllMultibindings
    <3>1. h \in Type \cup MultiType
      BY <1>2, <2>3 DEF Target
    <3>2. DOMAIN returned' = Type \cup MultiType
      BY <1>1, <2>1, <2>3
    <3>3. ASSUME NEW n \in Type \cup MultiType
          PROVE  returned'[n] = IF n = h THEN returned[n] \cup {Result(h)}
                                         ELSE returned[n]
      BY <1>1, <2>1, <2>3
    <3>4. ASSUME NEW n \in Type
          PROVE  returned'[n] \subseteq {object[n]} \ {None}
      <4>1. CASE n = h
        BY <1>2, <2>1, <3>3, <4>1, ZenonT(30)
      <4>2. CASE n # h
        BY <2>1, <3>3, <4>2
      <4> QED BY <4>1, <4>2
    <3>5. ASSUME NEW m \in MultiType
          PROVE  returned'[m] \subseteq {vector[m]} \ {None}
      <4>1. CASE m = h
        BY <1>2, <2>1, <3>3, <4>1, ZenonT(30)
      <4>2. CASE m # h
        BY <2>1, <3>3, <4>2
      <4> QED BY <4>1, <4>2
    <3> QED BY <3>2, <3>4, <3>5
  <2> QED BY <2>2, <2>3
<1>11. /\ \A n \in Type : returned'[n] \subseteq Object
       /\ \A m \in MultiType : returned'[m] \subseteq Seq(Object)
  BY <1>10 DEF IInv, TypeOK, Creatable
<1>12. RestOK'
  BY <1>1, <1>7, <1>10, <1>11 DEF IInv, TypeOK, RestOK
<1>13. ReturnedOK'
  BY <1>1, <1>10 DEF ReturnedOK
<1>14. ObjectsOK' /\ CreatedOK' /\ AliveOK' /\ VectorsAreComplete'
  BY <1>1 DEF IInv, DataOK, ObjectsOK, CreatedOK, AliveOK, VectorsAreComplete,
              Known, Registered
<1>15. UsesOK' /\ OwnedExactlyOnce'
  BY <1>1 DEF IInv, DataOK, UsesOK, OwnedExactlyOnce, Constructed, Known, Registered
<1>16. DataOK'
  BY <1>9, <1>13, <1>14, <1>15 DEF DataOK
<1> QED BY <1>3, <1>8, <1>12, <1>16, IInvNext

(* An object is added under the node of the innermost frame, and the frame     *)
(* is popped.                                                                 *)
LEMMA ObjectAdded ==
  ASSUME IInv, NEW t \in Thread, calls[t] # <<>>,
         NEW n \in Creatable, n = TopFrame(t).node, object[n] = None,
         NEW o \in Object, object' = [object EXCEPT ![n] = o],
         Known \subseteq Known', PopFrame(t),
         UNCHANGED <<status, owner, raised, todo, vector, returned, destroyed, eager>>
  PROVE  /\ CallsOK' /\ TodoOK'
         /\ ReturnedOK' /\ EagerOK' /\ VectorsAreComplete' /\ AliveOK'
         /\ object' \in [Creatable -> Object \cup {None}]
         /\ object'[n] = o /\ o # None
         /\ \A m \in Creatable : object[m] # None => object'[m] = object[m]
<1>1. /\ object \in [Creatable -> Object \cup {None}]
      /\ n \notin MultiType /\ n # Call /\ o # None
  BY NamesAssumption DEF IInv, TypeOK
<1>2. /\ object' \in [Creatable -> Object \cup {None}] /\ object'[n] = o
      /\ \A m \in Creatable \ {n} : object'[m] = object[m]
      /\ \A m \in Creatable : object[m] # None => object'[m] = object[m]
  BY <1>1
<1>3. CallsOK'
  <2> DEFINE s == Front(calls[t])
             h == Head(todo[t])
  <2>1. /\ calls[t] \in Seq(Frame) /\ Last(calls[t]).node = n
        /\ StackOK(calls[t], h, object, vector, Known)
    BY InsideProperties
  <2>2. s \in Seq(Frame) /\ StackOK(s, h, object, vector, Known)
    BY <2>1, FrontProperties, StackPopped
  <2>3. ASSUME NEW i \in DOMAIN s \ {1}
        PROVE  ~Built(s[i].node, object', vector')
    <3>1. s[i].node # n /\ FrameOK(s[i], object, vector, Known)
      BY <2>1, PoppedNode
    <3>2. s[i].node \in Creatable \cup MultiType /\ ~Built(s[i].node, object, vector)
      BY <3>1 DEF FrameOK
    <3> HIDE DEF s
    <3> QED BY <1>2, <3>1, <3>2 DEF Built
  <2>4. None \notin Known
    BY KnownProperties DEF IInv
  <2> HIDE DEF s, h
  <2>5. StackOK(s, h, object', vector', Known')
    <3>1. \A m \in MultiType : vector[m] # None => vector'[m] = vector[m]
      OBVIOUS
    <3> QED BY <1>2, <2>2, <2>3, <2>4, <3>1, StackStable
  <2> QED BY <1>1, <2>5, PopObjectFrame DEF s, h
<1>4. ASSUME NEW m \in Type PROVE m \in Creatable
  BY DEF Creatable
<1>5. \A m \in ToSet(Exposed) : m \in Creatable
  BY GraphAssumption, ElementOfSeq, LenProperties DEF ToSet, Creatable
<1>6. TodoOK'
  BY <1>2, <1>5 DEF IInv, TodoOK, TodoListOK
<1>7. ReturnedOK'
  <2>1. ASSUME NEW m \in Type
        PROVE  returned[m] \subseteq {object'[m]} \ {None}
    <3>1. returned[m] \subseteq {object[m]} \ {None}
      BY DEF IInv, DataOK, ReturnedOK
    <3> QED BY <1>2, <1>4, <3>1
  <2> QED BY <2>1 DEF IInv, DataOK, ReturnedOK
<1>8. EagerOK'
  BY <1>2, <1>5 DEF IInv, DataOK, EagerOK
<1>9. VectorsAreComplete'
  <2>1. \A m \in MultiType : \A i \in DOMAIN Elements[m] : Elements[m][i] \in Creatable
    BY GraphAssumption, ElementOfSeq, LenProperties DEF Creatable
  <2> QED BY <1>2, <2>1 DEF IInv, DataOK, VectorsAreComplete
<1>10. AliveOK'
  BY DEF IInv, DataOK, AliveOK
<1> QED BY <1>1, <1>2, <1>3, <1>6, <1>7, <1>8, <1>9, <1>10

(* FinishBind: the object is that of the type it is bound to.                 *)
LEMMA FinishBindStep ==
  ASSUME IInv, NEW t \in Thread, FinishBind(t)
  PROVE  IInv'
<1> DEFINE f == TopFrame(t)
           n == f.node
<1>1. /\ calls[t] # <<>> /\ n \in Creatable /\ Kind[n] = "bind" /\ f.pending = {}
      /\ PopFrame(t)
      /\ UNCHANGED <<status, owner, raised, todo, vector, onDestruction, allocated,
                     created, returned, uses, destroyed, eager, budget, throws>>
  BY DEF FinishBind, Inside, allocatorVars, historyVars
<1>2. PICK o \in f.args : object' = [object EXCEPT ![n] = o]
  BY DEF FinishBind
<1>3. n # Call /\ n \notin MultiType
  BY <1>1, NamesAssumption
<1>4. FrameOK(f, object, vector, Known)
  BY <1>1, <1>3, InsideProperties
<1>5. ObjectFrameOK(f, object, Known) /\ object[n] = None
  BY <1>1, <1>3, <1>4 DEF FrameOK, Built
<1>6. ~f.running
  BY <1>1, <1>5 DEF ObjectFrameOK, RunsUserCode
<1>7. /\ o \in Known /\ o \in Object
      /\ \A d \in Needs[n] : object[d] \in Known /\ object[d] # None
  BY <1>1, <1>5, <1>6, KnownProperties DEF ObjectFrameOK, IInv
<1>8. Known' = Known /\ Registered' = Registered
  BY <1>1 DEF Known, Registered
<1> HIDE DEF f
<1>9. /\ CallsOK' /\ TodoOK'
      /\ ReturnedOK' /\ EagerOK' /\ VectorsAreComplete' /\ AliveOK'
      /\ object' \in [Creatable -> Object \cup {None}]
      /\ object'[n] = o /\ o # None
      /\ \A m \in Creatable : object[m] # None => object'[m] = object[m]
  <2> HIDE DEF n
  <2> QED BY <1>1, <1>2, <1>5, <1>7, <1>8, ObjectAdded DEF n, f
<1> HIDE DEF n
<1>10. RestOK'
  BY <1>1, <1>9 DEF IInv, TypeOK, RestOK
<1>11. ObjectsOK'
  <2>1. SUFFICES ASSUME NEW m \in Creatable, object'[m] # None
                 PROVE  /\ object'[m] \in Known
                        /\ \A d \in Needs[m] :
                             /\ object'[d] # None
                             /\ Kind[m] # "bind" =>
                                  <<object'[m], object'[d]>> \in uses
    BY <1>1, <1>8 DEF ObjectsOK
  <2>2. \A d \in Needs[m] : d \in Creatable
    BY GraphAssumption DEF Creatable
  <2>3. CASE m = n
    BY <1>1, <1>7, <1>9, <2>2, <2>3
  <2>4. CASE m # n
    <3>1. object[m] # None /\ object'[m] = object[m]
      BY <1>1, <1>2, <2>1, <2>4 DEF IInv, TypeOK
    <3> QED BY <1>9, <2>2, <3>1 DEF IInv, DataOK, ObjectsOK
  <2> QED BY <2>3, <2>4
<1>12. CreatedOK'
  <2>1. SUFFICES ASSUME NEW m \in Creatable, created[m] > 0
                 PROVE  object'[m] = object[m]
    BY <1>1 DEF IInv, DataOK, CreatedOK
  <2>2. object[m] = [of |-> m, nth |-> 1] /\ [of |-> m, nth |-> 1] \in Object
    BY <2>1 DEF IInv, DataOK, CreatedOK, Object
  <2> QED BY <1>9, <2>2, NamesAssumption
<1>13. UsesOK' /\ OwnedExactlyOnce'
  BY <1>1, <1>8 DEF IInv, DataOK, UsesOK, OwnedExactlyOnce, Constructed
<1>14. DataOK'
  BY <1>9, <1>11, <1>12, <1>13 DEF DataOK
<1> QED BY <1>9, <1>10, <1>14, IInvNext

(* FinishVector: every element of the set has been created.                   *)
LEMMA FinishVectorStep ==
  ASSUME IInv, NEW t \in Thread, FinishVector(t)
  PROVE  IInv'
<1> DEFINE f == TopFrame(t)
           n == f.node
           v == [i \in DOMAIN Elements[n] |-> object[Elements[n][i]]]
<1>1. /\ calls[t] # <<>> /\ n \in MultiType /\ f.pending = {}
      /\ PopFrame(t)
      /\ vector' = [vector EXCEPT ![n] = v]
      /\ UNCHANGED <<status, owner, raised, todo, object, onDestruction, allocated,
                     created, returned, uses, destroyed, eager, budget, throws>>
  BY DEF FinishVector, Inside, allocatorVars, historyVars
<1>2. n # Call /\ n \notin Creatable
  BY <1>1, NamesAssumption
<1>3. FrameOK(f, object, vector, Known)
  BY <1>1, <1>2, InsideProperties
<1>4. VectorFrameOK(f, object) /\ vector[n] = None
  BY <1>1, <1>3 DEF FrameOK, Built
<1>5. /\ object \in [Creatable -> Object \cup {None}]
      /\ vector \in [MultiType -> Seq(Object) \cup {None}]
  BY DEF IInv, TypeOK
<1>6. /\ Elements[n] \in Seq(Element) /\ Len(Elements[n]) \in Nat
      /\ DOMAIN Elements[n] = 1 .. Len(Elements[n])
      /\ \A i \in DOMAIN Elements[n] : Elements[n][i] \in Creatable
  BY <1>1, GraphAssumption, ElementOfSeq, LenProperties DEF Creatable
<1>7. ASSUME NEW i \in DOMAIN Elements[n]
      PROVE  object[Elements[n][i]] # None /\ object[Elements[n][i]] \in Object
  <2>1. Elements[n][i] \in ToSet(Elements[n])
    BY DEF ToSet
  <2> QED BY <1>1, <1>4, <1>5, <1>6, <2>1 DEF VectorFrameOK
<1> HIDE DEF f, n
<1>8. /\ v \in Seq(Object) /\ Len(v) = Len(Elements[n]) /\ v # None
      /\ \A i \in DOMAIN Elements[n] : v[i] = object[Elements[n][i]]
  <2>1. v \in [1 .. Len(Elements[n]) -> Object]
    BY <1>6, <1>7
  <2>2. v \in Seq(Object)
    BY <1>6, <2>1, IsASeq
  <2>3. DOMAIN v = 1 .. Len(v) /\ Len(v) \in Nat /\ DOMAIN v = 1 .. Len(Elements[n])
    BY <2>1, <2>2, LenProperties
  <2>4. Len(v) = Len(Elements[n])
    BY <1>6, <2>2, <2>1, LenProperties
  <2> QED BY <2>2, <2>4, NamesAssumption
<1> HIDE DEF v
<1>9. /\ vector' \in [MultiType -> Seq(Object) \cup {None}] /\ vector'[n] = v
      /\ \A m \in MultiType \ {n} : vector'[m] = vector[m]
      /\ \A m \in MultiType : vector[m] # None => vector'[m] = vector[m]
  BY <1>1, <1>4, <1>5, <1>8
<1>10. Known' = Known /\ Registered' = Registered
  BY <1>1 DEF Known, Registered
<1>11. CallsOK'
  <2> DEFINE s == Front(calls[t])
             h == Head(todo[t])
  <2>1. /\ calls[t] \in Seq(Frame) /\ Last(calls[t]).node = n
        /\ StackOK(calls[t], h, object, vector, Known)
    BY <1>1, InsideProperties DEF f, n
  <2>2. s \in Seq(Frame) /\ StackOK(s, h, object, vector, Known)
    BY <1>1, <2>1, FrontProperties, StackPopped
  <2>3. ASSUME NEW i \in DOMAIN s \ {1}
        PROVE  ~Built(s[i].node, object, vector')
    <3>1. s[i].node # n /\ FrameOK(s[i], object, vector, Known)
      BY <1>1, <2>1, PoppedNode
    <3>2. s[i].node \in Creatable \cup MultiType /\ ~Built(s[i].node, object, vector)
      BY <3>1 DEF FrameOK
    <3> HIDE DEF s
    <3> QED BY <1>9, <3>1, <3>2 DEF Built
  <2>4. None \notin Known
    BY KnownProperties DEF IInv
  <2> HIDE DEF s, h
  <2>5. StackOK(s, h, object, vector', Known)
    BY <1>9, <2>2, <2>3, <2>4, StackStable
  <2> QED BY <1>1, <1>2, <1>10, <2>5, PopObjectFrame DEF s, h, f, n
<1>12. RestOK' /\ TodoOK'
  BY <1>1, <1>9 DEF IInv, TypeOK, RestOK, TodoOK
<1>13. ReturnedOK'
  BY <1>1, <1>9 DEF IInv, DataOK, ReturnedOK
<1>14. EagerOK'
  BY <1>1, <1>9 DEF IInv, DataOK, EagerOK
<1>15. VectorsAreComplete'
  <2>1. SUFFICES ASSUME NEW m \in MultiType, vector'[m] # None
                 PROVE  /\ Len(vector'[m]) = Len(Elements[m])
                        /\ \A i \in DOMAIN Elements[m] :
                             /\ vector'[m][i] # None
                             /\ vector'[m][i] = object[Elements[m][i]]
    BY <1>1 DEF VectorsAreComplete
  <2>2. CASE m = n
    BY <1>7, <1>8, <1>9, <2>2
  <2>3. CASE m # n
    BY <1>9, <2>1, <2>3 DEF IInv, DataOK, VectorsAreComplete
  <2> QED BY <2>2, <2>3
<1>16. ObjectsOK' /\ CreatedOK' /\ AliveOK'
  BY <1>1, <1>10 DEF IInv, DataOK, ObjectsOK, CreatedOK, AliveOK
<1>17. UsesOK' /\ OwnedExactlyOnce'
  BY <1>1, <1>10 DEF IInv, DataOK, UsesOK, OwnedExactlyOnce, Constructed
<1>18. DataOK'
  BY <1>13, <1>14, <1>15, <1>16, <1>17 DEF DataOK
<1> QED BY <1>11, <1>12, <1>18, IInvNext

(* The object that FinishConstructor completes is a new one.                  *)
LEMMA NewObject ==
  ASSUME IInv, NEW n \in Creatable, object[n] = None
  PROVE  /\ created[n] = 0
         /\ [of |-> n, nth |-> 1] \in Object
         /\ [of |-> n, nth |-> 1] \notin Known
<1> DEFINE o == [of |-> n, nth |-> 1]
<1>1. o \in Object
  BY DEF Object
<1>2. created[n] = 0
  <2>1. created[n] \in Nat
    BY DEF IInv, TypeOK
  <2>2. ~(created[n] > 0)
    BY <1>1, NamesAssumption DEF IInv, DataOK, CreatedOK
  <2> QED BY <2>1, <2>2
<1>3. o \notin Constructed
  <2>1. SUFFICES ASSUME NEW m \in Creatable, created[m] > 0,
                        o = [of |-> m, nth |-> 1]
                 PROVE  FALSE
    BY DEF Constructed
  <2>2. o.of = n /\ o.of = m
    BY <2>1
  <2> QED BY <1>2, <2>1, <2>2
<1>4. o \notin Registered
  BY <1>3 DEF IInv, DataOK, OwnedExactlyOnce, Registered
<1>5. \A m \in Creatable : o # [of |-> m, nth |-> 0]
  <2>1. TAKE m \in Creatable
  <2>2. o.nth = 1 /\ [of |-> m, nth |-> 0].nth = 0
    OBVIOUS
  <2> QED BY <2>2
<1> QED BY <1>1, <1>2, <1>4, <1>5 DEF Known

(* FinishConstructor: the object is complete, after all its arguments.        *)
LEMMA FinishConstructorStep ==
  ASSUME IInv, NEW t \in Thread, FinishConstructor(t)
  PROVE  IInv'
<1> DEFINE f == TopFrame(t)
           n == f.node
           o == [of |-> n, nth |-> 1]
           k == Len(onDestruction)
<1>1. /\ calls[t] # <<>> /\ f.running /\ f.pending = {} /\ status = "alive"
      /\ PopFrame(t)
      /\ created' = [created EXCEPT ![n] = @ + 1]
      /\ object' = [object EXCEPT ![n] = [of |-> n, nth |-> created[n] + 1]]
      /\ uses' = uses \cup ({[of |-> n, nth |-> created[n] + 1]} \X f.args)
      /\ onDestruction' = Append(onDestruction, [of |-> n, nth |-> created[n] + 1])
      /\ allocated' = IF Kind[n] = "value_provider"
                        THEN [allocated EXCEPT ![n] = @ + 1] ELSE allocated
      /\ UNCHANGED <<status, owner, raised, todo, vector, returned, destroyed,
                     eager, budget, throws>>
  BY DEF FinishConstructor, Inside
<1>2. /\ f \in Frame /\ n \in Creatable /\ RunsUserCode(n) /\ object[n] = None
      /\ ObjectFrameOK(f, object, Known)
  BY <1>1, RunningFrame
<1> HIDE DEF f
<1>3. created[n] = 0 /\ o \in Object /\ o \notin Known
  BY <1>2, NewObject
<1>4. [of |-> n, nth |-> created[n] + 1] = o
  BY <1>3
<1>5. /\ object' = [object EXCEPT ![n] = o]
      /\ uses' = uses \cup ({o} \X f.args)
      /\ onDestruction' = Append(onDestruction, o)
  BY <1>1, <1>4
<1> HIDE DEF o
<1>6. /\ onDestruction \in Seq(Object) /\ k \in Nat /\ DOMAIN onDestruction = 1 .. k
      /\ onDestruction' \in Seq(Object) /\ DOMAIN onDestruction' = 1 .. k + 1
      /\ \A i \in 1 .. k : onDestruction'[i] = onDestruction[i]
      /\ onDestruction'[k + 1] = o
  BY <1>3, <1>5, AppendedProperties, LenProperties DEF IInv, TypeOK
<1> HIDE DEF k
<1>7. ToSet(onDestruction') = ToSet(onDestruction) \cup {o}
  BY <1>6 DEF ToSet
<1>8. Registered' = Registered \cup {o} /\ Known' = Known \cup {o}
  BY <1>1, <1>7 DEF Registered, Known
<1>9. destroyed = {} /\ destroyed' = {}
  BY <1>1 DEF IInv, DataOK, AliveOK
<1>10. f.args \subseteq Known /\ \A d \in Needs[n] : object[d] \in f.args
  BY <1>1, <1>2 DEF ObjectFrameOK
<1>11. /\ CallsOK' /\ TodoOK'
       /\ ReturnedOK' /\ EagerOK' /\ VectorsAreComplete' /\ AliveOK'
       /\ object' \in [Creatable -> Object \cup {None}]
       /\ object'[n] = o /\ o # None
       /\ \A m \in Creatable : object[m] # None => object'[m] = object[m]
  <2> HIDE DEF n
  <2> QED BY <1>1, <1>2, <1>3, <1>5, <1>8, ObjectAdded DEF n, f
<1>12. Known \subseteq Object /\ None \notin Known
  BY KnownProperties DEF IInv
<1>13. /\ created \in [Creatable -> Nat] /\ created' \in [Creatable -> Nat]
       /\ created'[n] = 1
       /\ \A m \in Creatable \ {n} : created'[m] = created[m]
  BY <1>1, <1>2, <1>3 DEF IInv, TypeOK
<1>14. RestOK'
  <2>1. uses' \subseteq Object \X Object
    BY <1>3, <1>5, <1>10, <1>12 DEF IInv, TypeOK
  <2>2. allocated' \in [Creatable -> Nat]
    BY <1>1, <1>2, SMTT(30) DEF IInv, TypeOK
  <2> QED BY <1>1, <1>6, <1>11, <1>13, <2>1, <2>2 DEF IInv, TypeOK, RestOK
<1> HIDE DEF n
<1>15. ObjectsOK'
  <2>1. SUFFICES ASSUME NEW m \in Creatable, object'[m] # None
                 PROVE  /\ object'[m] \in Known'
                        /\ \A d \in Needs[m] :
                             /\ object'[d] # None
                             /\ Kind[m] # "bind" =>
                                  <<object'[m], object'[d]>> \in uses'
    BY DEF ObjectsOK
  <2>2. \A d \in Needs[m] : d \in Creatable
    BY GraphAssumption DEF Creatable
  <2>3. CASE m = n
    <3>1. ASSUME NEW d \in Needs[m]
          PROVE  object'[d] = object[d] /\ object[d] # None
                 /\ <<o, object[d]>> \in uses'
      BY <1>5, <1>10, <1>11, <1>12, <2>2, <2>3
    <3> QED BY <1>8, <1>11, <2>3, <3>1
  <2>4. CASE m # n
    <3>1. object[m] # None /\ object'[m] = object[m]
      BY <1>2, <1>5, <2>1, <2>4 DEF IInv, TypeOK
    <3>2. /\ object[m] \in Known
          /\ \A d \in Needs[m] :
               /\ object[d] # None
               /\ Kind[m] # "bind" => <<object[m], object[d]>> \in uses
      BY <3>1 DEF IInv, DataOK, ObjectsOK
    <3> QED BY <1>5, <1>8, <1>11, <2>2, <3>1, <3>2
  <2> QED BY <2>3, <2>4
<1>16. CreatedOK'
  <2>1. SUFFICES ASSUME NEW m \in Creatable
                 PROVE  /\ created'[m] <= 1
                        /\ created'[m] > 0 => RunsUserCode(m)
                             /\ object'[m] = [of |-> m, nth |-> 1]
    BY DEF CreatedOK
  <2>2. CASE m = n
    BY <1>2, <1>11, <1>13, <2>2 DEF o, n
  <2>3. CASE m # n
    <3>1. /\ created[m] <= 1 /\ created'[m] = created[m]
          /\ created[m] > 0 => RunsUserCode(m) /\ object[m] = [of |-> m, nth |-> 1]
      BY <1>13, <2>3 DEF IInv, DataOK, CreatedOK
    <3>2. [of |-> m, nth |-> 1] \in Object
      BY DEF Object
    <3> QED BY <1>11, <3>1, <3>2, NamesAssumption
  <2> QED BY <2>2, <2>3
<1>17. UsesOK'
  <2>1. SUFFICES ASSUME NEW pair \in uses'
                 PROVE  /\ pair[1] \in Registered' /\ pair[2] \in Known'
                        /\ \A i, j \in DOMAIN onDestruction' :
                             onDestruction'[i] = pair[1] /\ onDestruction'[j] = pair[2]
                               => j < i
    BY <1>9 DEF UsesOK
  <2>2. \A i \in DOMAIN onDestruction' :
          onDestruction'[i] = o => i = k + 1
    <3>1. \A i \in 1 .. k : onDestruction[i] \in Known
      BY <1>6 DEF Known, Registered, ToSet
    <3> QED BY <1>3, <1>6, <3>1
  <2>3. CASE pair \in uses
    <3>1. /\ pair[1] \in Registered /\ pair[2] \in Known
          /\ \A i, j \in DOMAIN onDestruction :
               onDestruction[i] = pair[1] /\ onDestruction[j] = pair[2] => j < i
      BY <2>3 DEF IInv, DataOK, UsesOK
    <3>2. pair[1] # o /\ pair[2] # o
      BY <1>3, <3>1 DEF Known
    <3>3. ASSUME NEW i \in DOMAIN onDestruction', onDestruction'[i] # o
          PROVE  i \in DOMAIN onDestruction /\ onDestruction'[i] = onDestruction[i]
      BY <1>6, <3>3
    <3> QED BY <1>8, <3>1, <3>2, <3>3
  <2>4. CASE pair \in {o} \X f.args
    <3>1. pair[1] = o /\ pair[2] \in Known /\ pair[2] # o
      BY <1>3, <1>10, <2>4
    <3>2. \A j \in DOMAIN onDestruction' : onDestruction'[j] # o => j < k + 1
      BY <1>6
    <3> QED BY <1>8, <2>2, <3>1, <3>2
  <2> QED BY <1>5, <2>1, <2>3, <2>4
<1>18. OwnedExactlyOnce'
  <2>1. /\ IsInjective(onDestruction)
        /\ ToSet(onDestruction) \cup destroyed = Constructed
    BY DEF IInv, DataOK, OwnedExactlyOnce
  <2>2. IsInjective(onDestruction')
    <3>1. \A i \in 1 .. k : onDestruction[i] \in Known
      BY <1>6 DEF Known, Registered, ToSet
    <3>2. \A i, j \in 1 .. k : onDestruction[i] = onDestruction[j] => i = j
      BY <1>6, <2>1 DEF IsInjective
    <3>3. ASSUME NEW i \in 1 .. k + 1, NEW j \in 1 .. k + 1,
                 onDestruction'[i] = onDestruction'[j]
          PROVE  i = j
      BY <1>3, <1>6, <3>1, <3>2, <3>3
    <3> QED BY <1>6, <3>3 DEF IsInjective
  <2>3. Constructed' = Constructed \cup {o}
    <3>1. {m \in Creatable : created'[m] > 0}
            = {m \in Creatable : created[m] > 0} \cup {n}
      BY <1>2, <1>3, <1>13 DEF n
    <3>2. ASSUME NEW S
          PROVE  {[of |-> m, nth |-> 1] : m \in S \cup {n}}
                   = {[of |-> m, nth |-> 1] : m \in S} \cup {o}
      BY DEF o, n
    <3> QED BY <3>1, <3>2 DEF Constructed
  <2> QED BY <1>7, <1>9, <2>1, <2>2, <2>3 DEF OwnedExactlyOnce
<1>19. DataOK'
  BY <1>11, <1>15, <1>16, <1>17, <1>18 DEF DataOK
<1> QED BY <1>11, <1>14, <1>19, IInvNext

(* DestroyObject: the object registered last is used by no other that lives.  *)
LEMMA DestroyObjectStep ==
  ASSUME IInv, DestroyObject
  PROVE  IInv'
<1> DEFINE k == Len(onDestruction)
           o == Last(onDestruction)
<1>1. /\ status = "destroying" /\ onDestruction # <<>>
      /\ destroyed' = destroyed \cup {o}
      /\ onDestruction' = Front(onDestruction)
      /\ UNCHANGED <<status, mutexVars, callVars, graphVars, allocated, created,
                     returned, uses, eager, budget, throws>>
  BY DEF DestroyObject
<1>2. UNCHANGED <<raised, todo, object, vector>>
  BY <1>1 DEF callVars, graphVars
<1>3. /\ k \in Nat \ {0} /\ DOMAIN onDestruction = 1 .. k
      /\ o = onDestruction[k] /\ o \in Object
      /\ onDestruction' \in Seq(Object) /\ DOMAIN onDestruction' = 1 .. k - 1
      /\ \A i \in 1 .. k - 1 : onDestruction'[i] = onDestruction[i]
  BY <1>1, LastProperties, FrontProperties DEF IInv, TypeOK
<1> HIDE DEF k, o
<1>4. ToSet(onDestruction) = ToSet(onDestruction') \cup {o}
  BY <1>3 DEF ToSet
<1>5. Registered' = Registered /\ Known' = Known
  BY <1>1, <1>4 DEF Registered, Known
<1>6. CallsOK' /\ TodoOK'
  BY <1>1, <1>5, CallsUnchanged
<1>7. RestOK'
  BY <1>1, <1>2, <1>3 DEF IInv, TypeOK, RestOK
<1>8. ObjectsOK' /\ CreatedOK' /\ ReturnedOK' /\ EagerOK' /\ VectorsAreComplete'
  BY <1>1, <1>2, <1>5
     DEF IInv, DataOK, ObjectsOK, CreatedOK, ReturnedOK, EagerOK, VectorsAreComplete
<1>9. AliveOK'
  BY <1>1 DEF AliveOK
<1>10. UsesOK'
  <2>1. SUFFICES ASSUME NEW pair \in uses
                 PROVE  /\ pair[1] \in Registered /\ pair[2] \in Known
                        /\ \A i, j \in DOMAIN onDestruction' :
                             onDestruction'[i] = pair[1] /\ onDestruction'[j] = pair[2]
                               => j < i
                        /\ pair[2] \in destroyed' => pair[1] \in destroyed'
    BY <1>1, <1>5 DEF UsesOK
  <2>2. /\ pair[1] \in Registered /\ pair[2] \in Known
        /\ \A i, j \in DOMAIN onDestruction :
             onDestruction[i] = pair[1] /\ onDestruction[j] = pair[2] => j < i
        /\ pair[2] \in destroyed => pair[1] \in destroyed
    BY <2>1 DEF IInv, DataOK, UsesOK
  <2>3. ASSUME pair[2] = o PROVE pair[1] \in destroyed
    <3>1. SUFFICES ASSUME pair[1] \in ToSet(onDestruction) PROVE FALSE
      BY <2>2 DEF Registered
    <3>2. PICK i \in DOMAIN onDestruction : onDestruction[i] = pair[1]
      BY <3>1 DEF ToSet
    <3>3. k < i
      BY <1>3, <2>2, <2>3, <3>2
    <3> QED BY <1>3, <3>2, <3>3
  <2>4. \A i \in DOMAIN onDestruction' :
          i \in DOMAIN onDestruction /\ onDestruction'[i] = onDestruction[i]
    BY <1>3
  <2> QED BY <1>1, <2>2, <2>3, <2>4
<1>11. OwnedExactlyOnce'
  <2>1. /\ IsInjective(onDestruction)
        /\ ToSet(onDestruction) \cap destroyed = {}
        /\ ToSet(onDestruction) \cup destroyed = Constructed
    BY DEF IInv, DataOK, OwnedExactlyOnce
  <2>2. IsInjective(onDestruction')
    BY <1>3, <2>1 DEF IsInjective
  <2>3. o \notin ToSet(onDestruction')
    BY <1>3, <2>1 DEF IsInjective, ToSet
  <2>4. Constructed' = Constructed
    BY <1>1 DEF Constructed
  <2> QED BY <1>1, <1>4, <2>1, <2>2, <2>3, <2>4 DEF OwnedExactlyOnce
<1>12. DataOK'
  BY <1>8, <1>9, <1>10, <1>11 DEF DataOK
<1> QED BY <1>6, <1>7, <1>12, IInvNext

-----------------------------------------------------------------------------
(* The invariant holds when the injector has been made.                       *)
LEMMA InitIInv == Init => IInv
<1> SUFFICES ASSUME Init PROVE IInv
  OBVIOUS
<1>1. /\ \A n \in Creatable :
           object[n] = IF Kind[n] = "instance" THEN [of |-> n, nth |-> 0] ELSE None
      /\ object \in [Creatable -> Object \cup {None}]
  BY DEF Init, Object
<1>2. TypeOK
  <2>1. calls \in [Thread -> Seq(Frame)] /\ todo \in [Thread -> Seq(Target)]
    BY DEF Init
  <2>2. onDestruction \in Seq(Object) /\ vector \in [MultiType -> Seq(Object) \cup {None}]
    BY DEF Init
  <2>3. /\ DOMAIN returned = Type \cup MultiType
        /\ \A n \in Type : returned[n] \subseteq Object
        /\ \A m \in MultiType : returned[m] \subseteq Seq(Object)
    BY DEF Init
  <2>4. /\ allocated \in [Creatable -> Nat] /\ created \in [Creatable -> Nat]
        /\ raised \in [Thread -> BOOLEAN]
    BY DEF Init
  <2>5. budget \in [Thread -> 0 .. MaxCalls] /\ throws \in 0 .. MaxThrows
    BY NamesAssumption DEF Init
  <2>6. /\ status = "alive" /\ owner = None /\ depth = 0 /\ uses = {}
        /\ destroyed = {} /\ eager = FALSE
    BY DEF Init
  <2> QED BY <1>1, <2>1, <2>2, <2>3, <2>4, <2>5, <2>6 DEF TypeOK
<1>3. LocksMatchFrames
  BY DEF Init, LocksMatchFrames
<1>4. StacksOK
  BY DEF Init, StacksOK, StackOK
<1>5. TodoOK
  BY DEF Init, TodoOK, TodoListOK, ToSet
<1>6. ObjectsOK
  <2>1. SUFFICES ASSUME NEW n \in Creatable, object[n] # None
                 PROVE  object[n] \in Known /\ Needs[n] = {}
    BY DEF ObjectsOK
  <2>2. Kind[n] = "instance" /\ object[n] = [of |-> n, nth |-> 0]
    BY <1>1, <2>1
  <2> QED BY <2>2, GraphAssumption DEF Known
<1>7. CreatedOK /\ UsesOK /\ EagerOK /\ AliveOK
  BY DEF Init, CreatedOK, UsesOK, EagerOK, AliveOK
<1>8. ReturnedOK /\ VectorsAreComplete
  BY DEF Init, ReturnedOK, VectorsAreComplete
<1>9. OwnedExactlyOnce
  <2>1. Constructed = {}
    BY DEF Init, Constructed
  <2> QED BY <2>1 DEF Init, OwnedExactlyOnce, IsInjective, ToSet
<1> QED BY <1>2, <1>3, <1>4, <1>5, <1>6, <1>7, <1>8, <1>9 DEF IInv, DataOK

(* Every step of a thread, and of the destruction, keeps the invariant.       *)
LEMMA NextIInv == IInv /\ [Next]_vars => IInv'
<1> SUFFICES ASSUME IInv, [Next]_vars PROVE IInv'
  OBVIOUS
<1>1. ASSUME NEW t \in Thread, StartGet(t) \/ StartEagerlyInjectAll(t) PROVE IInv'
  BY <1>1, StartsStep
<1>2. ASSUME NEW t \in Thread, Step(t) PROVE IInv'
  <2>1. CASE Lock(t)
    BY <2>1, LockStep
  <2>2. CASE Return(t)
    BY <2>2, ReturnStep
  <2>3. CASE UseDependency(t)
    BY <2>3, UseDependencyStep
  <2>4. CASE InjectDependency(t)
    BY <2>4, InjectDependencyStep
  <2>5. CASE VisitAllMultibindings(t)
    BY <2>5, VisitAllMultibindingsStep
  <2>6. CASE StartConstructor(t)
    BY <2>6, StartConstructorStep
  <2>7. CASE CallProvider(t)
    BY <2>7, CallProviderStep
  <2>8. CASE FinishConstructor(t)
    BY <2>8, FinishConstructorStep
  <2>9. CASE ProviderReturnsNull(t)
    BY <2>9, StatusStep DEF ProviderReturnsNull
  <2>10. CASE FinishBind(t)
    BY <2>10, FinishBindStep
  <2>11. CASE FinishVector(t)
    BY <2>11, FinishVectorStep
  <2>12. CASE Throw(t) \/ Propagate(t)
    BY <2>12, UnwindStep
  <2>13. CASE Catch(t)
    BY <2>13, CatchStep
  <2>14. CASE LeaveWithException(t)
    BY <2>14, LeaveWithExceptionStep
  <2> QED BY <1>2, <2>1, <2>2, <2>3, <2>4, <2>5, <2>6, <2>7, <2>8, <2>9, <2>10,
             <2>11, <2>12, <2>13, <2>14 DEF Step
<1>3. CASE StartDestruction
  BY <1>3, StatusStep DEF StartDestruction
<1>4. CASE DestroyObject
  BY <1>4, DestroyObjectStep
<1>5. CASE FinishDestruction
  BY <1>5, StatusStep DEF FinishDestruction
<1>6. CASE UNCHANGED vars
  <2>1. UNCHANGED <<status, mutexVars, callVars, graphVars, allocatorVars,
                    historyVars, budget, throws>>
    BY <1>6 DEF vars
  <2>2. UNCHANGED <<raised, todo, object, vector, onDestruction, allocated, created,
                    returned, uses, destroyed, eager>>
    BY <2>1 DEF callVars, graphVars, allocatorVars, historyVars
  <2>3. DataOK' /\ Known' = Known
    BY <2>1, <2>2, DataUnchanged
  <2>4. CallsOK' /\ TodoOK'
    BY <2>1, <2>3, CallsUnchanged
  <2>5. RestOK'
    BY <2>1, <2>2 DEF IInv, TypeOK, RestOK
  <2> QED BY <2>3, <2>4, <2>5, IInvNext
<1> QED BY <1>1, <1>2, <1>3, <1>4, <1>5, <1>6 DEF Next, Terminated

(* The invariant holds in every state that the injector can reach.            *)
THEOREM Invariance == Spec => []IInv
BY InitIInv, NextIInv, PTL DEF Spec

(* The variables have their types: among others the mutex is never unlocked    *)
(* more often than it was locked, depth staying a natural number.             *)
THEOREM StorageTypeCorrectness == Spec => []TypeOK
<1>1. IInv => TypeOK
  BY DEF IInv
<1> QED BY <1>1, Invariance, PTL

(* The recursive mutex protects the injector: only the thread that holds it    *)
(* has frames, and it is locked as often as these frames will unlock it, for   *)
(* every number of threads, however calls nest and exceptions leave them.     *)
THEOREM MutexProtectsTheFrames == Spec => []LocksMatchFrames
<1>1. IInv => LocksMatchFrames
  BY DEF IInv
<1> QED BY <1>1, Invariance, PTL

(* No object is constructed twice and all the calls of get() for a type, or    *)
(* of getMultibindings() for a set, return the same, for every graph of types  *)
(* without loops.                                                             *)
THEOREM EachTypeHasOneInstance == Spec => []OneInstancePerType
<1>1. ASSUME IInv PROVE OneInstancePerType
  <2>1. \A n \in Creatable : created[n] <= 1
    BY <1>1 DEF IInv, DataOK, CreatedOK
  <2>2. ASSUME NEW S, NEW x, S \subseteq {x} PROVE Cardinality(S) <= 1
    <3>1. S = {} \/ S = {x}
      BY <2>2
    <3>2. Cardinality({}) = 0 /\ Cardinality({x}) = 1
      BY FS_EmptySet, FS_Singleton
    <3> QED BY <3>1, <3>2
  <2>3. ASSUME NEW n \in Type \cup MultiType PROVE Cardinality(returned[n]) <= 1
    <3>1. n \in Type => returned[n] \subseteq {object[n]}
      BY <1>1 DEF IInv, DataOK, ReturnedOK
    <3>2. n \in MultiType => returned[n] \subseteq {vector[n]}
      BY <1>1 DEF IInv, DataOK, ReturnedOK
    <3> QED BY <2>2, <3>1, <3>2
  <2> QED BY <2>1, <2>3 DEF OneInstancePerType
<1> QED BY <1>1, Invariance, PTL

(* An object is destroyed after every object that holds it, through its        *)
(* constructor or through a Provider that it called.                          *)
THEOREM DependentsAreDestroyedFirst == Spec => []DestroyedAfterDependents
<1>1. IInv => DestroyedAfterDependents
  BY DEF IInv, DataOK, UsesOK, DestroyedAfterDependents
<1> QED BY <1>1, Invariance, PTL

(* The allocator owns exactly the objects that were completed and not yet      *)
(* destroyed, each once, also after a constructor has thrown.                 *)
THEOREM ObjectsAreOwnedOnce == Spec => []OwnedExactlyOnce
<1>1. IInv => OwnedExactlyOnce
  BY DEF IInv, DataOK
<1> QED BY <1>1, Invariance, PTL

(* A vector of multibindings that is cached has every element, in order.      *)
THEOREM CachedVectorsAreComplete == Spec => []VectorsAreComplete
<1>1. IInv => VectorsAreComplete
  BY DEF IInv, DataOK
<1> QED BY <1>1, Invariance, PTL

(* After eagerlyInjectAll nothing is left to create for the exposed types and  *)
(* the multibindings, though it does not hold the mutex all the time.         *)
THEOREM EagerInjectionIsComplete == Spec => []EagerInjectsEverything
<1>1. IInv => EagerInjectsEverything
  BY DEF IInv, DataOK, EagerOK, ObjectsOK, EagerInjectsEverything
<1> QED BY <1>1, Invariance, PTL

-----------------------------------------------------------------------------
(* The space in the allocator.  The constructor of n is running, and no        *)
(* exception is about to leave it.                                            *)
Taking(n) ==
  \E t \in Thread :
    /\ ~raised[t]
    /\ \E i \in DOMAIN calls[t] : calls[t][i].node = n /\ calls[t][i].running

(* A type has taken space for its object, for the constructor that is running *)
(* and for the exceptions that have been thrown.                              *)
SpaceOK(n) ==
  \/ allocated[n] <= MaxThrows - throws + created[n]
  \/ /\ Kind[n] = "constructor" /\ Taking(n)
     /\ allocated[n] <= MaxThrows - throws + created[n] + 1
SpaceInv == \A n \in Creatable : SpaceOK(n)

(* An object whose constructor runs has not been created.                     *)
LEMMA TakingIsNew ==
  ASSUME IInv, NEW n \in Creatable, Taking(n)
  PROVE  created[n] = 0
<1> PICK t \in Thread :
      \E i \in DOMAIN calls[t] : calls[t][i].node = n /\ calls[t][i].running
  BY DEF Taking
<1>1. PICK i \in DOMAIN calls[t] : calls[t][i].node = n /\ calls[t][i].running
  OBVIOUS
<1>2. /\ calls[t] # <<>> /\ calls[t] \in Seq(Frame)
      /\ StackOK(calls[t], Head(todo[t]), object, vector, Known)
  <2>1. calls[t] \in Seq(Frame)
    BY DEF IInv, TypeOK
  <2>2. calls[t] # <<>>
    BY <1>1
  <2> QED BY <2>1, <2>2, InsideProperties
<1>3. i # 1
  BY <1>1, <1>2 DEF StackOK, CallFrameOK
<1>4. FrameOK(calls[t][i], object, vector, Known)
  BY <1>1, <1>2, <1>3 DEF StackOK
<1>5. object[n] = None
  BY <1>1, <1>4, NamesAssumption DEF FrameOK, Built
<1>6. ~(created[n] > 0)
  <2>1. [of |-> n, nth |-> 1] # None
    BY NamesAssumption DEF Object
  <2> QED BY <1>5, <2>1 DEF IInv, DataOK, CreatedOK
<1> QED BY <1>6 DEF IInv, TypeOK

(* While an exception leaves the frames of a thread, no constructor goes on.   *)
LEMMA NoneTakingWhenRaised ==
  ASSUME IInv, NEW t \in Thread, calls[t] # <<>>, raised[t], NEW n
  PROVE  ~Taking(n)
<1>1. \A u \in Thread \ {t} : calls[u] = <<>>
  BY InsideProperties
<1> QED BY <1>1 DEF Taking

(* A step that takes no space, and leaves no frame of a running constructor.   *)
LEMMA SpaceKept ==
  ASSUME SpaceInv, UNCHANGED <<allocated, created, throws>>,
         \A n \in Creatable : Kind[n] = "constructor" /\ Taking(n) => Taking(n)'
  PROVE  SpaceInv'
BY DEF SpaceInv, SpaceOK

(* The stack of one thread changes, but its frames with user code stay.       *)
LEMMA RunningFramesStay ==
  ASSUME NEW t \in Thread, \A u \in Thread \ {t} : calls'[u] = calls[u],
         \A u \in Thread : raised'[u] => raised[u],
         \A i \in DOMAIN calls[t] : calls[t][i].running =>
           /\ i \in DOMAIN calls'[t]
           /\ calls'[t][i].node = calls[t][i].node /\ calls'[t][i].running
  PROVE  \A n : Taking(n) => Taking(n)'
<1> SUFFICES ASSUME NEW n, Taking(n) PROVE Taking(n)'
  OBVIOUS
<1> PICK u \in Thread :
      /\ ~raised[u]
      /\ \E i \in DOMAIN calls[u] : calls[u][i].node = n /\ calls[u][i].running
  BY DEF Taking
<1>1. PICK i \in DOMAIN calls[u] :
        ~raised[u] /\ calls[u][i].node = n /\ calls[u][i].running
  OBVIOUS
<1>2. i \in DOMAIN calls'[u] /\ calls'[u][i].node = n /\ calls'[u][i].running
  BY <1>1
<1> QED BY <1>1, <1>2 DEF Taking

(* The same, with the space that has been taken.                              *)
LEMMA SpaceStays ==
  ASSUME SpaceInv, UNCHANGED <<raised, allocated, created, throws>>,
         calls \in [Thread -> Seq(Frame)], NEW t \in Thread,
         NEW s, calls' = [calls EXCEPT ![t] = s],
         \A i \in DOMAIN calls[t] : calls[t][i].running =>
           i \in DOMAIN s /\ s[i].node = calls[t][i].node /\ s[i].running
  PROVE  SpaceInv'
<1>1. calls'[t] = s /\ \A u \in Thread \ {t} : calls'[u] = calls[u]
  OBVIOUS
<1>2. \A n : Taking(n) => Taking(n)'
  BY <1>1, RunningFramesStay
<1> QED BY <1>2, SpaceKept

(* The steps of a thread that takes no space.                                 *)
LEMMA OtherStepsKeepSpace ==
  ASSUME IInv, SpaceInv, NEW t \in Thread,
         \/ Lock(t) \/ Return(t) \/ UseDependency(t) \/ InjectDependency(t)
         \/ VisitAllMultibindings(t) \/ CallProvider(t) \/ FinishBind(t)
         \/ FinishVector(t) \/ Propagate(t) \/ Catch(t) \/ LeaveWithException(t)
  PROVE  SpaceInv'
<1>1. calls \in [Thread -> Seq(Frame)] /\ calls[t] \in Seq(Frame)
  BY DEF IInv, TypeOK
<1>2. CASE Lock(t)
  <2>1. /\ calls[t] = <<>> /\ UNCHANGED <<raised, allocated, created, throws>>
        /\ calls' = [calls EXCEPT ![t] = Append(calls[t], CallFrame(Head(todo[t])))]
    BY <1>2 DEF Lock, Push, allocatorVars, historyVars
  <2>2. PICK s : s = Append(calls[t], CallFrame(Head(todo[t])))
    OBVIOUS
  <2>3. DOMAIN calls[t] = {}
    BY <2>1
  <2> QED BY <1>1, <2>1, <2>2, <2>3, SpaceStays
<1>3. CASE InjectDependency(t)
  <2>1. PICK g : calls' = [calls EXCEPT ![t] = Append(calls[t], g)]
    BY <1>3 DEF InjectDependency, Push
  <2>2. UNCHANGED <<raised, allocated, created, throws>>
    BY <1>3 DEF InjectDependency, allocatorVars, historyVars
  <2>3. \A i \in DOMAIN calls[t] :
          i \in DOMAIN Append(calls[t], g) /\ Append(calls[t], g)[i] = calls[t][i]
    BY <1>1
  <2>4. PICK s : s = Append(calls[t], g)
    OBVIOUS
  <2>5. \A i \in DOMAIN calls[t] : calls[t][i].running =>
          i \in DOMAIN s /\ s[i].node = calls[t][i].node /\ s[i].running
    BY <2>3, <2>4
  <2>6. calls' = [calls EXCEPT ![t] = s]
    BY <2>1, <2>4
  <2> QED BY <1>1, <2>2, <2>5, <2>6, SpaceStays
<1>4. CASE Propagate(t) \/ Catch(t) \/ LeaveWithException(t)
  <2>1. raised[t] /\ UNCHANGED <<allocated, created, throws>>
    BY <1>4 DEF Propagate, Catch, LeaveWithException, allocatorVars, historyVars
  <2>2. calls[t] # <<>>
    BY <2>1 DEF IInv, StacksOK
  <2> QED BY <2>1, <2>2, NoneTakingWhenRaised, SpaceKept
<1>5. CASE UseDependency(t) \/ VisitAllMultibindings(t) \/ CallProvider(t)
  <2>1. calls[t] # <<>> /\ UNCHANGED <<raised, allocated, created, throws>>
    <3>1. Inside(t) /\ UNCHANGED <<raised, allocatorVars, historyVars, throws>>
      BY <1>5 DEF UseDependency, VisitAllMultibindings, CallProvider
    <3> QED BY <3>1 DEF Inside, allocatorVars, historyVars
  <2>2. TopFrame(t) \in Frame /\ TopFrame(t) = Last(calls[t])
    BY <2>1, InsideProperties
  <2>3. PICK g : /\ calls' = SetTop(t, g)
                 /\ g.node = TopFrame(t).node /\ g.running = TopFrame(t).running
    <3>1. PICK f \in Frame : f = TopFrame(t)
      BY <2>2
    <3>2. \/ \E p, a : calls' = SetTop(t, [f EXCEPT !.pending = p, !.args = a])
          \/ \E p : calls' = SetTop(t, [f EXCEPT !.pending = p])
      BY <1>5, <3>1 DEF UseDependency, VisitAllMultibindings, CallProvider
    <3>3. PICK g : /\ calls' = SetTop(t, g)
                   /\ \/ \E p, a : g = [f EXCEPT !.pending = p, !.args = a]
                      \/ \E p : g = [f EXCEPT !.pending = p]
      BY <3>2
    <3>4. g.node = f.node /\ g.running = f.running
      BY <3>1, <3>3 DEF Frame
    <3> QED BY <3>1, <3>3, <3>4
  <2>4. /\ Len(calls[t]) \in Nat \ {0} /\ DOMAIN calls[t] = 1 .. Len(calls[t])
        /\ Last(calls[t]) = calls[t][Len(calls[t])]
        /\ Len(Front(calls[t])) = Len(calls[t]) - 1
        /\ \A i \in 1 .. Len(calls[t]) - 1 : Front(calls[t])[i] = calls[t][i]
        /\ Front(calls[t]) \in Seq(Frame)
    BY <1>1, <2>1, LastProperties, FrontProperties
  <2>5. PICK s : s = Append(Front(calls[t]), g)
    OBVIOUS
  <2>6. /\ \A i \in 1 .. Len(calls[t]) - 1 : i \in DOMAIN s /\ s[i] = calls[t][i]
        /\ Len(calls[t]) \in DOMAIN s /\ s[Len(calls[t])] = g
    BY <2>4, <2>5
  <2>7. \A i \in DOMAIN calls[t] : calls[t][i].running =>
          i \in DOMAIN s /\ s[i].node = calls[t][i].node /\ s[i].running
    BY <2>2, <2>3, <2>4, <2>6
  <2>8. calls' = [calls EXCEPT ![t] = s]
    BY <1>1, <2>3, <2>5 DEF SetTop
  <2> QED BY <1>1, <2>1, <2>7, <2>8, SpaceStays
<1>6. CASE Return(t) \/ FinishBind(t) \/ FinishVector(t)
  <2>1. /\ calls[t] # <<>> /\ UNCHANGED <<raised, allocated, created, throws>>
        /\ calls' = [calls EXCEPT ![t] = Front(calls[t])]
    BY <1>6 DEF Return, FinishBind, FinishVector, Inside, PopFrame, allocatorVars,
                historyVars
  <2>2. ~TopFrame(t).running /\ TopFrame(t) = Last(calls[t])
    <3>1. CASE Return(t)
      BY <2>1, <3>1, InsideProperties DEF Return
    <3>2. CASE FinishBind(t)
      BY <2>1, <3>2, RunningFrame, InsideProperties DEF FinishBind, RunsUserCode
    <3>3. CASE FinishVector(t)
      BY <2>1, <3>3, RunningFrame, InsideProperties DEF FinishVector
    <3> QED BY <1>6, <3>1, <3>2, <3>3
  <2>3. /\ Len(calls[t]) \in Nat \ {0} /\ DOMAIN calls[t] = 1 .. Len(calls[t])
        /\ Last(calls[t]) = calls[t][Len(calls[t])]
        /\ DOMAIN Front(calls[t]) = 1 .. Len(calls[t]) - 1
        /\ \A i \in 1 .. Len(calls[t]) - 1 : Front(calls[t])[i] = calls[t][i]
    BY <1>1, <2>1, LastProperties, FrontProperties
  <2>4. \A i \in DOMAIN calls[t] : calls[t][i].running =>
          i \in DOMAIN Front(calls[t]) /\ Front(calls[t])[i] = calls[t][i]
    BY <2>2, <2>3
  <2>5. PICK s : s = Front(calls[t])
    OBVIOUS
  <2>6. \A i \in DOMAIN calls[t] : calls[t][i].running =>
          i \in DOMAIN s /\ s[i].node = calls[t][i].node /\ s[i].running
    BY <2>4, <2>5
  <2>7. calls' = [calls EXCEPT ![t] = s]
    BY <2>1, <2>5
  <2> QED BY <1>1, <2>1, <2>6, <2>7, SpaceStays
<1> QED BY <1>2, <1>3, <1>4, <1>5, <1>6

(* A constructor that starts takes the space of its type, which is not        *)
(* already under construction: no other thread is inside, and no frame below  *)
(* is for the same type.                                                      *)
LEMMA StartTakesSpace ==
  ASSUME IInv, SpaceInv, NEW t \in Thread, StartConstructor(t)
  PROVE  SpaceInv'
<1>1. PICK f \in Frame : f = TopFrame(t) /\ f = Last(calls[t])
  BY InsideProperties DEF StartConstructor, Inside
<1>2. /\ calls[t] # <<>> /\ ~raised[t] /\ ~f.running /\ f.node \in Creatable
      /\ UNCHANGED <<raised, created, throws>>
      /\ calls' = SetTop(t, [f EXCEPT !.running = TRUE])
      /\ allocated' = IF Kind[f.node] = "constructor"
                        THEN [allocated EXCEPT ![f.node] = @ + 1] ELSE allocated
  BY <1>1 DEF StartConstructor, Inside, historyVars, RunsUserCode
<1>3. PICK g \in Frame : g = [f EXCEPT !.running = TRUE] /\ g.node = f.node /\ g.running
  <2>1. PICK h : h = [f EXCEPT !.running = TRUE]
    OBVIOUS
  <2>2. h \in Frame /\ h.node = f.node /\ h.running
    BY <1>1, <2>1 DEF Frame
  <2> QED BY <2>1, <2>2
<1>4. /\ calls \in [Thread -> Seq(Frame)] /\ calls[t] \in Seq(Frame)
      /\ StackOK(calls[t], Head(todo[t]), object, vector, Known)
      /\ \A u \in Thread \ {t} : calls[u] = <<>>
  BY <1>2, InsideProperties DEF IInv, TypeOK
<1>5. /\ Len(calls[t]) \in Nat \ {0} /\ DOMAIN calls[t] = 1 .. Len(calls[t])
      /\ f = calls[t][Len(calls[t])]
      /\ Front(calls[t]) \in Seq(Frame)
      /\ Len(Front(calls[t])) = Len(calls[t]) - 1
      /\ \A i \in 1 .. Len(calls[t]) - 1 : Front(calls[t])[i] = calls[t][i]
  BY <1>1, <1>2, <1>4, LastProperties, FrontProperties
<1>6. PICK s : s = Append(Front(calls[t]), g)
  OBVIOUS
<1>7. /\ \A i \in 1 .. Len(calls[t]) - 1 : i \in DOMAIN s /\ s[i] = calls[t][i]
      /\ Len(calls[t]) \in DOMAIN s /\ s[Len(calls[t])] = g
  BY <1>5, <1>6
<1>8. calls' = [calls EXCEPT ![t] = s]
  BY <1>2, <1>3, <1>4, <1>6 DEF SetTop
<1>9. \A n : Taking(n) => Taking(n)'
  <2>1. \A i \in DOMAIN calls[t] : calls[t][i].running =>
          i \in DOMAIN s /\ s[i].node = calls[t][i].node /\ s[i].running
    BY <1>2, <1>5, <1>7
  <2>2. calls'[t] = s /\ \A u \in Thread \ {t} : calls'[u] = calls[u]
    BY <1>4, <1>8
  <2> QED BY <1>2, <2>1, <2>2, RunningFramesStay
<1>10. Taking(f.node)'
  <2>1. calls'[t] = s /\ ~raised'[t]
    BY <1>2, <1>4, <1>8
  <2>2. \E i \in DOMAIN calls'[t] : calls'[t][i].node = f.node /\ calls'[t][i].running
    BY <1>3, <1>7, <2>1
  <2> QED BY <2>1, <2>2 DEF Taking
<1>11. ~Taking(f.node)
  <2>1. SUFFICES ASSUME NEW i \in DOMAIN calls[t], calls[t][i].node = f.node,
                        calls[t][i].running
                 PROVE  FALSE
    BY <1>4 DEF Taking
  <2>2. i # 1
    BY <1>4, <2>1 DEF StackOK, CallFrameOK
  <2>3. i < Len(calls[t])
    BY <1>2, <1>5, <2>1
  <2> QED BY <1>4, <1>5, <2>1, <2>2, <2>3, NodesAreDistinct
<1>12. ASSUME NEW n \in Creatable PROVE SpaceOK(n)'
  <2>1. /\ SpaceOK(n) /\ allocated[n] \in Nat /\ created[n] \in Nat
        /\ MaxThrows - throws \in Int
    BY NamesAssumption DEF SpaceInv, IInv, TypeOK
  <2>2. CASE n = f.node /\ Kind[n] = "constructor"
    <3>1. allocated'[n] = allocated[n] + 1
      BY <1>2, <2>2 DEF IInv, TypeOK
    <3> QED BY <1>2, <1>10, <1>11, <2>1, <2>2, <3>1 DEF SpaceOK
  <2>3. CASE ~(n = f.node /\ Kind[n] = "constructor")
    <3>1. allocated'[n] = allocated[n]
      BY <1>2, <2>3 DEF IInv, TypeOK
    <3> QED BY <1>2, <1>9, <2>1, <3>1 DEF SpaceOK
  <2> QED BY <2>2, <2>3
<1> QED BY <1>12 DEF SpaceInv

(* When an object is complete the space belongs to it.                        *)
LEMMA FinishUsesSpace ==
  ASSUME IInv, SpaceInv, NEW t \in Thread, FinishConstructor(t)
  PROVE  SpaceInv'
<1>1. PICK f \in Frame : f = TopFrame(t) /\ f = Last(calls[t])
  BY InsideProperties DEF FinishConstructor, Inside
<1>2. /\ calls[t] # <<>> /\ UNCHANGED <<raised, throws>>
      /\ calls' = [calls EXCEPT ![t] = Front(calls[t])]
      /\ f.node \in Creatable
      /\ created' = [created EXCEPT ![f.node] = @ + 1]
      /\ allocated' = IF Kind[f.node] = "value_provider"
                        THEN [allocated EXCEPT ![f.node] = @ + 1] ELSE allocated
  BY <1>1, InsideProperties DEF FinishConstructor, Inside, PopFrame
<1>3. /\ calls \in [Thread -> Seq(Frame)] /\ calls[t] \in Seq(Frame)
      /\ \A u \in Thread \ {t} : calls[u] = <<>>
  BY <1>2, InsideProperties DEF IInv, TypeOK
<1>4. /\ Len(calls[t]) \in Nat \ {0} /\ DOMAIN calls[t] = 1 .. Len(calls[t])
      /\ f = calls[t][Len(calls[t])]
      /\ DOMAIN Front(calls[t]) = 1 .. Len(calls[t]) - 1
      /\ \A i \in 1 .. Len(calls[t]) - 1 : Front(calls[t])[i] = calls[t][i]
  BY <1>1, <1>2, <1>3, LastProperties, FrontProperties
<1>5. ASSUME NEW n, n # f.node, Taking(n) PROVE Taking(n)'
  <2>1. PICK i \in DOMAIN calls[t] :
          ~raised[t] /\ calls[t][i].node = n /\ calls[t][i].running
    BY <1>3, <1>5 DEF Taking
  <2>2. i \in DOMAIN Front(calls[t]) /\ Front(calls[t])[i] = calls[t][i]
    BY <1>4, <1>5, <2>1
  <2>3. calls'[t] = Front(calls[t]) /\ raised'[t] = raised[t]
    BY <1>2, <1>3
  <2> QED BY <2>1, <2>2, <2>3 DEF Taking
<1>6. ASSUME NEW n \in Creatable PROVE SpaceOK(n)'
  <2>1. /\ SpaceOK(n) /\ allocated[n] \in Nat /\ created[n] \in Nat
        /\ MaxThrows - throws \in Int
    BY NamesAssumption DEF SpaceInv, IInv, TypeOK
  <2>2. CASE n = f.node
    <3>1. /\ created'[n] = created[n] + 1
          /\ allocated'[n] = IF Kind[n] = "value_provider" THEN allocated[n] + 1
                                                           ELSE allocated[n]
      BY <1>2, <2>2 DEF IInv, TypeOK
    <3> QED BY <1>2, <2>1, <3>1 DEF SpaceOK
  <2>3. CASE n # f.node
    <3>1. created'[n] = created[n] /\ allocated'[n] = allocated[n]
      BY <1>2, <2>3 DEF IInv, TypeOK
    <3> QED BY <1>2, <1>5, <2>1, <2>3, <3>1 DEF SpaceOK
  <2> QED BY <2>2, <2>3
<1> QED BY <1>6 DEF SpaceInv

(* An exception wastes the space of every constructor that it may leave, and   *)
(* of the object that a provider has not finished moving, once each.          *)
LEMMA ThrowWastesSpace ==
  ASSUME IInv, SpaceInv, NEW t \in Thread, Throw(t)
  PROVE  SpaceInv'
<1>1. /\ throws' = throws - 1 /\ created' = created
      /\ \/ allocated' = allocated
         \/ /\ Kind[TopFrame(t).node] = "value_provider"
            /\ allocated' = [allocated EXCEPT ![TopFrame(t).node] = @ + 1]
  BY DEF Throw, historyVars
<1>2. ASSUME NEW n \in Creatable PROVE SpaceOK(n)'
  <2>1. /\ SpaceOK(n) /\ allocated[n] \in Nat /\ created[n] \in Nat
        /\ MaxThrows \in Int /\ throws \in Int
    BY NamesAssumption DEF SpaceInv, IInv, TypeOK
  <2>2. allocated'[n] <= MaxThrows - throws + created[n] + 1
    <3>1. CASE allocated'[n] = allocated[n]
      BY <2>1, <3>1 DEF SpaceOK
    <3>2. CASE Kind[n] = "value_provider" /\ allocated'[n] = allocated[n] + 1
      BY <2>1, <3>2 DEF SpaceOK
    <3> QED BY <1>1, <3>1, <3>2 DEF IInv, TypeOK
  <2> QED BY <1>1, <2>1, <2>2 DEF SpaceOK
<1> QED BY <1>2 DEF SpaceInv

(* SpaceTakenOnce for every graph of types and every number of threads: each   *)
(* type takes the space that was reserved for it once, and once more only for *)
(* an exception that made a constructor's work vain.                          *)
THEOREM EachSpaceIsTakenOnce == Spec => []SpaceTakenOnce
<1>1. Init => SpaceInv
  BY NamesAssumption DEF Init, SpaceInv, SpaceOK
<1>2. ASSUME IInv, SpaceInv, [Next]_vars PROVE SpaceInv'
  <2>1. CASE \/ \E t \in Thread : \/ StartGet(t) \/ StartEagerlyInjectAll(t)
                                  \/ ProviderReturnsNull(t)
             \/ StartDestruction \/ DestroyObject \/ FinishDestruction \/ UNCHANGED vars
    <3>1. UNCHANGED <<calls, raised, allocated, created, throws>>
      BY <2>1 DEF StartGet, StartEagerlyInjectAll, ProviderReturnsNull, StartDestruction,
                  DestroyObject, FinishDestruction, vars, callVars, allocatorVars,
                  historyVars
    <3>2. \A n : Taking(n)' = Taking(n)
      BY <3>1 DEF Taking
    <3> QED BY <1>2, <3>1, <3>2, SpaceKept
  <2>2. ASSUME NEW t \in Thread, Step(t), ~ProviderReturnsNull(t) PROVE SpaceInv'
    BY <1>2, <2>2, OtherStepsKeepSpace, StartTakesSpace, FinishUsesSpace,
       ThrowWastesSpace DEF Step
  <2> QED BY <1>2, <2>1, <2>2 DEF Next, Terminated
<1>3. IInv /\ SpaceInv => SpaceTakenOnce
  <2>1. SUFFICES ASSUME IInv, SpaceInv, NEW n \in Creatable
                 PROVE  allocated[n] <= 1 + (MaxThrows - throws)
    BY DEF SpaceTakenOnce
  <2>2. /\ SpaceOK(n) /\ created[n] \in Nat /\ created[n] <= 1
        /\ allocated[n] \in Nat /\ MaxThrows \in Int /\ throws \in Int
    BY <2>1, NamesAssumption DEF SpaceInv, IInv, TypeOK, DataOK, CreatedOK
  <2>3. Taking(n) => created[n] = 0
    BY <2>1, TakingIsNew
  <2> QED BY <2>2, <2>3 DEF SpaceOK
<1> QED BY <1>1, <1>2, <1>3, Invariance, PTL DEF Spec

-----------------------------------------------------------------------------
(* InjectorStorage implements LazyInjector, for every set of threads and       *)
(* every graph of types: the initial state is one of LazyInjector, and each   *)
(* step of a thread provides, delivers or destroys an instance, or changes    *)
(* nothing that the users of the injector see.                                *)

(* What the calls for a type have returned, as LazyInjector sees it.          *)
Delivered == [n \in Creatable |-> IF n \in Type THEN returned[n] ELSE {}]

(* An injector that has just been made.                                       *)
LEMMA InitRefines == Init => Abstract!Init
BY DEF Init, Abstract!Init, Creatable

(* A step that creates, returns and destroys nothing is not seen.             *)
LEMMA Unseen ==
  ASSUME UNCHANGED <<object, returned, destroyed>>
  PROVE  UNCHANGED Abstract!vars
BY DEF Abstract!vars

(* A constructor or a provider returns: an instance is provided, and the       *)
(* instances that it needs were there.                                        *)
LEMMA FinishConstructorProvides ==
  ASSUME IInv, NEW t \in Thread, FinishConstructor(t)
  PROVE  Abstract!Next
<1> DEFINE f == TopFrame(t)
           n == f.node
<1>1. /\ calls[t] # <<>> /\ f.running /\ f.pending = {} /\ status = "alive"
      /\ object' = [object EXCEPT ![n] = [of |-> n, nth |-> created[n] + 1]]
      /\ UNCHANGED <<returned, destroyed>>
  BY DEF FinishConstructor, Inside
<1>2. /\ n \in Creatable /\ RunsUserCode(n) /\ object[n] = None
      /\ ObjectFrameOK(f, object, Known)
  BY <1>1, RunningFrame
<1> HIDE DEF f
<1>3. \A d \in Needs[n] : object[d] # None
  BY <1>1, <1>2, KnownProperties DEF ObjectFrameOK, IInv
<1>4. created[n] = 0
  BY <1>2, NewObject
<1>5. object' = [object EXCEPT ![n] = [of |-> n, nth |-> 1]]
  BY <1>1, <1>4
<1>6. destroyed = {}
  BY <1>1 DEF IInv, DataOK, AliveOK
<1>7. Kind[n] # "bind"
  BY <1>2 DEF RunsUserCode
<1> HIDE DEF n
<1>8. Abstract!Provide(n)
  BY <1>1, <1>2, <1>3, <1>5, <1>6, <1>7 DEF Abstract!Provide
<1> QED BY <1>2, <1>8 DEF Abstract!Next

(* A bind shares the instance of the type that it needs.                      *)
LEMMA FinishBindProvides ==
  ASSUME IInv, NEW t \in Thread, FinishBind(t)
  PROVE  Abstract!Next
<1> DEFINE f == TopFrame(t)
           n == f.node
<1>1. /\ calls[t] # <<>> /\ n \in Creatable /\ Kind[n] = "bind" /\ f.pending = {}
      /\ status = "alive" /\ UNCHANGED <<returned, destroyed>>
  BY DEF FinishBind, Inside, historyVars
<1>2. PICK o \in f.args : object' = [object EXCEPT ![n] = o]
  BY DEF FinishBind
<1>3. FrameOK(f, object, vector, Known) /\ n \notin MultiType
  BY <1>1, InsideProperties, NamesAssumption
<1>4. ObjectFrameOK(f, object, Known) /\ object[n] = None
  BY <1>1, <1>3 DEF FrameOK, Built
<1>5. ~f.running
  BY <1>1, <1>4 DEF ObjectFrameOK, RunsUserCode
<1>6. PICK d \in Needs[n] : o = object[d]
  BY <1>4, <1>5 DEF ObjectFrameOK
<1>7. \A e \in Needs[n] : object[e] # None
  BY <1>1, <1>4, <1>5, KnownProperties DEF ObjectFrameOK, IInv
<1>8. destroyed = {}
  BY <1>1 DEF IInv, DataOK, AliveOK
<1> HIDE DEF f, n
<1>9. Abstract!Provide(n)
  BY <1>1, <1>2, <1>4, <1>6, <1>7, <1>8 DEF Abstract!Provide
<1> QED BY <1>1, <1>9 DEF Abstract!Next

(* A call for a type returns: the instance of the type is delivered, and it    *)
(* is the one that earlier calls were given.  The users of LazyInjector do     *)
(* not see vectors.                                                           *)
LEMMA ReturnDelivers ==
  ASSUME IInv, NEW t \in Thread, Return(t)
  PROVE  Abstract!Next \/ UNCHANGED Abstract!vars
<1> DEFINE h == Head(todo[t])
<1>1. /\ status = "alive" /\ UNCHANGED <<object, destroyed>>
      /\ returned' = IF h = AllMultibindings THEN returned
                     ELSE [returned EXCEPT ![h] = @ \cup {Result(h)}]
  BY DEF Return, Inside, graphVars
<1>2. h \in Target /\ (h \in Type => Result(h) = object[h] /\ object[h] # None)
  BY ReturnTarget
<1>3. /\ DOMAIN returned = Type \cup MultiType
      /\ \A n \in Type : returned[n] \subseteq {object[n]}
  BY DEF IInv, TypeOK, DataOK, ReturnedOK
<1>4. destroyed = {}
  BY <1>1 DEF IInv, DataOK, AliveOK
<1> HIDE DEF h
<1>5. CASE h \in Type
  <2>1. h # AllMultibindings /\ h \in Creatable
    BY <1>5, NamesAssumption DEF Creatable
  <2>2. returned[h] \cup {Result(h)} = {object[h]}
    BY <1>2, <1>3, <1>5
  <2>3. \A n \in Type : returned'[n] = IF n = h THEN {object[h]} ELSE returned[n]
    BY <1>1, <1>3, <2>1, <2>2
  <2>4. Delivered' = [Delivered EXCEPT ![h] = {object[h]}]
    BY <1>5, <2>1, <2>3 DEF Delivered, Creatable
  <2>5. PICK m \in Creatable : m = h
    BY <2>1
  <2>6. Abstract!Deliver(m)
    BY <1>1, <1>2, <1>4, <1>5, <2>4, <2>5 DEF Abstract!Deliver, Delivered
  <2> QED BY <2>6 DEF Abstract!Next
<1>6. CASE h \notin Type
  <2>1. \A n \in Type : returned'[n] = returned[n]
    BY <1>1, <1>3, <1>6
  <2>2. Delivered' = Delivered
    BY <2>1 DEF Delivered
  <2> QED BY <1>1, <2>2 DEF Abstract!vars, Delivered
<1> QED BY <1>5, <1>6

(* A destructor runs: every instance that was made from this one is gone.     *)
LEMMA DestroyObjectDestroys ==
  ASSUME IInv, DestroyObject
  PROVE  Abstract!Next
<1> DEFINE k == Len(onDestruction)
           o == Last(onDestruction)
<1>1. /\ onDestruction # <<>> /\ destroyed' = destroyed \cup {o}
      /\ UNCHANGED <<object, returned>>
  BY DEF DestroyObject, graphVars
<1>2. /\ k \in Nat \ {0} /\ DOMAIN onDestruction = 1 .. k /\ o = onDestruction[k]
  BY <1>1, LastProperties DEF IInv, TypeOK
<1> HIDE DEF k, o
<1>3. o \in ToSet(onDestruction)
  BY <1>2 DEF ToSet
<1>4. o \in Constructed /\ o \notin destroyed
  BY <1>3 DEF IInv, DataOK, OwnedExactlyOnce
<1>5. PICK n \in Creatable : created[n] > 0 /\ o = [of |-> n, nth |-> 1]
  BY <1>4 DEF Constructed
<1>6. RunsUserCode(n) /\ object[n] = o /\ o # None
  <2>1. [of |-> n, nth |-> 1] \in Object
    BY DEF Object
  <2> QED BY <1>5, <2>1, NamesAssumption DEF IInv, DataOK, CreatedOK
<1>7. ASSUME NEW user \in Creatable, Kind[user] # "bind", object[user] # None,
             NEW d \in Needs[user], object[d] = object[n]
      PROVE  object[user] \in destroyed
  <2> DEFINE pair == <<object[user], object[d]>>
  <2>1. pair \in uses
    BY <1>7 DEF IInv, DataOK, ObjectsOK
  <2>2. /\ pair[1] \in Registered
        /\ \A i, j \in DOMAIN onDestruction :
             onDestruction[i] = pair[1] /\ onDestruction[j] = pair[2] => j < i
    BY <2>1 DEF IInv, DataOK, UsesOK
  <2>3. SUFFICES ASSUME object[user] \in ToSet(onDestruction) PROVE FALSE
    BY <2>2 DEF Registered
  <2>4. PICK i \in DOMAIN onDestruction : onDestruction[i] = object[user]
    BY <2>3 DEF ToSet
  <2>5. k < i
    BY <1>2, <1>6, <1>7, <2>2, <2>4
  <2> QED BY <1>2, <2>4, <2>5
<1>8. Kind[n] \notin {"instance", "bind"}
  BY <1>6 DEF RunsUserCode
<1>9. Abstract!Destroy(n)
  BY <1>1, <1>4, <1>6, <1>7, <1>8 DEF Abstract!Destroy
<1> QED BY <1>9 DEF Abstract!Next

(* Every step is a step of LazyInjector, or changes nothing of it.            *)
LEMMA NextRefines == IInv /\ [Next]_vars => [Abstract!Next]_(Abstract!vars)
<1> SUFFICES ASSUME IInv, [Next]_vars
             PROVE  Abstract!Next \/ UNCHANGED Abstract!vars
  OBVIOUS
<1>1. ASSUME NEW t \in Thread, Step(t)
      PROVE  Abstract!Next \/ UNCHANGED Abstract!vars
  <2>1. CASE FinishConstructor(t)
    BY <2>1, FinishConstructorProvides
  <2>2. CASE FinishBind(t)
    BY <2>2, FinishBindProvides
  <2>3. CASE Return(t)
    BY <2>3, ReturnDelivers
  <2>4. CASE Lock(t) \/ UseDependency(t) \/ InjectDependency(t)
             \/ VisitAllMultibindings(t) \/ StartConstructor(t) \/ CallProvider(t)
    <3>1. UNCHANGED <<object, returned, destroyed>>
      BY <2>4 DEF Lock, UseDependency, InjectDependency, VisitAllMultibindings,
                  StartConstructor, CallProvider, graphVars, historyVars
    <3> QED BY <3>1, Unseen
  <2>5. CASE ProviderReturnsNull(t) \/ FinishVector(t) \/ Throw(t) \/ Propagate(t)
             \/ Catch(t) \/ LeaveWithException(t)
    <3>1. UNCHANGED <<object, returned, destroyed>>
      BY <2>5 DEF ProviderReturnsNull, FinishVector, Throw, Propagate, Catch,
                  LeaveWithException, graphVars, historyVars
    <3> QED BY <3>1, Unseen
  <2> QED BY <1>1, <2>1, <2>2, <2>3, <2>4, <2>5 DEF Step
<1>2. CASE DestroyObject
  BY <1>2, DestroyObjectDestroys
<1>3. CASE \/ \E t \in Thread : StartGet(t) \/ StartEagerlyInjectAll(t)
           \/ StartDestruction \/ FinishDestruction \/ Terminated \/ UNCHANGED vars
  <2>1. UNCHANGED <<object, returned, destroyed>>
    BY <1>3 DEF StartGet, StartEagerlyInjectAll, StartDestruction, FinishDestruction,
                Terminated, vars, graphVars, historyVars
  <2> QED BY <2>1, Unseen
<1> QED BY <1>1, <1>2, <1>3 DEF Next

(* The injector keeps the promises of LazyInjector: whatever the threads, the  *)
(* Providers and the exceptions do, its users see one instance for each type,  *)
(* provided after those that it needs, the same for every call, and destroyed  *)
(* after those that were made from it.                                        *)
THEOREM StorageImplementsLazyInjector == Spec => ImplementsLazyInjector
BY InitRefines, NextRefines, Invariance, PTL
   DEF Spec, ImplementsLazyInjector, Abstract!Spec
=============================================================================
