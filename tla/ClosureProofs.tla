----------------------------- MODULE ClosureProofs -----------------------------
(***************************************************************************)
(* Proofs about BindingNormalization, for every program: the components      *)
(* expanded are those that the roots reach, in the order in which the root   *)
(* declares them, and no loop among them goes unnoticed.                     *)
(*                                                                         *)
(* The end markers make the stack a call stack.  What lies above a marker    *)
(* is the work left to do for its component, and the whole stack that of     *)
(* the roots: the invariant says so by two fixpoints, one of what the        *)
(* entries above will account for, one of what they were reached from.       *)
(***************************************************************************)
EXTENDS BindingNormalizationProofs

(* The components named by the entries of s above position i: those still to  *)
(* be looked at and those being expanded.                                     *)
Named(s, i) ==
  {s[j].comp : j \in {k \in DOMAIN s : /\ k > i
                                       /\ s[k].kind \in {"lazy", "end_marker"}}}

(* lead[c] is where the component c leads: to its replacement, or to what it  *)
(* installs.  S is accounted for by the components A if each member is one of *)
(* them, or is settled and leads to members only.                             *)
Accounted(settled, lead, A, S) ==
  \A c \in S : c \in A \/ (c \in settled /\ lead[c] \subseteq S)

(* What the components A account for: the largest such set.                   *)
Covers(settled, lead, A) ==
  {c \in Component :
     \E S \in SUBSET Component : c \in S /\ Accounted(settled, lead, A, S)}

(* What is reached from R through the components that have been processed.    *)
ClosedUnder(processed, lead, T) ==
  \A c \in T \cap processed : lead[c] \subseteq T
Reached(processed, lead, R) ==
  {c \in Component :
     \A T \in SUBSET Component :
       R \subseteq T /\ ClosedUnder(processed, lead, T) => c \in T}

(* The entries that name the components A are the work that the components in *)
(* source have left: they account for source, and are reached from it.        *)
IsWorkOf(settled, processed, lead, A, source) ==
  /\ source \subseteq Covers(settled, lead, A)
  /\ A \subseteq Reached(processed, lead, source)

Replaced == {c \in Component : Replacement(c) # NoComponent}
Full == fullyExpanded \cup base.fullyExpanded
Settled == Full \cup Replaced
Processed == Started \cup Replaced
Lead == [c \in Component |-> LeadsTo(c)]

(* The whole stack is the work of the roots, and what lies above an end       *)
(* marker that of its component.                                              *)
StackIsWork(s, settled, processed, lead, roots) ==
  /\ IsWorkOf(settled, processed, lead, Named(s, 0), roots)
  /\ \A i \in DOMAIN s : s[i].kind = "end_marker" =>
       IsWorkOf(settled, processed, lead, Named(s, i), lead[s[i].comp])

(* A component that is fully expanded leads to a set of settled components    *)
(* that leads nowhere else, and is not in it.                                 *)
LeadsAway(settled, lead, full) ==
  \A c \in full : \E T \in SUBSET Component :
    /\ Accounted(settled, lead, {}, T)
    /\ lead[c] \subseteq T
    /\ c \notin T

LoopIsReal == status = "installation_loop" =>
                Top.comp \in ReachableFrom(LeadsTo(Top.comp))

ClosureInv ==
  /\ LoopIsReal
  /\ status # "destroyed" =>
       /\ StackIsWork(stack, Settled, Processed, Lead, Roots)
       /\ LeadsAway(Settled, Lead, Full)
       /\ Started \subseteq Reached(Processed, Lead, Roots)

-----------------------------------------------------------------------------
(* What A accounts for is itself accounted for: it is a fixpoint.             *)
LEMMA CoversUnfold ==
  ASSUME NEW settled, NEW lead, NEW A,
         NEW c \in Covers(settled, lead, A)
  PROVE  c \in A \/ (c \in settled /\ lead[c] \subseteq Covers(settled, lead, A))
<1>1. PICK S \in SUBSET Component : c \in S /\ Accounted(settled, lead, A, S)
  BY DEF Covers
<1>2. S \subseteq Covers(settled, lead, A)
  BY <1>1 DEF Covers
<1>3. c \in A \/ (c \in settled /\ lead[c] \subseteq S)
  BY <1>1 DEF Accounted
<1> QED BY <1>2, <1>3

(* A set that is accounted for, but for members of a covered set, is covered. *)
LEMMA CoversJoin ==
  ASSUME NEW settled, NEW lead, NEW A, NEW S \in SUBSET Component,
         \A c \in S : \/ c \in Covers(settled, lead, A)
                      \/ c \in A
                      \/ /\ c \in settled
                         /\ lead[c] \subseteq S \cup Covers(settled, lead, A)
  PROVE  S \subseteq Covers(settled, lead, A)
<1> DEFINE V == Covers(settled, lead, A)
           U == S \cup V
<1>1. U \in SUBSET Component
  BY DEF Covers
<1>2. \A c \in V : c \in A \/ (c \in settled /\ lead[c] \subseteq V)
  BY CoversUnfold
<1>3. \A c \in U : c \in A \/ (c \in settled /\ lead[c] \subseteq U)
  <2> HIDE DEF V
  <2> SUFFICES ASSUME NEW c \in U
               PROVE  c \in A \/ (c \in settled /\ lead[c] \subseteq U)
    OBVIOUS
  <2>1. CASE c \in V
    BY <1>2, <2>1
  <2>2. CASE c \in S /\ c \notin V
    BY <2>2 DEF V
  <2> QED BY <2>1, <2>2
<1>4. Accounted(settled, lead, A, U)
  BY <1>3 DEF Accounted
<1>5. U \subseteq V
  BY <1>1, <1>4 DEF Covers
<1> QED BY <1>5

(* A settled component is covered when what it leads to is.                   *)
LEMMA CoversOne ==
  ASSUME NEW settled, NEW lead, NEW A, NEW c \in Component, c \in settled,
         lead[c] \subseteq Covers(settled, lead, A)
  PROVE  c \in Covers(settled, lead, A)
<1> DEFINE S == {c}
<1>1. S \in SUBSET Component
  OBVIOUS
<1>2. \A d \in S : /\ d \in settled
                   /\ lead[d] \subseteq S \cup Covers(settled, lead, A)
  OBVIOUS
<1> HIDE DEF S
<1>3. S \subseteq Covers(settled, lead, A)
  BY <1>1, <1>2, CoversJoin
<1> QED BY <1>3 DEF S

(* The components at hand are covered.                                        *)
LEMMA CoversItself ==
  ASSUME NEW settled, NEW lead, NEW A \in SUBSET Component
  PROVE  A \subseteq Covers(settled, lead, A)
<1>1. \A c \in A : c \in A
  OBVIOUS
<1> QED BY <1>1, CoversJoin

(* More components settle, and the work at hand is covered by other work.     *)
LEMMA CoversGrow ==
  ASSUME NEW settled, NEW lead, NEW A,
         NEW settled2, NEW lead2, NEW A2,
         settled \subseteq settled2,
         \A c \in settled : lead2[c] = lead[c],
         A \subseteq Covers(settled2, lead2, A2)
  PROVE  Covers(settled, lead, A) \subseteq Covers(settled2, lead2, A2)
<1> DEFINE S == Covers(settled, lead, A)
           V == Covers(settled2, lead2, A2)
<1>1. S \in SUBSET Component
  BY DEF Covers
<1>2. \A c \in S : c \in A \/ (c \in settled /\ lead[c] \subseteq S)
  BY CoversUnfold
<1> HIDE DEF S
<1>3. \A c \in S : c \in V \/ (c \in settled2 /\ lead2[c] \subseteq S \cup V)
  BY <1>2
<1>4. S \subseteq Covers(settled2, lead2, A2)
  BY <1>1, <1>3, CoversJoin
<1> QED BY <1>4 DEF S

-----------------------------------------------------------------------------
(* R is reached from R, and so is what a processed component leads to.        *)
LEMMA ReachedFixpoint ==
  ASSUME NEW processed, NEW lead, NEW R
  PROVE  /\ R \cap Component \subseteq Reached(processed, lead, R)
         /\ \A c \in Reached(processed, lead, R) \cap processed :
              lead[c] \cap Component \subseteq Reached(processed, lead, R)
<1>1. R \cap Component \subseteq Reached(processed, lead, R)
  BY DEF Reached
<1>2. ASSUME NEW c \in Reached(processed, lead, R) \cap processed,
             NEW d \in lead[c] \cap Component
      PROVE  d \in Reached(processed, lead, R)
  <2>1. SUFFICES ASSUME NEW T \in SUBSET Component,
                        R \subseteq T, ClosedUnder(processed, lead, T)
                 PROVE  d \in T
    BY DEF Reached
  <2>2. c \in T
    BY <2>1 DEF Reached
  <2> QED BY <2>1, <2>2 DEF ClosedUnder
<1> QED BY <1>1, <1>2

(* More components are processed, and R is reached from elsewhere.            *)
LEMMA ReachedGrow ==
  ASSUME NEW processed, NEW lead, NEW R,
         NEW processed2, NEW lead2, NEW R2,
         processed \subseteq processed2,
         \A c \in processed : lead2[c] = lead[c],
         R \subseteq Reached(processed2, lead2, R2)
  PROVE  Reached(processed, lead, R) \subseteq Reached(processed2, lead2, R2)
<1> SUFFICES ASSUME NEW c \in Reached(processed, lead, R),
                    NEW T \in SUBSET Component,
                    R2 \subseteq T, ClosedUnder(processed2, lead2, T)
             PROVE  c \in T
  BY DEF Reached
<1>1. R \subseteq T
  BY DEF Reached
<1>2. ClosedUnder(processed, lead, T)
  BY DEF ClosedUnder
<1> QED BY <1>1, <1>2 DEF Reached

(* A step turns the work A into A2: it loses nothing of A, and what it adds   *)
(* is reached from A.                                                         *)
LEMMA WorkGoesOn ==
  ASSUME NEW settled, NEW processed, NEW lead, NEW A, NEW source,
         NEW settled2, NEW processed2, NEW lead2, NEW A2,
         IsWorkOf(settled, processed, lead, A, source),
         settled \subseteq settled2, processed \subseteq processed2,
         settled \subseteq processed,
         \A c \in processed : lead2[c] = lead[c],
         A \subseteq Covers(settled2, lead2, A2),
         A2 \subseteq Reached(processed2, lead2, A)
  PROVE  IsWorkOf(settled2, processed2, lead2, A2, source)
<1>1. \A c \in settled : lead2[c] = lead[c]
  OBVIOUS
<1>2. Covers(settled, lead, A) \subseteq Covers(settled2, lead2, A2)
  BY <1>1, CoversGrow
<1>3. source \subseteq Covers(settled2, lead2, A2)
  BY <1>2 DEF IsWorkOf
<1>4. /\ source \subseteq Component
      /\ A \subseteq Reached(processed, lead, source)
  BY DEF IsWorkOf, Covers
<1>5. source \subseteq Reached(processed2, lead2, source)
  BY <1>4, ReachedFixpoint
<1>6. Reached(processed, lead, source) \subseteq Reached(processed2, lead2, source)
  BY <1>5, ReachedGrow
<1>7. A \subseteq Reached(processed2, lead2, source)
  BY <1>4, <1>6
<1>8. Reached(processed2, lead2, A) \subseteq Reached(processed2, lead2, source)
  BY <1>7, ReachedGrow
<1> QED BY <1>3, <1>8 DEF IsWorkOf

(* What is fully expanded is covered with no work left.                       *)
LEMMA FullIsCovered ==
  ASSUME NEW settled, NEW lead, NEW full \in SUBSET Component, NEW A,
         full \subseteq settled, LeadsAway(settled, lead, full)
  PROVE  full \subseteq Covers(settled, lead, A)
<1> SUFFICES ASSUME NEW c \in full PROVE c \in Covers(settled, lead, A)
  OBVIOUS
<1>1. PICK T \in SUBSET Component :
        Accounted(settled, lead, {}, T) /\ lead[c] \subseteq T
  BY DEF LeadsAway
<1>2. Accounted(settled, lead, A, T \cup {c})
  BY <1>1 DEF Accounted
<1> QED BY <1>2 DEF Covers

(* A component that leads to settled components only, and is not settled,     *)
(* leads away; so do those that did before it settled.                        *)
LEMMA LeadsAwayGrow ==
  ASSUME NEW settled, NEW lead, NEW full, NEW settled2, NEW lead2, NEW full2,
         LeadsAway(settled, lead, full), settled \subseteq settled2,
         \A c \in settled : lead2[c] = lead[c],
         full \subseteq settled,
         \A c \in full2 \ full :
           c \notin settled /\ lead2[c] \subseteq Covers(settled, lead, {})
  PROVE  LeadsAway(settled2, lead2, full2)
<1> SUFFICES ASSUME NEW c \in full2
             PROVE  \E T \in SUBSET Component :
                      /\ Accounted(settled2, lead2, {}, T)
                      /\ lead2[c] \subseteq T
                      /\ c \notin T
  BY DEF LeadsAway
<1>1. CASE c \in full
  <2>1. PICK T \in SUBSET Component :
          Accounted(settled, lead, {}, T) /\ lead[c] \subseteq T /\ c \notin T
    BY <1>1 DEF LeadsAway
  <2>2. Accounted(settled2, lead2, {}, T) /\ lead2[c] \subseteq T
    BY <1>1, <2>1 DEF Accounted
  <2> QED BY <2>1, <2>2
<1>2. CASE c \notin full
  <2> DEFINE T == Covers(settled, lead, {})
  <2>1. T \in SUBSET Component
    BY DEF Covers
  <2>2. \A d \in T : d \in settled /\ lead[d] \subseteq T
    BY CoversUnfold
  <2> HIDE DEF T
  <2>3. Accounted(settled2, lead2, {}, T)
    BY <2>2 DEF Accounted
  <2>4. lead2[c] \subseteq T /\ c \notin T
    BY <1>2, <2>2 DEF T
  <2> QED BY <2>1, <2>3, <2>4
<1> QED BY <1>1, <1>2

-----------------------------------------------------------------------------
(* The components that a stack names, and those that a component leads to.    *)
LEMMA NamedType ==
  ASSUME NEW s \in Seq(Entry), NEW i
  PROVE  Named(s, i) \subseteq Component
<1> SUFFICES ASSUME NEW j \in DOMAIN s, s[j].kind \in {"lazy", "end_marker"}
             PROVE  s[j].comp \in Component
  BY DEF Named
<1>1. s[j] \in Entry
  BY ElementOfSeq, LenProperties
<1> QED BY <1>1, EntryOfKind DEF ComponentKind, ComponentEntry

(* Without end markers, a body names what the component installs.             *)
LEMMA InstalledIsNamed ==
  ASSUME TypeInv, NEW c \in Component
  PROVE  Installed(c) = Named(prog.body[c], 0)
<1>1. /\ prog.body[c] \in Seq(Entry) /\ NoMarkers(prog.body[c])
      /\ DOMAIN prog.body[c] = 1 .. Len(prog.body[c])
  BY ProgramType, LenProperties DEF TypeInv
<1>2. \A j \in DOMAIN prog.body[c] : j > 0
  BY <1>1, LenProperties
<1> QED BY <1>1, <1>2 DEF Installed, Entries, Named, NoMarkers

(* A component leads to components.                                           *)
LEMMA LeadType ==
  ASSUME TypeInv, NEW c \in Component
  PROVE  LeadsTo(c) \in SUBSET Component /\ Lead[c] = LeadsTo(c)
<1>1. Replacement(c) \in Component \cup {NoComponent}
  BY ReplacementType DEF TypeInv
<1>2. Installed(c) \subseteq Component
  <2>1. prog.body[c] \in Seq(Entry)
    BY ProgramType DEF TypeInv
  <2> QED BY <2>1, InstalledIsNamed, NamedType
<1> QED BY <1>1, <1>2 DEF LeadsTo, Lead

(* Popping entries leaves those that name a component under them.             *)
LEMMA PopNamed ==
  ASSUME stack \in Seq(Entry), NEW n \in Nat, n <= Len(stack), NEW i
  PROVE  /\ Named(Pop(n), i) \subseteq Named(stack, i)
         /\ Named(stack, i) \subseteq
              Named(Pop(n), i) \cup Named(stack, Len(stack) - n)
<1> DEFINE m == Len(stack) - n
           p == Pop(n)
<1>1. /\ Len(stack) \in Nat /\ DOMAIN stack = 1 .. Len(stack)
      /\ m \in Nat /\ DOMAIN p = 1 .. m
      /\ \A j \in 1 .. m : p[j] = stack[j]
  BY PopProperties, LenProperties
<1> HIDE DEF m, p
<1>2. /\ \A j \in DOMAIN p : j \in DOMAIN stack /\ p[j] = stack[j]
      /\ \A j \in DOMAIN stack : j > m \/ (j \in DOMAIN p /\ p[j] = stack[j])
  <2>1. m <= Len(stack)
    BY <1>1 DEF m
  <2> QED BY <1>1, <2>1
<1>3. Named(p, i) \subseteq Named(stack, i)
  BY <1>2 DEF Named
<1>4. Named(stack, i) \subseteq Named(p, i) \cup Named(stack, m)
  BY <1>2 DEF Named
<1> QED BY <1>3, <1>4 DEF m, p

(* Only the entry at the back lies above the others.                          *)
LEMMA TopNamed ==
  ASSUME stack \in Seq(Entry), stack # <<>>
  PROVE  /\ Named(stack, Len(stack) - 1) =
              IF Top.kind \in {"lazy", "end_marker"} THEN {Top.comp} ELSE {}
         /\ Top.kind \in {"lazy", "end_marker"} =>
              \A i \in 0 .. Len(stack) - 1 : Top.comp \in Named(stack, i)
<1>1. /\ Len(stack) \in Nat \ {0} /\ DOMAIN stack = 1 .. Len(stack)
      /\ Top = stack[Len(stack)]
  BY TopProperties DEF Top
<1>2. \A j \in DOMAIN stack : j > Len(stack) - 1 <=> j = Len(stack)
  BY <1>1
<1>3. \A i \in 0 .. Len(stack) - 1 : Len(stack) > i
  BY <1>1
<1> QED BY <1>1, <1>2, <1>3 DEF Named

(* The two entries at the back name nothing if neither names a component.     *)
LEMMA TopTwoNamed ==
  ASSUME stack \in Seq(Entry), Len(stack) > 1,
         Top.kind \notin {"lazy", "end_marker"},
         Under.kind \notin {"lazy", "end_marker"}
  PROVE  Named(stack, Len(stack) - 2) = {}
<1>1. /\ Len(stack) \in Nat /\ DOMAIN stack = 1 .. Len(stack)
      /\ Top = stack[Len(stack)] /\ Under = stack[Len(stack) - 1]
  BY LenProperties DEF Top, Under
<1>2. \A j \in DOMAIN stack :
        j > Len(stack) - 2 => j = Len(stack) \/ j = Len(stack) - 1
  BY <1>1
<1> QED BY <1>1, <1>2 DEF Named

(* The entry at the back is replaced.                                         *)
LEMMA ReplaceTopNamed ==
  ASSUME stack \in Seq(Entry), stack # <<>>, NEW e \in Entry,
         e.kind \in {"lazy", "end_marker"}, NEW i \in 0 .. Len(stack) - 1
  PROVE  Named(ReplaceTop(e), i) = Named(Pop(1), i) \cup {e.comp}
<1> DEFINE n == Len(stack)
           s == ReplaceTop(e)
           p == Pop(1)
<1>1. /\ n \in Nat \ {0} /\ DOMAIN stack = 1 .. n /\ 1 <= n
  BY TopProperties
<1>2. /\ DOMAIN s = 1 .. n /\ s[n] = e
      /\ \A j \in 1 .. n - 1 : s[j] = stack[j]
  BY <1>1, ReplaceTopProperties
<1>3. /\ DOMAIN p = 1 .. n - 1
      /\ \A j \in 1 .. n - 1 : p[j] = stack[j]
  BY <1>1, PopProperties
<1>4. n > i
  BY <1>1
<1> HIDE DEF n, s, p
<1>5. /\ n \in DOMAIN s /\ s[n] = e
      /\ \A j \in DOMAIN s : j = n \/ (j \in DOMAIN p /\ s[j] = p[j])
      /\ \A j \in DOMAIN p : j \in DOMAIN s /\ s[j] = p[j]
  BY <1>1, <1>2, <1>3
<1>6. Named(s, i) = Named(p, i) \cup {e.comp}
  BY <1>4, <1>5 DEF Named
<1> QED BY <1>6 DEF s, p

(* Entries are put on top.                                                    *)
LEMMA ConcatNamed ==
  ASSUME NEW s \in Seq(Entry), NEW t \in Seq(Entry), NEW i \in 0 .. Len(s)
  PROVE  Named(s \o t, i) = Named(s, i) \cup Named(t, 0)
<1> DEFINE u == s \o t
           m == Len(s)
<1>1. /\ m \in Nat /\ Len(t) \in Nat
      /\ DOMAIN s = 1 .. m /\ DOMAIN t = 1 .. Len(t)
  BY LenProperties
<1>2. /\ u \in Seq(Entry) /\ Len(u) = m + Len(t)
      /\ \A j \in 1 .. m + Len(t) : u[j] = IF j <= m THEN s[j] ELSE t[j - m]
  BY ConcatProperties
<1>3. DOMAIN u = 1 .. m + Len(t)
  BY <1>2, LenProperties
<1>4. i \in 0 .. m
  OBVIOUS
<1> HIDE DEF u, m
<1>5. /\ \A j \in DOMAIN u : \/ j \in DOMAIN s /\ u[j] = s[j]
                             \/ j - m \in DOMAIN t /\ u[j] = t[j - m] /\ j - m > 0
      /\ \A j \in DOMAIN s : j \in DOMAIN u /\ u[j] = s[j]
      /\ \A j \in DOMAIN t : m + j \in DOMAIN u /\ u[m + j] = t[j] /\ m + j > i
  BY <1>1, <1>2, <1>3, <1>4
<1>6. Named(u, i) \subseteq Named(s, i) \cup Named(t, 0)
  BY <1>5 DEF Named
<1>7. Named(s, i) \subseteq Named(u, i) /\ Named(t, 0) \subseteq Named(u, i)
  BY <1>5 DEF Named
<1> QED BY <1>6, <1>7 DEF u

(* Whatever is popped, what stays named was named.                            *)
LEMMA PopReached ==
  ASSUME stack \in Seq(Entry), NEW n \in Nat, n <= Len(stack), NEW i,
         NEW processed, NEW lead
  PROVE  Named(Pop(n), i) \subseteq Reached(processed, lead, Named(stack, i))
<1>1. Named(Pop(n), i) \subseteq Named(stack, i)
  BY PopNamed
<1>2. Named(stack, i) \subseteq Reached(processed, lead, Named(stack, i))
  BY NamedType, ReachedFixpoint
<1> QED BY <1>1, <1>2

(* What the entry at the back is replaced by, it leads to.                    *)
LEMMA ReplaceTopReached ==
  ASSUME stack \in Seq(Entry), stack # <<>>, Top.kind = "lazy",
         NEW e \in Entry, e.kind \in {"lazy", "end_marker"},
         NEW i \in 0 .. Len(stack) - 1, NEW processed, NEW lead,
         e.comp = Top.comp \/ (Top.comp \in processed /\ e.comp \in lead[Top.comp])
  PROVE  Named(ReplaceTop(e), i) \subseteq Reached(processed, lead, Named(stack, i))
<1> DEFINE A == Named(stack, i)
           P == Named(Pop(1), i)
<1>1. Named(ReplaceTop(e), i) = P \cup {e.comp}
  BY ReplaceTopNamed
<1>2. 1 \in Nat /\ 1 <= Len(stack)
  BY TopProperties
<1>3. P \subseteq Reached(processed, lead, A)
  BY <1>2, PopReached
<1>4. A \subseteq Reached(processed, lead, A) /\ Top.comp \in A
  BY NamedType, ReachedFixpoint, TopNamed
<1>5. e.comp \in Component
  BY EntryOfKind DEF ComponentKind, ComponentEntry
<1>6. Top.comp \in processed =>
        lead[Top.comp] \cap Component \subseteq Reached(processed, lead, A)
  BY <1>4, ReachedFixpoint
<1> QED BY <1>1, <1>3, <1>4, <1>5, <1>6

(* The entries of a component that is expanded name what it leads to.         *)
LEMMA ExpandReached ==
  ASSUME stack \in Seq(Entry), stack # <<>>, Top.kind = "lazy",
         NEW e \in Entry, e.kind = "end_marker", e.comp = Top.comp,
         NEW body \in Seq(Entry), NEW processed, NEW lead,
         Top.comp \in processed, Named(body, 0) \subseteq lead[Top.comp],
         NEW i \in 0 .. Len(stack) - 1
  PROVE  Named(ReplaceTop(e) \o body, i)
           \subseteq Reached(processed, lead, Named(stack, i))
<1> DEFINE A == Named(stack, i)
<1>1. /\ ReplaceTop(e) \in Seq(Entry) /\ Len(ReplaceTop(e)) = Len(stack)
      /\ Len(stack) \in Nat
  BY ReplaceTopProperties, TopProperties
<1>2. i \in 0 .. Len(ReplaceTop(e))
  BY <1>1
<1>3. Named(ReplaceTop(e) \o body, i)
        = Named(ReplaceTop(e), i) \cup Named(body, 0)
  BY <1>1, <1>2, ConcatNamed
<1>4. Named(ReplaceTop(e), i) \subseteq Reached(processed, lead, A)
  BY ReplaceTopReached
<1>5. Top.comp \in Reached(processed, lead, A)
  BY NamedType, ReachedFixpoint, TopNamed
<1>6. Named(body, 0) \subseteq Reached(processed, lead, A)
  BY <1>5, NamedType, ReachedFixpoint
<1> QED BY <1>3, <1>4, <1>6

(* The stack is still the work of the roots, and what lies above an end       *)
(* marker that of its component, when a step keeps the work and what it adds  *)
(* is reached from it.                                                        *)
LEMMA StackGoesOn ==
  ASSUME NEW s, NEW settled, NEW processed, NEW lead, NEW roots,
         NEW s2, NEW settled2, NEW processed2, NEW lead2,
         StackIsWork(s, settled, processed, lead, roots),
         settled \subseteq settled2, processed \subseteq processed2,
         settled \subseteq processed,
         \A c \in processed : lead2[c] = lead[c],
         \A i \in {0} \cup (DOMAIN s \cap DOMAIN s2) :
           i = 0 \/ (s2[i].kind = "end_marker" /\ s[i].kind = "end_marker") =>
             /\ Named(s, i) \subseteq Covers(settled2, lead2, Named(s2, i))
             /\ Named(s2, i) \subseteq Reached(processed2, lead2, Named(s, i)),
         \A i \in DOMAIN s2 : s2[i].kind = "end_marker" =>
           \/ i \in DOMAIN s /\ s[i] = s2[i] /\ s[i].comp \in processed
           \/ IsWorkOf(settled2, processed2, lead2, Named(s2, i),
                       lead2[s2[i].comp])
  PROVE  StackIsWork(s2, settled2, processed2, lead2, roots)
<1>1. IsWorkOf(settled2, processed2, lead2, Named(s2, 0), roots)
  <2>1. IsWorkOf(settled, processed, lead, Named(s, 0), roots)
    BY DEF StackIsWork
  <2>2. /\ Named(s, 0) \subseteq Covers(settled2, lead2, Named(s2, 0))
        /\ Named(s2, 0) \subseteq Reached(processed2, lead2, Named(s, 0))
    OBVIOUS
  <2> QED BY <2>1, <2>2, WorkGoesOn
<1>2. ASSUME NEW i \in DOMAIN s2, s2[i].kind = "end_marker",
             i \in DOMAIN s, s[i] = s2[i], s[i].comp \in processed
      PROVE  IsWorkOf(settled2, processed2, lead2, Named(s2, i),
                      lead2[s2[i].comp])
  <2>1. IsWorkOf(settled, processed, lead, Named(s, i), lead[s[i].comp])
    BY <1>2 DEF StackIsWork
  <2>2. /\ Named(s, i) \subseteq Covers(settled2, lead2, Named(s2, i))
        /\ Named(s2, i) \subseteq Reached(processed2, lead2, Named(s, i))
    BY <1>2
  <2>3. IsWorkOf(settled2, processed2, lead2, Named(s2, i), lead[s[i].comp])
    BY <2>1, <2>2, WorkGoesOn
  <2> QED BY <1>2, <2>3
<1> QED BY <1>1, <1>2 DEF StackIsWork

(* What has settled has been processed; a component that has started has no   *)
(* replacement, and each end marker is of a component that has started.       *)
LEMMA ProcessedFacts ==
  ASSUME TypeInv, ExpansionInv
  PROVE  /\ Settled \subseteq Processed /\ Full \subseteq Settled
         /\ Processed \subseteq Component
         /\ Full \subseteq Component
         /\ Started = inProgress \cup Full
         /\ Started \cap Replaced = {}
         /\ inProgress \cap Settled = {}
         /\ \A i \in DOMAIN stack : stack[i].kind = "end_marker" =>
              stack[i].comp \in inProgress
         /\ \A c \in Component : c \in Replaced => Lead[c] = {Replacement(c)}
         /\ \A c \in Component : c \notin Replaced => Lead[c] = Installed(c)
<1>1. /\ inProgress \subseteq Component /\ fullyExpanded \subseteq Component
      /\ base.fullyExpanded \subseteq Component
  BY DEF TypeInv, TypeOK, NormalizedComponentStorage
<1>2. Started = inProgress \cup Full
  BY DEF Started, Full
<1>3. Replaced \subseteq Component /\ Started \cap Replaced = {}
  BY <1>1 DEF ExpansionInv, ReplacedNeverInstalled, Replaced
<1>4. inProgress \cap Full = {}
  BY DEF ExpansionInv, ExpandedOnce, Full
<1>5. \A i \in DOMAIN stack : stack[i].kind = "end_marker" =>
        stack[i].comp \in inProgress
  BY DEF ExpansionInv, MarkersMatchInProgress, MarkersMatch
<1>6. \A c \in Component : Lead[c] = LeadsTo(c)
  BY LeadType
<1>7. \A c \in Component :
        c \in Replaced <=> Replacement(c) # NoComponent
  BY DEF Replaced
<1> QED BY <1>1, <1>2, <1>3, <1>4, <1>5, <1>6, <1>7
        DEF Settled, Processed, Full, LeadsTo

(* A step of the expansion keeps the invariant when it keeps the work of the  *)
(* stack, expands only components that the stack names, and finishes only     *)
(* components that lead away.                                                 *)
LEMMA ClosureStep ==
  ASSUME TypeInv, ExpansionInv, ClosureInv, status # "destroyed",
         status' # "installation_loop", Roots' = Roots,
         StackIsWork(stack', Settled', Processed', Lead', Roots),
         Settled \subseteq Settled', Processed \subseteq Processed',
         \A c \in Processed : Lead'[c] = Lead[c],
         Started' \subseteq Started \cup Named(stack, 0),
         \A c \in Full' \ Full :
           c \notin Settled /\ Lead'[c] \subseteq Covers(Settled, Lead, {})
  PROVE  ClosureInv'
<1>1. Settled \subseteq Processed /\ Full \subseteq Settled
  BY ProcessedFacts
<1>2. LeadsAway(Settled', Lead', Full')
  BY <1>1, LeadsAwayGrow DEF ClosureInv
<1>3. Started' \subseteq Reached(Processed', Lead', Roots)
  <2>1. /\ Named(stack, 0) \subseteq Reached(Processed, Lead, Roots)
        /\ Started \subseteq Reached(Processed, Lead, Roots)
        /\ Roots \subseteq Component
    BY DEF ClosureInv, StackIsWork, IsWorkOf, Covers
  <2>2. Roots \subseteq Reached(Processed', Lead', Roots)
    BY <2>1, ReachedFixpoint
  <2>3. Reached(Processed, Lead, Roots) \subseteq Reached(Processed', Lead', Roots)
    BY <2>2, ReachedGrow
  <2> QED BY <2>1, <2>3
<1>4. StackIsWork(stack', Settled', Processed', Lead', Roots')
  OBVIOUS
<1>5. Started' \subseteq Reached(Processed', Lead', Roots')
  BY <1>3
<1>6. LoopIsReal'
  BY DEF LoopIsReal
<1> QED BY <1>2, <1>4, <1>5, <1>6 DEF ClosureInv

(* Where nothing is expanded or replaced, what has settled and where the      *)
(* components lead does not change.                                           *)
LEMMA SameExpansion ==
  ASSUME UNCHANGED <<prog, inProgress, fullyExpanded, replacements, base>>
  PROVE  /\ Settled' = Settled /\ Processed' = Processed /\ Full' = Full
         /\ Started' = Started /\ Lead' = Lead /\ Replaced' = Replaced
         /\ \A c : LeadsTo(c)' = LeadsTo(c)
<1>1. \A c : Replacement(c)' = Replacement(c)
  BY DEF Replacement
<1>2. \A c : Entries(c)' = Entries(c)
  BY DEF Entries
<1>3. \A c : Installed(c)' = Installed(c)
  BY <1>2 DEF Installed
<1>4. \A c : LeadsTo(c)' = LeadsTo(c)
  BY <1>1, <1>3 DEF LeadsTo
<1>5. Replaced' = Replaced /\ Full' = Full /\ Started' = Started
  BY <1>1 DEF Replaced, Full, Started
<1>6. Lead' = Lead
  BY <1>4 DEF Lead
<1> QED BY <1>4, <1>5, <1>6 DEF Settled, Processed

(* Entries are popped that name only components that are accounted for.       *)
LEMMA PopWork ==
  ASSUME TypeInv, ExpansionInv, ClosureInv, status = "running",
         status' = "running", Roots' = Roots,
         NEW n \in Nat, n <= Len(stack), stack' = Pop(n),
         Settled \subseteq Settled', Processed \subseteq Processed',
         \A c \in Processed : Lead'[c] = Lead[c],
         Named(stack, Len(stack) - n) \subseteq Covers(Settled', Lead', {}),
         Started' = Started,
         \A c \in Full' \ Full :
           c \notin Settled /\ Lead'[c] \subseteq Covers(Settled, Lead, {})
  PROVE  ClosureInv'
<1>1. /\ stack \in Seq(Entry)
      /\ StackIsWork(stack, Settled, Processed, Lead, Roots)
      /\ Settled \subseteq Processed
  BY ProcessedFacts DEF TypeInv, TypeOK, ClosureInv
<1>2. /\ DOMAIN stack' \subseteq DOMAIN stack
      /\ \A i \in DOMAIN stack' : stack'[i] = stack[i]
      /\ stack' \in Seq(Entry)
  <2>1. /\ DOMAIN Pop(n) = 1 .. Len(stack) - n /\ Pop(n) \in Seq(Entry)
        /\ \A i \in 1 .. Len(stack) - n : Pop(n)[i] = stack[i]
        /\ Len(stack) \in Nat /\ DOMAIN stack = 1 .. Len(stack)
    BY <1>1, PopProperties, LenProperties
  <2> QED BY <2>1
<1>3. ASSUME NEW i
      PROVE  /\ Named(stack, i) \subseteq Covers(Settled', Lead', Named(stack', i))
             /\ Named(stack', i) \subseteq Reached(Processed', Lead', Named(stack, i))
  <2> DEFINE A == Named(stack, i)
             A2 == Named(stack', i)
  <2>1. A2 \subseteq A /\ A \subseteq A2 \cup Named(stack, Len(stack) - n)
    BY <1>1, PopNamed
  <2>2. A2 \subseteq Component
    BY <1>2, NamedType
  <2>3. A2 \subseteq Reached(Processed', Lead', A)
    BY <1>1, PopReached
  <2> HIDE DEF A, A2
  <2>4. Covers(Settled', Lead', {}) \subseteq Covers(Settled', Lead', A2)
    BY CoversGrow
  <2>5. A2 \subseteq Covers(Settled', Lead', A2)
    BY <2>2, CoversItself
  <2>6. A \subseteq Covers(Settled', Lead', A2)
    BY <2>1, <2>4, <2>5
  <2> QED BY <2>3, <2>6 DEF A, A2
<1>4. \A i \in DOMAIN stack' : stack'[i].kind = "end_marker" =>
        i \in DOMAIN stack /\ stack[i] = stack'[i] /\ stack[i].comp \in Processed
  BY <1>2, ProcessedFacts DEF Processed
<1>5. StackIsWork(stack', Settled', Processed', Lead', Roots)
  BY <1>1, <1>3, <1>4, StackGoesOn
<1> QED BY <1>5, ClosureStep

(* A step that leaves the expansion alone leaves the invariant alone.         *)
LEMMA NoWork ==
  ASSUME ClosureInv, status # "destroyed",
         UNCHANGED <<prog, stack, inProgress, fullyExpanded, replacements, base>>,
         Roots' = Roots, status' # "installation_loop"
  PROVE  ClosureInv'
<1>1. /\ Settled' = Settled /\ Processed' = Processed /\ Full' = Full
      /\ Started' = Started /\ Lead' = Lead
  BY SameExpansion
<1>2. /\ StackIsWork(stack, Settled, Processed, Lead, Roots)
      /\ LeadsAway(Settled, Lead, Full)
      /\ Started \subseteq Reached(Processed, Lead, Roots)
  BY DEF ClosureInv
<1>3. /\ StackIsWork(stack', Settled', Processed', Lead', Roots')
      /\ LeadsAway(Settled', Lead', Full')
      /\ Started' \subseteq Reached(Processed', Lead', Roots')
  BY <1>1, <1>2
<1> QED BY <1>3 DEF ClosureInv, LoopIsReal

(* Popping an entry, or a pair, that names no component to expand.            *)
LEMMA PopUnnamed ==
  ASSUME TypeInv, ExpansionInv, ClosureInv, status = "running",
         status' = "running", phase' = phase,
         UNCHANGED <<prog, inProgress, fullyExpanded, replacements, base>>,
         NEW n \in Nat, n <= Len(stack), stack' = Pop(n),
         Named(stack, Len(stack) - n) = {}
  PROVE  ClosureInv'
<1>1. /\ Settled' = Settled /\ Processed' = Processed /\ Full' = Full
      /\ Started' = Started /\ Lead' = Lead /\ Roots' = Roots
  BY SameExpansion DEF Roots
<1> QED BY <1>1, PopWork

(* HandleBinding and HandleCompressedBinding.                                 *)
LEMMA PopOneUnnamed ==
  ASSUME TypeInv, ExpansionInv, ClosureInv, NEW kinds, Handling(kinds),
         kinds \cap {"lazy", "end_marker"} = {},
         UNCHANGED <<prog, phase, status, inProgress, fullyExpanded,
                     replacements, base>>,
         stack' = Pop(1)
  PROVE  ClosureInv'
<1>1. /\ stack \in Seq(Entry) /\ stack # <<>> /\ Top.kind \in kinds
      /\ status = "running"
  BY HandledEntry DEF TypeInv, TypeOK, Handling
<1>2. Named(stack, Len(stack) - 1) = {}
  BY <1>1, TopNamed
<1>3. 1 \in Nat /\ 1 <= Len(stack)
  BY <1>1, TopProperties
<1> QED BY <1>1, <1>2, <1>3, PopUnnamed

(* The entry under a closing one names no component to expand.                *)
LEMMA PairIsUnnamed ==
  ASSUME TypeInv, stack # <<>>,
         Top.kind \in {"replaced", "multibinding_vector_creator"}
  PROVE  /\ 2 \in Nat /\ 2 <= Len(stack)
         /\ Named(stack, Len(stack) - 2) = {}
<1>1. /\ stack \in Seq(Entry) /\ Len(stack) \in Nat /\ Len(stack) > 1
      /\ Under.kind \in {"replacement"} \cup MultibindingKind
  BY UnderProperties, TopProperties DEF TypeInv, TypeOK
<1>2. Under.kind \notin {"lazy", "end_marker"}
  BY <1>1 DEF MultibindingKind
<1> QED BY <1>1, <1>2, TopTwoNamed

(* HandleMultibinding and HandleReplacedAgain.                                *)
LEMMA PopTwoUnnamed ==
  ASSUME TypeInv, ExpansionInv, ClosureInv, NEW kinds, Handling(kinds),
         kinds \subseteq {"replaced", "multibinding_vector_creator"},
         UNCHANGED <<prog, phase, status, inProgress, fullyExpanded,
                     replacements, base>>,
         stack' = Pop(2)
  PROVE  ClosureInv'
<1>1. /\ stack # <<>> /\ Top.kind \in kinds /\ status = "running"
  BY HandledEntry DEF Handling
<1> QED BY <1>1, PairIsUnnamed, PopUnnamed

(* A component gets a replacement before it has started: it leads elsewhere,  *)
(* but nothing that has been processed does.                                  *)
LEMMA ReplacedGrows ==
  ASSUME TypeInv, ExpansionInv, HandleReplaced
  PROVE  /\ Settled \subseteq Settled' /\ Processed \subseteq Processed'
         /\ \A d \in Processed : Lead'[d] = Lead[d]
         /\ Started' = Started /\ Full' = Full
<1> DEFINE c == Top.comp
<1>1. /\ stack # <<>> /\ Top.kind = "replaced" /\ status = "running"
      /\ c \in Component /\ Under.comp \in Component
  BY HandledEntry DEF HandleReplaced, Handling, ComponentKind
<1>2. /\ c \notin Started /\ Replacement(c) = NoComponent
      /\ UNCHANGED <<prog, phase, status, inProgress, fullyExpanded, base>>
      /\ replacements' = [replacements EXCEPT ![c] = Under.comp]
      /\ stack' = Pop(2)
  BY DEF HandleReplaced, HasStarted, Started, storageVars
<1>3. PICK r \in Component : r = c
  BY <1>1
<1>4. \A d \in Component :
        /\ d # r => Replacement(d)' = Replacement(d)
        /\ d = r => Replacement(d)' = Under.comp
  BY <1>2, <1>3 DEF Replacement, TypeInv, TypeOK, ReplacementMap
<1>5. Replaced' = Replaced \cup {r} /\ Started' = Started /\ Full' = Full
  <2>1. Under.comp # NoComponent
    BY <1>1, ComponentAssumption
  <2>2. \A d \in Component : Replacement(d)' # NoComponent
                               <=> Replacement(d) # NoComponent \/ d = r
    BY <1>4, <2>1
  <2> QED BY <1>2, <1>3, <2>2 DEF Replaced, Started, Full
<1>6. Settled \subseteq Settled' /\ Processed \subseteq Processed'
  BY <1>5 DEF Settled, Processed
<1>7. \A d \in Component : d # r => Lead'[d] = Lead[d]
  <2>1. \A d : Installed(d)' = Installed(d)
    BY <1>2 DEF Installed, Entries
  <2>2. \A d \in Component : d # r => LeadsTo(d)' = LeadsTo(d)
    BY <1>4, <2>1 DEF LeadsTo
  <2> QED BY <2>2 DEF Lead
<1>8. \A d \in Processed : Lead'[d] = Lead[d]
  <2>1. r \notin Processed
    BY <1>2, <1>3 DEF Processed, Replaced
  <2> QED BY <1>7, <2>1, ProcessedFacts
<1> QED BY <1>5, <1>6, <1>8

(* HandleReplaced.                                                            *)
LEMMA ReplacedWork ==
  ASSUME TypeInv, ExpansionInv, ClosureInv, HandleReplaced
  PROVE  ClosureInv'
<1>1. /\ stack # <<>> /\ Top.kind = "replaced" /\ status = "running"
      /\ status' = "running" /\ stack' = Pop(2) /\ Roots' = Roots
  BY HandledEntry DEF HandleReplaced, Handling, Roots
<1>2. 2 \in Nat /\ 2 <= Len(stack) /\ Named(stack, Len(stack) - 2) = {}
  BY <1>1, PairIsUnnamed
<1> QED BY <1>1, <1>2, ReplacedGrows, PopWork

(* A component that is expanded already is skipped.                           *)
LEMMA SkipWork ==
  ASSUME TypeInv, ExpansionInv, ClosureInv, SkipLazyComponent
  PROVE  ClosureInv'
<1>1. /\ stack # <<>> /\ Top.kind = "lazy" /\ status = "running"
      /\ Top.comp \in Full /\ stack' = Pop(1) /\ stack \in Seq(Entry)
      /\ UNCHANGED <<prog, phase, status, inProgress, fullyExpanded,
                     replacements, base>>
  BY HandledEntry
     DEF SkipLazyComponent, Handling, IsExpanded, Full, storageVars, TypeInv,
         TypeOK
<1>2. Named(stack, Len(stack) - 1) \subseteq Full
  BY <1>1, TopNamed
<1>3. Full \subseteq Covers(Settled, Lead, {})
  BY ProcessedFacts, FullIsCovered, <1>1 DEF ClosureInv
<1>4. 1 \in Nat /\ 1 <= Len(stack)
  BY <1>1, TopProperties
<1>5. /\ Settled' = Settled /\ Processed' = Processed /\ Full' = Full
      /\ Started' = Started /\ Lead' = Lead /\ Roots' = Roots
  BY <1>1, SameExpansion DEF Roots
<1> QED BY <1>1, <1>2, <1>3, <1>4, <1>5, PopWork

(* A component whose marker is reached has no work left: it settles.          *)
LEMMA EndMarkerWork ==
  ASSUME TypeInv, ExpansionInv, ClosureInv, HandleEndMarker
  PROVE  ClosureInv'
<1>1. /\ stack # <<>> /\ Top.kind = "end_marker" /\ status = "running"
      /\ stack' = Pop(1) /\ stack \in Seq(Entry)
      /\ inProgress' = inProgress \ {Top.comp}
      /\ fullyExpanded' = fullyExpanded \cup {Top.comp}
      /\ UNCHANGED <<prog, phase, status, replacements, base>>
  BY HandledEntry DEF HandleEndMarker, Handling, storageVars, TypeInv, TypeOK
<1>2. PICK c : c = Top.comp
  OBVIOUS
<1>3. /\ Len(stack) \in DOMAIN stack /\ stack[Len(stack)] = Top
      /\ Len(stack) \in Nat /\ DOMAIN stack = 1 .. Len(stack)
      /\ 1 \in Nat /\ 1 <= Len(stack)
  BY <1>1, TopProperties DEF Top
<1>4. c \in inProgress /\ c \notin Settled /\ c \in Component
  BY <1>1, <1>2, <1>3, ProcessedFacts DEF Processed
<1>5. /\ Replaced' = Replaced /\ Full' = Full \cup {c} /\ Started' = Started
      /\ Lead' = Lead /\ Roots' = Roots
  <2>1. \A d : Replacement(d)' = Replacement(d)
    BY <1>1 DEF Replacement
  <2>2. \A d : LeadsTo(d)' = LeadsTo(d)
    BY <1>1, <2>1 DEF LeadsTo, Installed, Entries
  <2>3. Replaced' = Replaced /\ Lead' = Lead
    BY <2>1, <2>2 DEF Replaced, Lead
  <2> QED BY <1>1, <1>2, <1>4, <2>3 DEF Full, Started, Roots
<1>6. Settled' = Settled \cup {c} /\ Processed' = Processed
  BY <1>5 DEF Settled, Processed
<1>7. Named(stack, Len(stack)) = {}
  BY <1>3 DEF Named
<1>8. Lead[c] \subseteq Covers(Settled, Lead, {})
  BY <1>1, <1>2, <1>3, <1>7 DEF ClosureInv, StackIsWork, IsWorkOf
<1>9. c \in Covers(Settled', Lead', {})
  <2>1. Covers(Settled, Lead, {}) \subseteq Covers(Settled', Lead', {})
    BY <1>5, <1>6, CoversGrow
  <2>2. c \in Settled' /\ Lead'[c] \subseteq Covers(Settled', Lead', {})
    BY <1>5, <1>6, <1>8, <2>1
  <2> QED BY <1>4, <2>2, CoversOne
<1>10. Named(stack, Len(stack) - 1) \subseteq Covers(Settled', Lead', {})
  BY <1>1, <1>2, <1>9, TopNamed
<1> QED BY <1>1, <1>3, <1>4, <1>5, <1>6, <1>8, <1>10, PopWork

(* A lazy entry becomes that of the replacement: the replaced component has   *)
(* settled, and leads to its replacement only.                                *)
LEMMA PerformReplacementWork ==
  ASSUME TypeInv, ExpansionInv, ClosureInv, PerformComponentReplacement
  PROVE  ClosureInv'
<1>1. PICK c, r : c = Top.comp /\ r = Replacement(Top.comp)
  OBVIOUS
<1>2. /\ stack # <<>> /\ Top.kind = "lazy" /\ status = "running"
      /\ stack \in Seq(Entry) /\ c \in Component
      /\ r # NoComponent
      /\ stack' = ReplaceTop([kind |-> "lazy", comp |-> r])
      /\ UNCHANGED <<prog, phase, status, inProgress, fullyExpanded,
                     replacements, base>>
  BY <1>1, HandledEntry
     DEF PerformComponentReplacement, Handling, ComponentKind, storageVars,
         TypeInv, TypeOK
<1>3. r \in Component
  BY <1>1, <1>2, ReplacementType DEF TypeInv
<1> DEFINE e == [kind |-> "lazy", comp |-> r]
           n == Len(stack)
<1>4. e \in Entry
  BY <1>3 DEF Entry, ComponentEntry, ComponentKind
<1>5. /\ Settled' = Settled /\ Processed' = Processed /\ Full' = Full
      /\ Started' = Started /\ Lead' = Lead /\ Roots' = Roots
  BY <1>2, SameExpansion DEF Roots
<1>6. c \in Replaced /\ Lead[c] = {r} /\ c \in Settled /\ c \in Processed
  <2>1. c \in Replaced
    BY <1>1, <1>2 DEF Replaced
  <2> QED BY <1>1, <1>2, <2>1, ProcessedFacts DEF Settled, Processed
<1>7. /\ n \in Nat \ {0} /\ DOMAIN stack = 1 .. n /\ stack[n] = Top
      /\ 1 \in Nat /\ 1 <= n
  BY <1>2, TopProperties DEF Top
<1>8. /\ DOMAIN stack' = 1 .. n /\ stack'[n] = e
      /\ \A i \in 1 .. n - 1 : stack'[i] = stack[i]
  BY <1>2, <1>4, <1>7, ReplaceTopProperties
<1>9. ASSUME NEW i \in 0 .. n - 1
      PROVE  /\ Named(stack, i) \subseteq Covers(Settled, Lead, Named(stack', i))
             /\ Named(stack', i) \subseteq Reached(Processed, Lead, Named(stack, i))
  <2> DEFINE A == Named(stack, i)
             A2 == Named(stack', i)
             P == Named(Pop(1), i)
  <2>1. A2 = P \cup {r} /\ P \subseteq A /\ A \subseteq P \cup {c} /\ c \in A
    <3>1. Named(ReplaceTop(e), i) = P \cup {e.comp}
      BY <1>2, <1>4, ReplaceTopNamed
    <3>2. P \subseteq A /\ A \subseteq P \cup Named(stack, n - 1)
      BY <1>2, <1>7, PopNamed
    <3>3. Named(stack, n - 1) = {c} /\ c \in A
      BY <1>1, <1>2, TopNamed
    <3> QED BY <1>2, <3>1, <3>2, <3>3
  <2>2. A \subseteq Component
    BY <1>2, NamedType
  <2>3. A2 \subseteq Reached(Processed, Lead, A)
    BY <1>1, <1>2, <1>4, <1>6, ReplaceTopReached
  <2> HIDE DEF A, A2, P
  <2>4. A2 \in SUBSET Component
    BY <1>3, <2>1, <2>2
  <2>5. A \subseteq Covers(Settled, Lead, A2)
    <3>1. A2 \subseteq Covers(Settled, Lead, A2)
      BY <2>4, CoversItself
    <3>2. Lead[c] \subseteq Covers(Settled, Lead, A2)
      BY <1>6, <2>1, <3>1
    <3>3. c \in Covers(Settled, Lead, A2)
      BY <1>2, <1>6, <3>2, CoversOne
    <3> QED BY <2>1, <3>1, <3>3
  <2> QED BY <2>3, <2>5 DEF A, A2
<1>10. ASSUME NEW i \in DOMAIN stack', stack'[i].kind = "end_marker"
       PROVE  /\ i \in 0 .. n - 1 /\ i \in DOMAIN stack /\ stack[i] = stack'[i]
              /\ stack[i].comp \in Processed
  <2>1. i # n
    BY <1>8, <1>10
  <2>2. i \in 1 .. n - 1 /\ i \in DOMAIN stack /\ stack[i] = stack'[i]
    BY <1>7, <1>8, <2>1
  <2> QED BY <1>7, <1>10, <2>2, ProcessedFacts DEF Processed
<1>11. StackIsWork(stack', Settled, Processed, Lead, Roots)
  <2>1. StackIsWork(stack, Settled, Processed, Lead, Roots)
    BY <1>2 DEF ClosureInv
  <2>2. 0 \in 0 .. n - 1
    BY <1>7
  <2>3. \A i \in {0} \cup (DOMAIN stack \cap DOMAIN stack') :
          i = 0 \/ (stack'[i].kind = "end_marker" /\ stack[i].kind = "end_marker")
          => i \in 0 .. n - 1
    BY <1>10, <2>2
  <2>4. Settled \subseteq Processed
    BY ProcessedFacts
  <2> HIDE DEF n
  <2> QED BY <1>9, <1>10, <2>1, <2>3, <2>4, StackGoesOn
<1> QED BY <1>2, <1>5, <1>11, ClosureStep

(* A component is expanded: its end marker keeps its name on the stack, under *)
(* the components that it installs, which are the work that it has left.      *)
LEMMA ExpandWork ==
  ASSUME TypeInv, ExpansionInv, ClosureInv, ExpandLazyComponent
  PROVE  ClosureInv'
<1>1. PICK c : c = Top.comp
  OBVIOUS
<1> DEFINE e == [kind |-> "end_marker", comp |-> c]
           n == Len(stack)
           body == prog.body[c]
           B == Named(body, 0)
<1>2. /\ stack # <<>> /\ Top.kind = "lazy" /\ status = "running"
      /\ stack \in Seq(Entry) /\ c \in Component
      /\ c \notin Started /\ Replacement(c) = NoComponent
      /\ inProgress' = inProgress \cup {c}
      /\ stack' = ReplaceTop(e) \o body
      /\ UNCHANGED <<prog, phase, status, fullyExpanded, replacements, base>>
  BY <1>1, HandledEntry
     DEF ExpandLazyComponent, Handling, ComponentKind, storageVars, TypeInv,
         TypeOK, IsExpanded, Started
<1>3. e \in Entry
  BY <1>2 DEF Entry, ComponentEntry, ComponentKind
<1>4. body \in Seq(Entry) /\ NoMarkers(body) /\ B \subseteq Component
  BY <1>2, ProgramType, NamedType DEF TypeInv
<1>5. /\ Replaced' = Replaced /\ Full' = Full /\ Started' = Started \cup {c}
      /\ Lead' = Lead /\ Roots' = Roots
  <2>1. \A d : Replacement(d)' = Replacement(d)
    BY <1>2 DEF Replacement
  <2>2. \A d : LeadsTo(d)' = LeadsTo(d)
    BY <1>2, <2>1 DEF LeadsTo, Installed, Entries
  <2>3. Replaced' = Replaced /\ Lead' = Lead
    BY <2>1, <2>2 DEF Replaced, Lead
  <2> QED BY <1>2, <2>3 DEF Full, Started, Roots
<1>6. Settled' = Settled /\ Processed' = Processed \cup {c}
  BY <1>5 DEF Settled, Processed
<1>7. Lead[c] = B
  <2>1. c \notin Replaced
    BY <1>2 DEF Replaced
  <2> QED BY <1>2, <2>1, ProcessedFacts, InstalledIsNamed
<1>8. /\ n \in Nat \ {0} /\ DOMAIN stack = 1 .. n /\ stack[n] = Top
      /\ 1 \in Nat /\ 1 <= n
  BY <1>2, TopProperties DEF Top
<1>9. /\ ReplaceTop(e) \in Seq(Entry) /\ Len(ReplaceTop(e)) = n
      /\ ReplaceTop(e)[n] = e /\ DOMAIN ReplaceTop(e) = 1 .. n
      /\ \A i \in 1 .. n - 1 : ReplaceTop(e)[i] = stack[i]
  BY <1>2, <1>3, <1>8, ReplaceTopProperties
<1>10. /\ stack' \in Seq(Entry) /\ Len(stack') = n + Len(body)
       /\ \A i \in 1 .. n + Len(body) :
            stack'[i] = IF i <= n THEN ReplaceTop(e)[i] ELSE body[i - n]
  <2> DEFINE s == ReplaceTop(e)
  <2>1. s \in Seq(Entry) /\ Len(s) = n /\ stack' = s \o body
    BY <1>2, <1>9
  <2> HIDE DEF s, n, body
  <2>2. /\ s \o body \in Seq(Entry) /\ Len(s \o body) = Len(s) + Len(body)
        /\ \A i \in 1 .. Len(s) + Len(body) :
             (s \o body)[i] = IF i <= Len(s) THEN s[i] ELSE body[i - Len(s)]
    BY <1>4, <2>1, ConcatProperties
  <2>3. /\ stack' \in Seq(Entry) /\ Len(stack') = n + Len(body)
        /\ \A i \in 1 .. n + Len(body) :
             stack'[i] = IF i <= n THEN s[i] ELSE body[i - n]
    BY <2>1, <2>2
  <2> QED BY <2>3 DEF s
<1>11. /\ DOMAIN stack' = 1 .. n + Len(body)
       /\ Len(body) \in Nat /\ DOMAIN body = 1 .. Len(body)
  BY <1>4, <1>10, LenProperties
<1>12. ASSUME NEW i \in 0 .. n - 1
       PROVE  /\ Named(stack, i) \subseteq Covers(Settled, Lead, Named(stack', i))
              /\ Named(stack', i)
                   \subseteq Reached(Processed', Lead, Named(stack, i))
  <2> DEFINE A == Named(stack, i)
             A2 == Named(stack', i)
             P == Named(Pop(1), i)
  <2>1. A2 = P \cup {c} \cup B /\ P \subseteq A /\ A \subseteq P \cup {c} /\ c \in A
    <3>1. Named(ReplaceTop(e), i) = P \cup {e.comp}
      BY <1>2, <1>3, ReplaceTopNamed
    <3>2. P \subseteq A /\ A \subseteq P \cup Named(stack, n - 1)
      BY <1>2, <1>8, PopNamed
    <3>3. Named(stack, n - 1) = {c} /\ c \in A
      BY <1>1, <1>2, TopNamed
    <3>4. i \in 0 .. Len(ReplaceTop(e))
      BY <1>8, <1>9
    <3>5. A2 = Named(ReplaceTop(e), i) \cup B
      BY <1>2, <1>4, <1>9, <3>4, ConcatNamed
    <3> QED BY <3>1, <3>2, <3>3, <3>5
  <2>2. A \subseteq Component
    BY <1>2, NamedType
  <2>3. A2 \subseteq Reached(Processed', Lead, A)
    <3>1. e.kind = "end_marker" /\ e.comp = Top.comp
      BY <1>1
    <3>2. Top.comp \in Processed' /\ Named(body, 0) \subseteq Lead[Top.comp]
      BY <1>1, <1>6, <1>7
    <3>3. Named(ReplaceTop(e) \o body, i) \subseteq Reached(Processed', Lead, A)
      <4> HIDE DEF e, body
      <4> QED BY <1>2, <1>3, <1>4, <3>1, <3>2, ExpandReached
    <3> QED BY <1>2, <3>3
  <2> HIDE DEF A, A2, P, B
  <2>4. A2 \in SUBSET Component /\ A \subseteq A2
    BY <1>2, <1>4, <2>1, <2>2
  <2>5. A \subseteq Covers(Settled, Lead, A2)
    BY <2>4, CoversItself
  <2> QED BY <2>3, <2>5 DEF A, A2
<1>13. IsWorkOf(Settled, Processed', Lead, Named(stack', n), Lead[c])
  <2>1. Named(ReplaceTop(e), n) = {}
    BY <1>8, <1>9 DEF Named
  <2>2. n \in 0 .. Len(ReplaceTop(e))
    BY <1>8, <1>9
  <2>3. Named(ReplaceTop(e) \o body, n) = Named(ReplaceTop(e), n) \cup B
    BY <1>4, <1>9, <2>2, ConcatNamed
  <2>4. Named(stack', n) = B
    BY <1>2, <2>1, <2>3
  <2>5. B \subseteq Covers(Settled, Lead, B)
    BY <1>4, CoversItself
  <2>6. B \subseteq Reached(Processed', Lead, B)
    BY <1>4, ReachedFixpoint
  <2> QED BY <1>7, <2>4, <2>5, <2>6 DEF IsWorkOf
<1> HIDE DEF B
<1>14. ASSUME NEW i \in DOMAIN stack', stack'[i].kind = "end_marker"
       PROVE  \/ /\ i \in 0 .. n - 1 /\ i \in DOMAIN stack
                 /\ stack[i] = stack'[i] /\ stack[i].comp \in Processed
              \/ i = n /\ stack'[i].comp = c
  <2>1. CASE i > n
    <3>1. i - n \in DOMAIN body /\ stack'[i] = body[i - n]
      BY <1>8, <1>10, <1>11, <2>1
    <3> QED BY <1>4, <1>14, <3>1 DEF NoMarkers
  <2>2. CASE i = n
    BY <1>8, <1>9, <1>10, <1>11, <2>2
  <2>3. CASE i < n
    <3>1. /\ i \in 1 .. n - 1 /\ i \in 0 .. n - 1 /\ i \in DOMAIN stack
          /\ stack[i] = stack'[i]
      BY <1>8, <1>9, <1>10, <1>11, <2>3, SMTT(30)
    <3> QED BY <1>14, <3>1, ProcessedFacts DEF Processed
  <2> QED BY <1>8, <1>11, <2>1, <2>2, <2>3
<1>15. StackIsWork(stack', Settled, Processed', Lead, Roots)
  <2>1. StackIsWork(stack, Settled, Processed, Lead, Roots)
    BY <1>2 DEF ClosureInv
  <2>2. 0 \in 0 .. n - 1
    BY <1>8
  <2>3. \A i \in {0} \cup (DOMAIN stack \cap DOMAIN stack') :
          i = 0 \/ (stack'[i].kind = "end_marker" /\ stack[i].kind = "end_marker")
          => i \in 0 .. n - 1
    <3>1. stack[n].kind # "end_marker"
      BY <1>2, <1>8
    <3> QED BY <1>14, <2>2, <3>1
  <2>4. Settled \subseteq Processed
    BY ProcessedFacts
  <2>5. \A i \in DOMAIN stack' : stack'[i].kind = "end_marker" =>
          \/ i \in DOMAIN stack /\ stack[i] = stack'[i]
               /\ stack[i].comp \in Processed
          \/ IsWorkOf(Settled, Processed', Lead, Named(stack', i),
                      Lead[stack'[i].comp])
    BY <1>13, <1>14
  <2>6. \A i \in {0} \cup (DOMAIN stack \cap DOMAIN stack') :
          i = 0 \/ (stack'[i].kind = "end_marker" /\ stack[i].kind = "end_marker")
          => /\ Named(stack, i) \subseteq Covers(Settled, Lead, Named(stack', i))
             /\ Named(stack', i)
                  \subseteq Reached(Processed', Lead, Named(stack, i))
    BY <1>12, <2>3
  <2> QED BY <1>6, <2>1, <2>4, <2>5, <2>6, StackGoesOn
<1>16. c \in Named(stack, 0)
  <2>1. 0 \in 0 .. n - 1
    BY <1>8
  <2> QED BY <1>1, <1>2, <2>1, TopNamed
<1> QED BY <1>2, <1>5, <1>6, <1>15, <1>16, ClosureStep

-----------------------------------------------------------------------------
(* What is reached through the processed components is reachable.             *)
LEMMA ReachedIsReachable ==
  ASSUME TypeInv, NEW R
  PROVE  Reached(Processed, Lead, R) \subseteq ReachableFrom(R)
<1> SUFFICES ASSUME NEW c \in Reached(Processed, Lead, R),
                    NEW T \in SUBSET Component, R \subseteq T, Closed(T)
             PROVE  c \in T
  BY DEF Reached, ReachableFrom
<1>1. \A d \in T : Lead[d] = LeadsTo(d)
  BY LeadType
<1>2. ClosedUnder(Processed, Lead, T)
  BY <1>1 DEF ClosedUnder, Closed
<1> QED BY <1>2 DEF Reached

(* A set of settled components that leads nowhere else is closed.             *)
LEMMA AccountedIsClosed ==
  ASSUME TypeInv, NEW T \in SUBSET Component, Accounted(Settled, Lead, {}, T)
  PROVE  Closed(T) /\ T \subseteq Settled
<1>1. \A d \in T : Lead[d] = LeadsTo(d)
  BY LeadType
<1> QED BY <1>1 DEF Accounted, Closed

(* A component found in progress was reached from the components that it      *)
(* installs: it lies above its own end marker.                                *)
LEMMA LoopWork ==
  ASSUME TypeInv, ExpansionInv, ClosureInv, DetectInstallationLoop
  PROVE  ClosureInv'
<1>1. PICK c : c = Top.comp
  OBVIOUS
<1>2. /\ stack # <<>> /\ Top.kind = "lazy" /\ status = "running"
      /\ stack \in Seq(Entry) /\ c \in Component /\ c \in inProgress
      /\ status' = "installation_loop"
      /\ UNCHANGED <<prog, phase, stack, inProgress, fullyExpanded,
                     replacements, base>>
  BY <1>1, HandledEntry
     DEF DetectInstallationLoop, Handling, ComponentKind, expansionVars,
         storageVars, TypeInv, TypeOK, Fail
<1>3. PICK i \in DOMAIN stack : Marks(stack, i, c)
  BY <1>2 DEF ExpansionInv, MarkersMatchInProgress, MarkersMatch
<1>4. /\ Len(stack) \in Nat \ {0} /\ DOMAIN stack = 1 .. Len(stack)
      /\ stack[Len(stack)] = Top
  BY <1>2, TopProperties DEF Top
<1>5. i # Len(stack)
  BY <1>2, <1>3, <1>4 DEF Marks
<1>6. c \in Named(stack, i)
  <2>1. i \in 0 .. Len(stack) - 1
    BY <1>4, <1>5
  <2> QED BY <1>1, <1>2, <2>1, TopNamed
<1>7. Named(stack, i) \subseteq Reached(Processed, Lead, Lead[c])
  BY <1>2, <1>3 DEF Marks, ClosureInv, StackIsWork, IsWorkOf
<1>8. c \in ReachableFrom(LeadsTo(c))
  BY <1>2, <1>6, <1>7, ReachedIsReachable, LeadType
<1>9. /\ Settled' = Settled /\ Processed' = Processed /\ Full' = Full
      /\ Started' = Started /\ Lead' = Lead /\ Roots' = Roots
      /\ \A d : LeadsTo(d)' = LeadsTo(d)
  BY <1>2, SameExpansion DEF Roots
<1>10. \A R : ReachableFrom(R)' = ReachableFrom(R)
  BY <1>9 DEF ReachableFrom, Closed
<1>11. Top' = Top
  BY <1>2 DEF Top
<1>12. LoopIsReal'
  <2>1. c \in ReachableFrom(LeadsTo(c))'
    BY <1>8, <1>9, <1>10
  <2>2. c = Top.comp'
    BY <1>1, <1>11
  <2>3. Top.comp' \in ReachableFrom(LeadsTo(Top.comp))'
    BY <2>1, <2>2
  <2> QED BY <2>3 DEF LoopIsReal
<1>13. /\ StackIsWork(stack, Settled, Processed, Lead, Roots)
       /\ LeadsAway(Settled, Lead, Full)
       /\ Started \subseteq Reached(Processed, Lead, Roots)
  BY <1>2 DEF ClosureInv
<1>14. /\ StackIsWork(stack', Settled', Processed', Lead', Roots')
       /\ LeadsAway(Settled', Lead', Full')
       /\ Started' \subseteq Reached(Processed', Lead', Roots')
  BY <1>2, <1>9, <1>13
<1> QED BY <1>12, <1>14 DEF ClosureInv

(* The stack of a root component names it and has no end marker.              *)
LEMMA InstallIsWork ==
  ASSUME NEW c \in Component
  PROVE  /\ Named(Install(c), 0) = {c}
         /\ \A i \in DOMAIN Install(c) : Install(c)[i].kind # "end_marker"
<1>1. /\ Install(c) \in Seq(Entry) /\ Len(Install(c)) = 1
      /\ Install(c)[1] = [kind |-> "lazy", comp |-> c]
  BY InstallType DEF Install
<1>2. DOMAIN Install(c) = 1 .. 1
  BY <1>1, LenProperties
<1>3. \A i : i \in DOMAIN Install(c) <=> i = 1
  BY <1>2
<1> HIDE DEF Install
<1> QED BY <1>1, <1>3 DEF Named

(* NormalizedComponent(base): the sets change hands.                          *)
LEMMA FinishUndoableWork ==
  ASSUME ExpansionInv, ClosureInv, FinishUndoable
  PROVE  ClosureInv'
<1>1. base = EmptyStorage /\ status = "compressing"
  BY DEF FinishUndoable, FinishedCompression, ExpansionInv, EmptyWhenNotRunning
<1>2. /\ UNCHANGED <<prog, phase, stack, inProgress>> /\ status' = "ready"
      /\ base'.fullyExpanded = fullyExpanded /\ fullyExpanded' = {}
      /\ base'.replacements = replacements
      /\ replacements' = NothingReplaced
  BY DEF FinishUndoable
<1>3. \A c \in Component : Replacement(c)' = Replacement(c)
  BY <1>1, <1>2 DEF Replacement, EmptyStorage, NothingReplaced
<1>4. \A c \in Component : LeadsTo(c)' = LeadsTo(c)
  BY <1>2, <1>3 DEF LeadsTo, Installed, Entries
<1>5. Full' = Full /\ Started' = Started /\ Roots' = Roots
  BY <1>1, <1>2 DEF Full, Started, EmptyStorage, Roots
<1>6. Replaced' = Replaced /\ Lead' = Lead
  BY <1>3, <1>4 DEF Replaced, Lead
<1>7. Settled' = Settled /\ Processed' = Processed
  BY <1>5, <1>6 DEF Settled, Processed
<1>8. /\ StackIsWork(stack, Settled, Processed, Lead, Roots)
      /\ LeadsAway(Settled, Lead, Full)
      /\ Started \subseteq Reached(Processed, Lead, Roots)
  BY <1>1 DEF ClosureInv
<1>9. /\ StackIsWork(stack', Settled', Processed', Lead', Roots')
      /\ LeadsAway(Settled', Lead', Full')
      /\ Started' \subseteq Reached(Processed', Lead', Roots')
  BY <1>2, <1>5, <1>6, <1>7, <1>8
<1> QED BY <1>2, <1>9 DEF ClosureInv, LoopIsReal

(* Injector(normalized component, root): a second root, and it is the work.   *)
LEMMA StartAddToWork ==
  ASSUME TypeInv, ExpansionInv, ClosureInv, StartAddTo
  PROVE  ClosureInv'
<1>1. /\ status = "ready" /\ phase = "undoable" /\ stack = <<>>
      /\ phase' = "add_to" /\ status' = "running"
      /\ stack' = Install(prog.root)
      /\ UNCHANGED <<prog, inProgress, fullyExpanded, replacements, base>>
  BY DEF StartAddTo, ExpansionInv, EmptyWhenNotRunning, storageVars
<1>2. PICK r \in Component : r = prog.root
  BY ProgramType DEF TypeInv
<1>3. /\ Settled' = Settled /\ Processed' = Processed /\ Full' = Full
      /\ Started' = Started /\ Lead' = Lead
  BY <1>1, SameExpansion
<1>4. /\ StackIsWork(stack, Settled, Processed, Lead, Roots)
      /\ LeadsAway(Settled, Lead, Full)
      /\ Started \subseteq Reached(Processed, Lead, Roots)
  BY <1>1 DEF ClosureInv
<1>5. Roots \subseteq Covers(Settled, Lead, {})
  <2>1. Named(stack, 0) = {}
    BY <1>1 DEF Named
  <2> QED BY <1>4, <2>1 DEF StackIsWork, IsWorkOf
<1>6. Roots \subseteq Component
  BY <1>5 DEF Covers
<1>7. Roots' = Roots \cup {r}
  <2>1. Roots = {prog.base}
    BY <1>1 DEF Roots
  <2>2. Roots' = {prog.base, prog.root} \ {NoComponent}
    BY <1>1 DEF Roots
  <2> QED BY <1>2, <1>6, <2>1, <2>2, ComponentAssumption
<1>8. Named(stack', 0) = {r} /\ \A i \in DOMAIN stack' : stack'[i].kind # "end_marker"
  BY <1>1, <1>2, InstallIsWork
<1>9. Roots' \subseteq Covers(Settled, Lead, {r})
  <2>1. {r} \subseteq Covers(Settled, Lead, {r})
    BY CoversItself
  <2>2. Covers(Settled, Lead, {}) \subseteq Covers(Settled, Lead, {r})
    BY CoversGrow
  <2> QED BY <1>5, <1>7, <2>1, <2>2
<1>10. Roots' \subseteq Reached(Processed, Lead, Roots')
  BY <1>6, <1>7, ReachedFixpoint
<1>11. StackIsWork(stack', Settled, Processed, Lead, Roots')
  BY <1>7, <1>8, <1>9, <1>10 DEF StackIsWork, IsWorkOf
<1>12. Reached(Processed, Lead, Roots) \subseteq Reached(Processed, Lead, Roots')
  <2>1. Roots \subseteq Reached(Processed, Lead, Roots')
    BY <1>7, <1>10
  <2> QED BY <2>1, ReachedGrow
<1>13. /\ StackIsWork(stack', Settled', Processed', Lead', Roots')
       /\ LeadsAway(Settled', Lead', Full')
       /\ Started' \subseteq Reached(Processed', Lead', Roots')
  BY <1>3, <1>4, <1>11, <1>12
<1> QED BY <1>1, <1>13 DEF ClosureInv, LoopIsReal

(* At first nothing has settled, and the stack is the root.                   *)
LEMMA ClosureInvInit == Init => ClosureInv
<1> SUFFICES ASSUME Init PROVE ClosureInv
  OBVIOUS
<1>1. PICK c \in Component : stack = Install(c) /\ Roots = {c}
  <2>1. /\ prog.root \in Component
        /\ prog.base \in Component \cup {NoComponent}
        /\ NoComponent \notin Component
    BY ProgramType, ComponentAssumption DEF Init
  <2>2. CASE prog.base = NoComponent
    <3>1. Roots = {prog.root} /\ stack = Install(prog.root)
      BY <2>1, <2>2 DEF Init, Roots
    <3> QED BY <2>1, <3>1
  <2>3. CASE prog.base # NoComponent
    <3>1. Roots = {prog.base} /\ stack = Install(prog.base)
      BY <2>1, <2>3 DEF Init, Roots
    <3> QED BY <2>1, <2>3, <3>1
  <2> QED BY <2>2, <2>3
<1>2. Started = {} /\ Full = {}
  BY DEF Init, Started, Full, EmptyStorage
<1>3. Named(stack, 0) = {c} /\ \A i \in DOMAIN stack : stack[i].kind # "end_marker"
  BY <1>1, InstallIsWork
<1>4. IsWorkOf(Settled, Processed, Lead, {c}, {c})
  BY CoversItself, ReachedFixpoint DEF IsWorkOf
<1>5. StackIsWork(stack, Settled, Processed, Lead, Roots)
  BY <1>1, <1>3, <1>4 DEF StackIsWork
<1>6. LeadsAway(Settled, Lead, Full)
  BY <1>2 DEF LeadsAway
<1>7. status = "running"
  BY DEF Init
<1> QED BY <1>2, <1>5, <1>6, <1>7 DEF ClosureInv, LoopIsReal

(* Every handler keeps the invariant of the closure.                          *)
LEMMA ClosureInvNext ==
  TypeInv /\ ExpansionInv /\ ClosureInv /\ [Next]_vars => ClosureInv'
<1> SUFFICES ASSUME TypeInv, ExpansionInv, ClosureInv, [Next]_vars
             PROVE  ClosureInv'
  OBVIOUS
<1> USE DEF expansionVars, storageVars
<1>1. CASE HandleBinding
  BY <1>1, PopOneUnnamed DEF HandleBinding
<1>2. CASE HandleInconsistentBinding
  BY <1>2, NoWork DEF HandleInconsistentBinding, Handling, Fail, Roots
<1>3. CASE HandleCompressedBinding
  BY <1>3, PopOneUnnamed DEF HandleCompressedBinding
<1>4. CASE HandleMultibinding
  BY <1>4, PopTwoUnnamed DEF HandleMultibinding
<1>5. CASE HandleReplacedTooLate
  BY <1>5, NoWork DEF HandleReplacedTooLate, Handling, Fail, Roots
<1>6. CASE HandleReplaced
  BY <1>6, ReplacedWork
<1>7. CASE HandleReplacedAgain
  BY <1>7, PopTwoUnnamed DEF HandleReplacedAgain
<1>8. CASE HandleReplacedDifferently
  BY <1>8, NoWork DEF HandleReplacedDifferently, Handling, Fail, Roots
<1>9. CASE SkipLazyComponent
  BY <1>9, SkipWork
<1>10. CASE PerformComponentReplacement
  BY <1>10, PerformReplacementWork
<1>11. CASE DetectInstallationLoop
  BY <1>11, LoopWork
<1>12. CASE ExpandLazyComponent
  BY <1>12, ExpandWork
<1>13. CASE HandleEndMarker
  BY <1>13, EndMarkerWork
<1>14. CASE StartCompression
  BY <1>14, NoWork DEF StartCompression, Roots
<1>15. CASE CompressBinding
  BY <1>15, NoWork DEF CompressBinding, Roots
<1>16. CASE CompressMissingBinding
  BY <1>16, NoWork DEF CompressMissingBinding, Fail, Roots
<1>17. CASE FinishPermanent
  BY <1>17, NoWork DEF FinishPermanent, FinishedCompression, Roots
<1>18. CASE FinishUndoable
  BY <1>18, FinishUndoableWork
<1>19. CASE StartAddTo
  BY <1>19, StartAddToWork
<1>20. CASE FinishAddTo
  BY <1>20, NoWork DEF FinishAddTo, Roots
<1>21. CASE DestroyNormalizedComponent
  BY <1>21 DEF DestroyNormalizedComponent, ClosureInv, LoopIsReal
<1>22. CASE Terminated \/ UNCHANGED vars
  <2>1. UNCHANGED vars
    BY <1>22 DEF Terminated
  <2>2. UNCHANGED <<prog, phase, status, stack, inProgress, fullyExpanded,
                    replacements, base>>
    BY <2>1 DEF vars
  <2>3. /\ Settled' = Settled /\ Processed' = Processed /\ Full' = Full
        /\ Started' = Started /\ Lead' = Lead /\ Roots' = Roots
        /\ \A d : LeadsTo(d)' = LeadsTo(d)
    BY <2>2, SameExpansion DEF Roots
  <2>4. Top' = Top /\ \A R : ReachableFrom(R)' = ReachableFrom(R)
    BY <2>2, <2>3 DEF ReachableFrom, Closed, Top
  <2>5. PICK c : c = Top.comp
    OBVIOUS
  <2>6. LoopIsReal'
    BY <2>2, <2>3, <2>4, <2>5 DEF ClosureInv, LoopIsReal
  <2> QED BY <2>2, <2>3, <2>6 DEF ClosureInv
<1> QED BY <1>1, <1>2, <1>3, <1>4, <1>5, <1>6, <1>7, <1>8, <1>9, <1>10, <1>11,
           <1>12, <1>13, <1>14, <1>15, <1>16, <1>17, <1>18, <1>19, <1>20,
           <1>21, <1>22 DEF Next

(* The three invariants together.                                             *)
LEMMA ClosureInvariant == Spec => [](TypeInv /\ ExpansionInv /\ ClosureInv)
<1>1. Init => ClosureInv
  BY ClosureInvInit
<1>2. TypeInv /\ ExpansionInv /\ ClosureInv /\ [Next]_vars => ClosureInv'
  BY ClosureInvNext
<1> QED BY <1>1, <1>2, ExpansionInvariant, PTL DEF Spec

(* A graph is built when no work is left.                                     *)
LEMMA BuiltMeansNoWork ==
  ASSUME TypeInv, ExpansionInv, ClosureInv, GraphIsBuilt
  PROVE  /\ Started = Full
         /\ Roots \subseteq Covers(Settled, Lead, {})
         /\ Started \subseteq Reached(Processed, Lead, Roots)
         /\ LeadsAway(Settled, Lead, Full)
<1>1. stack = <<>> /\ status # "destroyed"
  BY DEF GraphIsBuilt, ExpansionInv, EmptyWhenNotRunning
<1>2. inProgress = {} /\ Named(stack, 0) = {}
  BY <1>1 DEF ExpansionInv, MarkersMatchInProgress, MarkersMatch, Named
<1> QED BY <1>1, <1>2, ProcessedFacts DEF ClosureInv, StackIsWork, IsWorkOf

(* In every program the components expanded, when a graph has been built, are *)
(* exactly those that the roots reach through installs, the replaced ones     *)
(* standing for their replacements: whatever the order in which installs and  *)
(* replacements were met, nothing is left out and nothing is added.           *)
THEOREM ClosureIsExpanded == Spec => []ExpandedIsClosure
<1>1. TypeInv /\ ExpansionInv /\ ClosureInv => ExpandedIsClosure
  <2> SUFFICES ASSUME TypeInv, ExpansionInv, ClosureInv, GraphIsBuilt
               PROVE  Started = {c \in ReachableFrom(Roots) :
                                   Replacement(c) = NoComponent}
    BY DEF ExpandedIsClosure
  <2>1. ASSUME NEW c \in Started
        PROVE  c \in ReachableFrom(Roots) /\ Replacement(c) = NoComponent
    <3>1. c \in ReachableFrom(Roots)
      BY BuiltMeansNoWork, ReachedIsReachable
    <3> QED BY <3>1 DEF ExpansionInv, ReplacedNeverInstalled, ReachableFrom
  <2>2. ASSUME NEW c \in ReachableFrom(Roots), Replacement(c) = NoComponent
        PROVE  c \in Started
    <3> DEFINE T == Covers(Settled, Lead, {})
    <3>1. T \in SUBSET Component
      BY DEF Covers
    <3>2. Accounted(Settled, Lead, {}, T)
      <4>1. \A d \in T : d \in Settled /\ Lead[d] \subseteq T
        BY CoversUnfold
      <4> QED BY <4>1 DEF Accounted
    <3>3. Closed(T) /\ T \subseteq Settled
      BY <3>1, <3>2, AccountedIsClosed
    <3>4. Roots \subseteq T
      BY BuiltMeansNoWork
    <3>5. c \in T
      BY <3>1, <3>3, <3>4 DEF ReachableFrom
    <3> QED BY <2>2, <3>3, <3>5, BuiltMeansNoWork DEF Settled, Replaced
  <2> QED BY <2>1, <2>2
<1> QED BY ClosureInvariant, <1>1, PTL

(* In every program a loop that is reported is one, and when a graph has been *)
(* built no component that was expanded leads back to itself: the components  *)
(* that finish first never lead to one that finishes later.                   *)
THEOREM NoLoopUnnoticed == Spec => []LoopsAreDetected
<1>1. TypeInv /\ ExpansionInv /\ ClosureInv => LoopsAreDetected
  <2> SUFFICES ASSUME TypeInv, ExpansionInv, ClosureInv, GraphIsBuilt,
                      NEW c \in Started
               PROVE  c \notin ReachableFrom(LeadsTo(c))
    BY DEF LoopsAreDetected, ClosureInv, LoopIsReal
  <2>1. PICK T \in SUBSET Component :
          /\ Accounted(Settled, Lead, {}, T)
          /\ Lead[c] \subseteq T
          /\ c \notin T
    BY BuiltMeansNoWork DEF LeadsAway
  <2>2. Closed(T)
    BY <2>1, AccountedIsClosed
  <2>3. c \in Component
    BY ProcessedFacts DEF Processed
  <2>4. LeadsTo(c) \subseteq T
    BY <2>1, <2>3, LeadType
  <2> QED BY <2>1, <2>2, <2>4 DEF ReachableFrom
<1> QED BY ClosureInvariant, <1>1, PTL

-----------------------------------------------------------------------------
(* The program lists under "declared" the installs of its root: they are in   *)
(* its body, the first one on top, and no other.  at[i] is the position of    *)
(* the i-th one, as ComponentDefinition pushes the entries.                   *)
IsLayout(p, at) ==
  LET body == p.body[p.root]
  IN /\ \A i \in DOMAIN p.declared :
          /\ at[i] \in DOMAIN body
          /\ body[at[i]] = [kind |-> "lazy", comp |-> p.declared[i]]
          /\ \A j \in DOMAIN p.declared : i < j => at[j] < at[i]
     /\ \A k \in DOMAIN body : body[k].kind = "lazy" =>
          \E i \in DOMAIN p.declared : at[i] = k
DeclaredOnTop(p) == \E at \in [DOMAIN p.declared -> Nat] : IsLayout(p, at)

Layout(p) == CHOOSE at \in [DOMAIN p.declared -> Nat] : IsLayout(p, at)
DeclaredBefore(p, i) == {p.declared[k] : k \in 1 .. i - 1}

(* An install of the root, of the component c, is still on the stack, over    *)
(* the end marker of the root and k - 1 entries.  Above it there is only the  *)
(* work of the components R, and nothing else has started.                    *)
Waits(s, c, k, started, processed, lead, top, R) ==
  /\ k + 1 \in DOMAIN s
  /\ s[k + 1] = [kind |-> "lazy", comp |-> c]
  /\ Named(s, k + 1) \subseteq Reached(processed, lead, R)
  /\ started \subseteq {top} \cup Reached(processed, lead, R)

(* Until the root itself has started there is nothing but its install.        *)
AtTheRoot ==
  /\ Started = {} /\ Replaced = {}
  /\ stack = Install(prog.root) /\ status = "running"

DeclaredInv ==
  phase = "permanent" =>
    \/ AtTheRoot
    \/ \A i \in DOMAIN prog.declared :
         \/ prog.declared[i] \in Processed
         \/ Waits(stack, prog.declared[i], Layout(prog)[i], Started, Processed,
                  Lead, prog.root, DeclaredBefore(prog, i))

(* An install goes on waiting when the entry stays on the stack, and what is  *)
(* put above it, or started, comes from the work above it.                    *)
LEMMA WaitsOn ==
  ASSUME NEW s, NEW started, NEW processed, NEW lead,
         NEW s2, NEW started2, NEW processed2, NEW lead2,
         NEW c, NEW k, NEW top, NEW R \in SUBSET Component,
         Waits(s, c, k, started, processed, lead, top, R),
         k + 1 \in DOMAIN s2, s2[k + 1] = s[k + 1],
         processed \subseteq processed2,
         \A d \in processed : lead2[d] = lead[d],
         Named(s2, k + 1) \subseteq Reached(processed2, lead2, Named(s, k + 1)),
         started2 \subseteq started \cup Named(s, k + 1)
  PROVE  Waits(s2, c, k, started2, processed2, lead2, top, R)
<1>1. R \subseteq Reached(processed2, lead2, R)
  BY ReachedFixpoint
<1>2. Reached(processed, lead, R) \subseteq Reached(processed2, lead2, R)
  BY <1>1, ReachedGrow
<1>3. Named(s, k + 1) \subseteq Reached(processed2, lead2, R)
  BY <1>2 DEF Waits
<1>4. Reached(processed2, lead2, Named(s, k + 1))
        \subseteq Reached(processed2, lead2, R)
  BY <1>3, ReachedGrow
<1> QED BY <1>2, <1>3, <1>4 DEF Waits

(* Entries are popped: if that of the install is among them, it has been the  *)
(* one handled.                                                               *)
LEMMA WaitsPop ==
  ASSUME TypeInv, NEW c, NEW k \in Nat, NEW top, NEW R \in SUBSET Component,
         Waits(stack, c, k, Started, Processed, Lead, top, R),
         NEW n \in Nat, n <= Len(stack), stack' = Pop(n),
         Started' = Started, Processed \subseteq Processed',
         \A d \in Processed : Lead'[d] = Lead[d],
         c \in Processed \/ \A j \in DOMAIN stack :
           j > Len(stack) - n => stack[j].kind # "lazy"
  PROVE  c \in Processed' \/ Waits(stack, c, k, Started, Processed, Lead, top, R)'
<1>1. CASE c \in Processed
  BY <1>1
<1>2. CASE c \notin Processed
  <2>1. /\ stack \in Seq(Entry) /\ Len(stack) \in Nat
        /\ DOMAIN stack = 1 .. Len(stack)
        /\ DOMAIN Pop(n) = 1 .. Len(stack) - n
        /\ \A j \in 1 .. Len(stack) - n : Pop(n)[j] = stack[j]
    BY PopProperties, LenProperties DEF TypeInv, TypeOK
  <2>2. k + 1 \in DOMAIN stack /\ stack[k + 1].kind = "lazy"
    BY DEF Waits
  <2>3. ~(k + 1 > Len(stack) - n)
    BY <1>2, <2>2
  <2>4. k + 1 \in DOMAIN stack' /\ stack'[k + 1] = stack[k + 1]
    BY <2>1, <2>2, <2>3
  <2>5. Named(stack', k + 1)
          \subseteq Reached(Processed', Lead', Named(stack, k + 1))
    BY <2>1, PopReached
  <2>6. Waits(stack', c, k, Started', Processed', Lead', top, R)
    BY <2>4, <2>5, WaitsOn
  <2> QED BY <2>6
<1> QED BY <1>1, <1>2

(* A pair or an entry of another kind is popped.                              *)
LEMMA WaitsUnnamed ==
  ASSUME TypeInv, NEW c, NEW k \in Nat, NEW top, NEW R \in SUBSET Component,
         Waits(stack, c, k, Started, Processed, Lead, top, R),
         NEW kinds, Handling(kinds), "lazy" \notin kinds,
         \/ stack' = Pop(1)
         \/ /\ stack' = Pop(2)
            /\ kinds \subseteq {"replaced", "multibinding_vector_creator"},
         Started' = Started, Processed \subseteq Processed',
         \A d \in Processed : Lead'[d] = Lead[d]
  PROVE  c \in Processed' \/ Waits(stack, c, k, Started, Processed, Lead, top, R)'
<1>1. /\ stack \in Seq(Entry) /\ stack # <<>> /\ Top.kind \in kinds
      /\ WellPaired(stack)
  BY HandledEntry DEF TypeInv, TypeOK
<1>2. /\ Len(stack) \in Nat \ {0} /\ DOMAIN stack = 1 .. Len(stack)
      /\ Top = stack[Len(stack)] /\ Under = stack[Len(stack) - 1]
  BY <1>1, TopProperties DEF Top, Under
<1>3. CASE stack' = Pop(1)
  <2>1. \A j \in DOMAIN stack : j > Len(stack) - 1 => j = Len(stack)
    BY <1>2
  <2>2. 1 \in Nat /\ 1 <= Len(stack)
    BY <1>2
  <2> QED BY <1>1, <1>2, <1>3, <2>1, <2>2, WaitsPop
<1>4. CASE /\ stack' = Pop(2)
           /\ kinds \subseteq {"replaced", "multibinding_vector_creator"}
  <2>1. \A j \in DOMAIN stack :
          j > Len(stack) - 2 => j = Len(stack) \/ j = Len(stack) - 1
    BY <1>2
  <2>2. /\ 2 \in Nat /\ 2 <= Len(stack)
        /\ Under.kind \in {"replacement"} \cup MultibindingKind
    <3>1. Top.kind \in {"replaced", "multibinding_vector_creator"}
      BY <1>1, <1>4
    <3>2. Len(stack) > 1 /\ Under.kind \in {"replacement"} \cup MultibindingKind
      BY <1>1, <3>1, UnderProperties
    <3> QED BY <1>2, <3>2
  <2>3. Under.kind # "lazy" /\ Top.kind # "lazy"
    BY <1>1, <2>2 DEF MultibindingKind
  <2>4. \A j \in DOMAIN stack : j > Len(stack) - 2 => stack[j].kind # "lazy"
    BY <1>2, <2>1, <2>3
  <2> QED BY <1>4, <2>2, <2>4, WaitsPop
<1> QED BY <1>3, <1>4

(* Where nothing is expanded or replaced an install of the root waits on.     *)
LEMMA WaitsUnchanged ==
  ASSUME NEW c, NEW k, NEW top, NEW R,
         Waits(stack, c, k, Started, Processed, Lead, top, R),
         UNCHANGED <<prog, stack, inProgress, fullyExpanded, replacements, base>>
  PROVE  Waits(stack, c, k, Started, Processed, Lead, top, R)'
<1>1. /\ Processed' = Processed /\ Started' = Started /\ Lead' = Lead
      /\ stack' = stack
  BY SameExpansion
<1>2. Waits(stack', c, k, Started', Processed', Lead', top, R)
  BY <1>1
<1> QED BY <1>2

(* A handler of an entry that is not to be expanded.                          *)
LEMMA WaitsAside ==
  ASSUME TypeInv, NEW c, NEW k \in Nat, NEW top, NEW R \in SUBSET Component,
         Waits(stack, c, k, Started, Processed, Lead, top, R),
         NEW kinds, Handling(kinds), "lazy" \notin kinds,
         \/ stack' = Pop(1)
         \/ /\ stack' = Pop(2)
            /\ kinds \subseteq {"replaced", "multibinding_vector_creator"},
         UNCHANGED <<prog, inProgress, fullyExpanded, replacements, base>>
  PROVE  c \in Processed' \/ Waits(stack, c, k, Started, Processed, Lead, top, R)'
<1>1. Processed' = Processed /\ Started' = Started /\ Lead' = Lead
  BY SameExpansion
<1> QED BY <1>1, WaitsUnnamed

(* The entry at the back is a lazy component: that of the install, or one     *)
(* above it.                                                                  *)
LEMMA WaitsUnderLazy ==
  ASSUME TypeInv, stack # <<>>, Top.kind = "lazy",
         NEW c, NEW k \in Nat, NEW top, NEW R \in SUBSET Component,
         Waits(stack, c, k, Started, Processed, Lead, top, R)
  PROVE  \/ c = Top.comp
         \/ /\ k + 1 \in 1 .. Len(stack) - 1
            /\ Top.comp \in Named(stack, k + 1)
<1>1. /\ stack \in Seq(Entry) /\ Len(stack) \in Nat \ {0}
      /\ DOMAIN stack = 1 .. Len(stack) /\ Top = stack[Len(stack)]
  BY TopProperties DEF TypeInv, TypeOK, Top
<1>2. k + 1 \in DOMAIN stack /\ stack[k + 1] = [kind |-> "lazy", comp |-> c]
  BY DEF Waits
<1>3. CASE k + 1 = Len(stack)
  BY <1>1, <1>2, <1>3
<1>4. CASE k + 1 # Len(stack)
  <2>1. k + 1 \in 1 .. Len(stack) - 1 /\ k + 1 \in 0 .. Len(stack) - 1
    <3>1. Len(stack) \in Nat /\ k + 1 \in 1 .. Len(stack)
      BY <1>1, <1>2
    <3> QED BY <1>4, <3>1
  <2> QED BY <1>1, <2>1, TopNamed
<1> QED BY <1>3, <1>4

(* SkipLazyComponent.                                                         *)
LEMMA WaitsSkip ==
  ASSUME TypeInv, SkipLazyComponent,
         NEW c, NEW k \in Nat, NEW top, NEW R \in SUBSET Component,
         Waits(stack, c, k, Started, Processed, Lead, top, R)
  PROVE  c \in Processed' \/ Waits(stack, c, k, Started, Processed, Lead, top, R)'
<1>1. /\ stack # <<>> /\ Top.kind = "lazy" /\ stack \in Seq(Entry)
      /\ Top.comp \in Full /\ stack' = Pop(1)
      /\ UNCHANGED <<prog, phase, status, inProgress, fullyExpanded,
                     replacements, base>>
  BY HandledEntry
     DEF SkipLazyComponent, Handling, IsExpanded, Full, storageVars, TypeInv,
         TypeOK
<1>2. Processed' = Processed /\ Started' = Started /\ Lead' = Lead
  BY <1>1, SameExpansion
<1>3. /\ Len(stack) \in Nat \ {0} /\ DOMAIN stack = 1 .. Len(stack)
      /\ 1 \in Nat /\ 1 <= Len(stack)
  BY <1>1, TopProperties
<1>4. CASE c = Top.comp
  BY <1>1, <1>2, <1>4 DEF Processed, Started, Full
<1>5. CASE k + 1 \in 1 .. Len(stack) - 1
  <2>1. k + 1 \in DOMAIN stack' /\ stack'[k + 1] = stack[k + 1]
    BY <1>1, <1>3, <1>5, PopProperties
  <2>2. Named(stack', k + 1)
          \subseteq Reached(Processed', Lead', Named(stack, k + 1))
    BY <1>1, <1>3, PopReached
  <2>3. Waits(stack', c, k, Started', Processed', Lead', top, R)
    BY <1>2, <2>1, <2>2, WaitsOn
  <2> QED BY <2>3
<1> QED BY <1>1, <1>4, <1>5, WaitsUnderLazy

(* PerformComponentReplacement.                                               *)
LEMMA WaitsReplacement ==
  ASSUME TypeInv, ExpansionInv, PerformComponentReplacement,
         NEW c, NEW k \in Nat, NEW top, NEW R \in SUBSET Component,
         Waits(stack, c, k, Started, Processed, Lead, top, R)
  PROVE  c \in Processed' \/ Waits(stack, c, k, Started, Processed, Lead, top, R)'
<1>1. PICK d, r : d = Top.comp /\ r = Replacement(Top.comp)
  OBVIOUS
<1> DEFINE e == [kind |-> "lazy", comp |-> r]
<1>2. /\ stack # <<>> /\ Top.kind = "lazy" /\ stack \in Seq(Entry)
      /\ d \in Component /\ r # NoComponent /\ stack' = ReplaceTop(e)
      /\ UNCHANGED <<prog, phase, status, inProgress, fullyExpanded,
                     replacements, base>>
  BY <1>1, HandledEntry
     DEF PerformComponentReplacement, Handling, ComponentKind, storageVars,
         TypeInv, TypeOK
<1>3. r \in Component
  BY <1>1, <1>2, ReplacementType DEF TypeInv
<1>4. e \in Entry
  BY <1>3 DEF Entry, ComponentEntry, ComponentKind
<1>5. Processed' = Processed /\ Started' = Started /\ Lead' = Lead
  BY <1>2, SameExpansion
<1>6. d \in Processed /\ r \in Lead[d]
  <2>1. d \in Replaced
    BY <1>1, <1>2 DEF Replaced
  <2> QED BY <1>1, <1>2, <2>1, ProcessedFacts DEF Processed
<1>7. CASE c = d
  BY <1>5, <1>6, <1>7
<1>8. CASE k + 1 \in 1 .. Len(stack) - 1
  <2>1. k + 1 \in 0 .. Len(stack) - 1 /\ k + 1 \in DOMAIN stack
    BY <1>2, <1>8, TopProperties
  <2>2. k + 1 \in DOMAIN stack' /\ stack'[k + 1] = stack[k + 1]
    BY <1>2, <1>4, <1>8, <2>1, ReplaceTopProperties
  <2>3. Named(stack', k + 1)
          \subseteq Reached(Processed', Lead', Named(stack, k + 1))
    BY <1>1, <1>2, <1>4, <1>5, <1>6, <2>1, ReplaceTopReached
  <2>4. Waits(stack', c, k, Started', Processed', Lead', top, R)
    BY <1>5, <2>2, <2>3, WaitsOn
  <2> QED BY <2>4
<1> QED BY <1>1, <1>2, <1>7, <1>8, WaitsUnderLazy

(* ExpandLazyComponent: above the entries under it.                           *)
LEMMA ExpandedStack ==
  ASSUME TypeInv, ExpansionInv, ExpandLazyComponent
  PROVE  /\ stack # <<>> /\ Top.kind = "lazy" /\ Top.comp \in Component
         /\ Top.comp \notin Started
         /\ Started' = Started \cup {Top.comp}
         /\ Processed' = Processed \cup {Top.comp} /\ Lead' = Lead
         /\ \A i \in 1 .. Len(stack) - 1 :
              /\ i \in DOMAIN stack' /\ stack'[i] = stack[i]
              /\ Named(stack', i)
                   \subseteq Reached(Processed', Lead', Named(stack, i))
         /\ stack'[Len(stack)] = [kind |-> "end_marker", comp |-> Top.comp]
         /\ LET body == prog.body[Top.comp]
            IN /\ DOMAIN stack' = 1 .. Len(stack) + Len(body)
               /\ \A j \in DOMAIN body : stack'[Len(stack) + j] = body[j]
<1>1. PICK c : c = Top.comp
  OBVIOUS
<1> DEFINE e == [kind |-> "end_marker", comp |-> c]
           n == Len(stack)
           body == prog.body[c]
           s == ReplaceTop(e)
<1>2. /\ stack # <<>> /\ Top.kind = "lazy" /\ stack \in Seq(Entry)
      /\ c \in Component /\ c \notin Started /\ Replacement(c) = NoComponent
      /\ inProgress' = inProgress \cup {c}
      /\ stack' = s \o body
      /\ UNCHANGED <<prog, phase, status, fullyExpanded, replacements, base>>
  BY <1>1, HandledEntry
     DEF ExpandLazyComponent, Handling, ComponentKind, storageVars, TypeInv,
         TypeOK, IsExpanded, Started
<1>3. e \in Entry /\ e.kind = "end_marker" /\ e.comp = Top.comp
  BY <1>1, <1>2 DEF Entry, ComponentEntry, ComponentKind
<1>4. body \in Seq(Entry)
  BY <1>2, ProgramType DEF TypeInv
<1>5. /\ Started' = Started \cup {c} /\ Processed' = Processed \cup {c}
      /\ Lead' = Lead
  <2>1. \A d : Replacement(d)' = Replacement(d)
    BY <1>2 DEF Replacement
  <2>2. \A d : LeadsTo(d)' = LeadsTo(d)
    BY <1>2, <2>1 DEF LeadsTo, Installed, Entries
  <2>3. Replaced' = Replaced /\ Lead' = Lead
    BY <2>1, <2>2 DEF Replaced, Lead
  <2>4. Started' = Started \cup {c}
    BY <1>2 DEF Started
  <2> QED BY <2>3, <2>4 DEF Processed
<1>6. Named(body, 0) \subseteq Lead[c]
  <2>1. c \notin Replaced
    BY <1>2 DEF Replaced
  <2> QED BY <1>2, <2>1, ProcessedFacts, InstalledIsNamed
<1>7. /\ n \in Nat \ {0} /\ s \in Seq(Entry) /\ Len(s) = n /\ s[n] = e
      /\ \A i \in 1 .. n - 1 : s[i] = stack[i]
  BY <1>2, <1>3, TopProperties, ReplaceTopProperties
<1>8. \A i \in 0 .. n - 1 :
        Named(s \o body, i) \subseteq Reached(Processed', Lead', Named(stack, i))
  <2>1. Top.comp \in Processed' /\ Named(body, 0) \subseteq Lead'[Top.comp]
    BY <1>1, <1>5, <1>6
  <2> HIDE DEF e, body
  <2> QED BY <1>2, <1>3, <1>4, <2>1, ExpandReached DEF s
<1>9. /\ Len(body) \in Nat /\ DOMAIN body = 1 .. Len(body)
      /\ DOMAIN (s \o body) = 1 .. n + Len(body)
      /\ \A i \in 1 .. n + Len(body) :
           (s \o body)[i] = IF i <= n THEN s[i] ELSE body[i - n]
  <2> HIDE DEF s, n, body
  <2>1. /\ s \o body \in Seq(Entry) /\ Len(s \o body) = Len(s) + Len(body)
        /\ \A i \in 1 .. Len(s) + Len(body) :
             (s \o body)[i] = IF i <= Len(s) THEN s[i] ELSE body[i - Len(s)]
    BY <1>4, <1>7, ConcatProperties
  <2>2. Len(body) \in Nat /\ DOMAIN body = 1 .. Len(body)
    BY <1>4, LenProperties
  <2> QED BY <1>7, <2>1, <2>2, LenProperties
<1> HIDE DEF s, n, body
<1>10. \A i \in 1 .. n - 1 :
         /\ i \in DOMAIN (s \o body) /\ (s \o body)[i] = stack[i]
         /\ i \in 0 .. n - 1
  BY <1>7, <1>9
<1>11. (s \o body)[n] = e
  BY <1>7, <1>9
<1>12. \A j \in DOMAIN body : (s \o body)[n + j] = body[j]
  <2> SUFFICES ASSUME NEW j \in 1 .. Len(body) PROVE (s \o body)[n + j] = body[j]
    BY <1>9
  <2>1. PICK i : i = n + j
    OBVIOUS
  <2>2. i \in 1 .. n + Len(body) /\ ~(i <= n) /\ i - n = j
    BY <1>7, <1>9, <2>1
  <2>3. (s \o body)[i] = body[i - n]
    BY <1>9, <2>2
  <2> QED BY <2>1, <2>2, <2>3
<1> QED BY <1>1, <1>2, <1>5, <1>8, <1>9, <1>10, <1>11, <1>12 DEF n, body

(* ExpandLazyComponent, of a component above the install that waits.          *)
LEMMA WaitsExpand ==
  ASSUME TypeInv, ExpansionInv, ExpandLazyComponent,
         NEW c, NEW k \in Nat, NEW top, NEW R \in SUBSET Component,
         Waits(stack, c, k, Started, Processed, Lead, top, R)
  PROVE  c \in Processed' \/ Waits(stack, c, k, Started, Processed, Lead, top, R)'
<1>1. CASE c = Top.comp
  BY <1>1, ExpandedStack
<1>2. CASE k + 1 \in 1 .. Len(stack) - 1 /\ Top.comp \in Named(stack, k + 1)
  <2>1. /\ k + 1 \in DOMAIN stack' /\ stack'[k + 1] = stack[k + 1]
        /\ Named(stack', k + 1)
             \subseteq Reached(Processed', Lead', Named(stack, k + 1))
        /\ Processed \subseteq Processed' /\ Lead' = Lead
        /\ Started' \subseteq Started \cup Named(stack, k + 1)
    BY <1>2, ExpandedStack
  <2>2. Waits(stack', c, k, Started', Processed', Lead', top, R)
    BY <2>1, WaitsOn
  <2> QED BY <2>2
<1> QED BY <1>1, <1>2, ExpandedStack, WaitsUnderLazy

(* Every handler, with an install of the root on the stack.                   *)
LEMMA WaitsNext ==
  ASSUME TypeInv, ExpansionInv, ClosureInv, [Next]_vars,
         NEW c, NEW k \in Nat, NEW top, NEW R \in SUBSET Component,
         Waits(stack, c, k, Started, Processed, Lead, top, R)
  PROVE  c \in Processed' \/ Waits(stack, c, k, Started, Processed, Lead, top, R)'
<1>1. /\ stack # <<>>
      /\ status \notin {"compressing", "ready", "destroyed"}
  <2>1. DOMAIN stack # {}
    BY DEF Waits
  <2> QED BY <2>1 DEF ExpansionInv, EmptyWhenNotRunning
<1> USE DEF expansionVars, storageVars
<1>2. CASE HandleBinding
  BY <1>2, WaitsAside DEF HandleBinding
<1>3. CASE HandleInconsistentBinding
  BY <1>3, WaitsUnchanged DEF HandleInconsistentBinding, Fail
<1>4. CASE HandleCompressedBinding
  BY <1>4, WaitsAside DEF HandleCompressedBinding
<1>5. CASE HandleMultibinding
  BY <1>5, WaitsAside DEF HandleMultibinding
<1>6. CASE HandleReplacedTooLate
  BY <1>6, WaitsUnchanged DEF HandleReplacedTooLate, Fail
<1>7. CASE HandleReplaced
  BY <1>7, ReplacedGrows, WaitsUnnamed DEF HandleReplaced
<1>8. CASE HandleReplacedAgain
  BY <1>8, WaitsAside DEF HandleReplacedAgain
<1>9. CASE HandleReplacedDifferently
  BY <1>9, WaitsUnchanged DEF HandleReplacedDifferently, Fail
<1>10. CASE SkipLazyComponent
  BY <1>10, WaitsSkip
<1>11. CASE PerformComponentReplacement
  BY <1>11, WaitsReplacement
<1>12. CASE DetectInstallationLoop
  BY <1>12, WaitsUnchanged DEF DetectInstallationLoop, Fail
<1>13. CASE ExpandLazyComponent
  BY <1>13, WaitsExpand
<1>14. CASE HandleEndMarker
  <2>1. /\ Handling({"end_marker"}) /\ stack' = Pop(1)
        /\ UNCHANGED <<prog, replacements, base>>
        /\ inProgress' \cup fullyExpanded' = inProgress \cup fullyExpanded
    <3>1. Top.comp \in inProgress
      <4>1. /\ stack # <<>> /\ Top.kind = "end_marker" /\ stack \in Seq(Entry)
        BY <1>14, HandledEntry DEF HandleEndMarker, TypeInv, TypeOK
      <4> QED BY <4>1, TopProperties, ProcessedFacts DEF Top
    <3> QED BY <1>14, <3>1 DEF HandleEndMarker
  <2>2. \A d : Replacement(d)' = Replacement(d)
    BY <2>1 DEF Replacement
  <2>3. \A d : LeadsTo(d)' = LeadsTo(d)
    BY <2>1, <2>2 DEF LeadsTo, Installed, Entries
  <2>4. Started' = Started /\ Replaced' = Replaced /\ Lead' = Lead
    BY <2>1, <2>2, <2>3 DEF Started, Replaced, Lead
  <2>5. Processed' = Processed
    BY <2>4 DEF Processed
  <2> QED BY <2>1, <2>4, <2>5, WaitsUnnamed
<1>15. CASE \/ StartCompression \/ CompressBinding \/ CompressMissingBinding
            \/ FinishPermanent \/ FinishUndoable \/ StartAddTo \/ FinishAddTo
            \/ DestroyNormalizedComponent
  BY <1>1, <1>15
     DEF StartCompression, CompressBinding, CompressMissingBinding,
         FinishPermanent, FinishUndoable, FinishedCompression, StartAddTo,
         FinishAddTo, DestroyNormalizedComponent
<1>16. CASE Terminated \/ UNCHANGED vars
  BY <1>16, WaitsUnchanged DEF Terminated, vars
<1> QED BY <1>2, <1>3, <1>4, <1>5, <1>6, <1>7, <1>8, <1>9, <1>10, <1>11, <1>12,
           <1>13, <1>14, <1>15, <1>16 DEF Next

(* Without a normalized component, what has been processed stays so.          *)
LEMMA ProcessedStays ==
  ASSUME TypeInv, ExpansionInv, [Next]_vars, phase = "permanent"
  PROVE  Processed \subseteq Processed'
<1> USE DEF expansionVars, storageVars
<1>1. CASE HandleReplaced
  BY <1>1, ReplacedGrows
<1>2. CASE ExpandLazyComponent
  BY <1>2, ExpandedStack
<1>3. CASE HandleEndMarker
  <2>1. /\ Started \subseteq Started'
        /\ \A d : Replacement(d)' = Replacement(d)
    BY <1>3 DEF HandleEndMarker, Started, Replacement
  <2> QED BY <2>1 DEF Processed, Replaced
<1>4. CASE UNCHANGED <<prog, inProgress, fullyExpanded, replacements, base>>
  BY <1>4, SameExpansion
<1>5. CASE ~HandleReplaced /\ ~ExpandLazyComponent /\ ~HandleEndMarker
  <2>1. UNCHANGED <<prog, inProgress, fullyExpanded, replacements, base>>
    BY <1>5
       DEF Next, HandleBinding, HandleInconsistentBinding, Fail,
           HandleCompressedBinding, HandleMultibinding, HandleReplacedTooLate,
           HandleReplacedAgain, HandleReplacedDifferently, SkipLazyComponent,
           PerformComponentReplacement, DetectInstallationLoop,
           StartCompression, CompressBinding, CompressMissingBinding,
           FinishPermanent, FinishUndoable, FinishedCompression, StartAddTo,
           FinishAddTo, DestroyNormalizedComponent, Terminated, vars
  <2> QED BY <1>4, <2>1
<1> QED BY <1>1, <1>2, <1>3, <1>5

(* The root is expanded: each of its installs has those declared before it    *)
(* above it, and nothing else that names a component.                         *)
LEMMA RootExpanded ==
  ASSUME TypeInv, ExpansionInv, AtTheRoot, ExpandLazyComponent,
         DeclaredOnTop(prog), NEW i \in DOMAIN prog.declared
  PROVE  Waits(stack, prog.declared[i], Layout(prog)[i], Started, Processed,
               Lead, prog.root, DeclaredBefore(prog, i))'
<1>1. PICK r \in Component : r = prog.root
  BY ProgramType DEF TypeInv
<1>2. PICK body, at, c, R :
        /\ body = prog.body[r] /\ at = Layout(prog)
        /\ c = prog.declared[i] /\ R = DeclaredBefore(prog, i)
  OBVIOUS
<1>3. IsLayout(prog, at)
  BY <1>2 DEF DeclaredOnTop, Layout
<1>4. /\ body \in Seq(Entry) /\ NoMarkers(body)
      /\ Len(body) \in Nat /\ DOMAIN body = 1 .. Len(body)
  BY <1>1, <1>2, ProgramType, LenProperties DEF TypeInv
<1>5. /\ prog.declared \in Seq(Component)
      /\ DOMAIN prog.declared = 1 .. Len(prog.declared)
      /\ Len(prog.declared) \in Nat
  BY ProgramAssumption, LenProperties DEF TypeInv
<1>6. Len(stack) = 1 /\ Top.comp = r
  BY <1>1, InstallType DEF AtTheRoot, Top, Install
<1>7. /\ stack'[1].kind = "end_marker"
      /\ DOMAIN stack' = 1 .. 1 + Len(body)
      /\ \A j \in DOMAIN body : stack'[1 + j] = body[j]
      /\ Started' = {r}
  BY <1>2, <1>6, ExpandedStack DEF AtTheRoot
<1>8. at[i] \in DOMAIN body /\ body[at[i]] = [kind |-> "lazy", comp |-> c]
  BY <1>1, <1>2, <1>3 DEF IsLayout
<1>9. R \subseteq Component
  <2>1. \A k \in 1 .. i - 1 : k \in DOMAIN prog.declared
    BY <1>5
  <2>2. \A k \in DOMAIN prog.declared : prog.declared[k] \in Component
    BY <1>5, ElementOfSeq
  <2> QED BY <1>2, <2>1, <2>2 DEF DeclaredBefore
<1>10. ASSUME NEW j \in DOMAIN stack', j > at[i] + 1,
              stack'[j].kind \in {"lazy", "end_marker"}
       PROVE  stack'[j].comp \in R
  <2>1. PICK m : m = j - 1
    OBVIOUS
  <2>2. m \in DOMAIN body /\ stack'[j] = body[m] /\ m > at[i]
    <3>1. m \in DOMAIN body /\ j = 1 + m /\ m > at[i]
      BY <1>4, <1>7, <1>8, <1>10, <2>1
    <3> QED BY <1>7, <3>1
  <2>3. body[m].kind = "lazy"
    BY <1>4, <1>10, <2>2 DEF NoMarkers
  <2>4. PICK k \in DOMAIN prog.declared : at[k] = m
    BY <1>1, <1>2, <1>3, <2>2, <2>3 DEF IsLayout
  <2>5. body[m] = [kind |-> "lazy", comp |-> prog.declared[k]]
    BY <1>1, <1>2, <1>3, <2>4 DEF IsLayout
  <2>6. k < i
    <3>1. i < k => at[k] < at[i]
      BY <1>1, <1>2, <1>3 DEF IsLayout
    <3> QED BY <1>4, <1>5, <1>8, <2>2, <2>4, <3>1
  <2>7. k \in 1 .. i - 1
    BY <1>5, <2>6
  <2> QED BY <1>2, <2>2, <2>5, <2>7 DEF DeclaredBefore
<1>11. Named(stack', at[i] + 1) \subseteq R
  BY <1>10 DEF Named
<1>12. R \subseteq Reached(Processed', Lead', R)
  BY <1>9, ReachedFixpoint
<1>13. at[i] + 1 \in DOMAIN stack' /\ stack'[at[i] + 1] = body[at[i]]
  <2>1. at[i] + 1 \in 1 .. 1 + Len(body) /\ at[i] + 1 = 1 + at[i]
    BY <1>4, <1>8
  <2> QED BY <1>7, <1>8, <2>1
<1>14. Waits(stack', c, at[i], Started', Processed', Lead', r, R)
  BY <1>7, <1>8, <1>11, <1>12, <1>13 DEF Waits
<1>15. prog' = prog
  BY DEF ExpandLazyComponent
<1> QED BY <1>1, <1>2, <1>14, <1>15

(* The program is fixed, and no step turns a normalization into a permanent   *)
(* one.                                                                       *)
LEMMA StaysPermanent ==
  ASSUME [Next]_vars
  PROVE  prog' = prog /\ (phase' = "permanent" => phase = "permanent")
BY DEF Next, HandleBinding, HandleInconsistentBinding, Fail,
       HandleCompressedBinding, HandleMultibinding, HandleReplacedTooLate,
       HandleReplaced, HandleReplacedAgain, HandleReplacedDifferently,
       SkipLazyComponent, PerformComponentReplacement, DetectInstallationLoop,
       ExpandLazyComponent, HandleEndMarker, StartCompression, CompressBinding,
       CompressMissingBinding, FinishPermanent, FinishUndoable,
       FinishedCompression, StartAddTo, FinishAddTo,
       DestroyNormalizedComponent, Terminated, vars

(* The first step expands the root.                                           *)
LEMMA FirstStep ==
  ASSUME TypeInv, AtTheRoot, [Next]_vars
  PROVE  ExpandLazyComponent \/ UNCHANGED vars
<1>1. PICK r \in Component : r = prog.root
  BY ProgramType DEF TypeInv
<1>2. /\ stack # <<>> /\ Top.kind = "lazy" /\ Top.comp = r
      /\ status = "running"
  <2>1. /\ Install(r) \in Seq(Entry) /\ Len(Install(r)) = 1
        /\ Install(r)[1] = [kind |-> "lazy", comp |-> r]
    BY InstallType DEF Install
  <2>2. stack = Install(r) /\ status = "running"
    BY <1>1 DEF AtTheRoot
  <2>3. Len(stack) = 1 /\ Top = [kind |-> "lazy", comp |-> r]
    BY <2>1, <2>2 DEF Top
  <2>4. stack # <<>>
    BY <2>3, EmptySeq
  <2> QED BY <2>2, <2>3, <2>4
<1>3. Replacement(r) = NoComponent /\ r \notin inProgress /\ ~IsExpanded(r)
  BY DEF AtTheRoot, Replaced, Started, IsExpanded
<1>4. ~SkipLazyComponent /\ ~PerformComponentReplacement
        /\ ~DetectInstallationLoop
  BY <1>2, <1>3
     DEF SkipLazyComponent, PerformComponentReplacement, DetectInstallationLoop
<1>5. /\ ~HandleBinding /\ ~HandleInconsistentBinding
      /\ ~HandleCompressedBinding /\ ~HandleMultibinding
      /\ ~HandleReplacedTooLate /\ ~HandleReplaced
      /\ ~HandleReplacedAgain /\ ~HandleReplacedDifferently
      /\ ~HandleEndMarker
  BY <1>2
     DEF HandleBinding, HandleInconsistentBinding, HandleCompressedBinding,
         HandleMultibinding, HandleReplacedTooLate, HandleReplaced,
         HandleReplacedAgain, HandleReplacedDifferently, HandleEndMarker,
         Handling
<1>6. /\ ~StartCompression /\ ~CompressBinding /\ ~CompressMissingBinding
      /\ ~FinishPermanent /\ ~FinishUndoable /\ ~StartAddTo
      /\ ~FinishAddTo /\ ~DestroyNormalizedComponent
  BY <1>2
     DEF StartCompression, CompressBinding, CompressMissingBinding,
         FinishPermanent, FinishUndoable, FinishedCompression, StartAddTo,
         FinishAddTo, DestroyNormalizedComponent
<1> QED BY <1>4, <1>5, <1>6 DEF Next, Terminated

(* At first there is nothing but the install of the root.                     *)
LEMMA DeclaredInvInit == Init => DeclaredInv
<1> SUFFICES ASSUME Init, phase = "permanent" PROVE AtTheRoot
  BY DEF DeclaredInv
<1>1. stack = Install(prog.root) /\ status = "running"
  BY DEF Init
<1>2. Started = {}
  BY DEF Init, Started, EmptyStorage
<1>3. Replaced = {}
  BY DEF Init, Replaced, Replacement, EmptyStorage, NothingReplaced
<1> QED BY <1>1, <1>2, <1>3 DEF AtTheRoot

(* Every step keeps the installs of the root in the declared order.           *)
LEMMA DeclaredInvNext ==
  ASSUME \A p \in Program : DeclaredOnTop(p)
  PROVE  TypeInv /\ ExpansionInv /\ ClosureInv /\ DeclaredInv /\ [Next]_vars
           => DeclaredInv'
<1> SUFFICES ASSUME TypeInv, ExpansionInv, ClosureInv, DeclaredInv, [Next]_vars,
                    phase' = "permanent"
             PROVE  \/ AtTheRoot'
                    \/ \A i \in DOMAIN prog.declared' :
                         \/ prog.declared[i]' \in Processed'
                         \/ Waits(stack, prog.declared[i], Layout(prog)[i],
                                  Started, Processed, Lead, prog.root,
                                  DeclaredBefore(prog, i))'
  BY DEF DeclaredInv
<1>1. prog' = prog /\ phase = "permanent" /\ DeclaredOnTop(prog)
  BY StaysPermanent DEF TypeInv
<1>2. CASE AtTheRoot
  <2>1. CASE ExpandLazyComponent
    BY <1>1, <1>2, <2>1, RootExpanded
  <2>2. CASE UNCHANGED vars
    <3>1. UNCHANGED <<prog, stack, status, inProgress, fullyExpanded,
                      replacements, base>>
      BY <2>2 DEF vars, expansionVars, storageVars
    <3>2. Started' = Started /\ Replaced' = Replaced
      BY <3>1, SameExpansion
    <3> QED BY <1>2, <3>1, <3>2 DEF AtTheRoot
  <2> QED BY <1>2, <2>1, <2>2, FirstStep
<1>3. CASE ~AtTheRoot
  <2> SUFFICES ASSUME NEW i \in DOMAIN prog.declared
               PROVE  \/ prog.declared[i] \in Processed'
                      \/ Waits(stack, prog.declared[i], Layout(prog)[i],
                               Started, Processed, Lead, prog.root,
                               DeclaredBefore(prog, i))'
    BY <1>1
  <2>1. PICK c, k, r, R :
          /\ c = prog.declared[i] /\ k = Layout(prog)[i]
          /\ r = prog.root /\ R = DeclaredBefore(prog, i)
    OBVIOUS
  <2>2. k \in Nat
    <3>1. Layout(prog) \in [DOMAIN prog.declared -> Nat]
      BY <1>1 DEF DeclaredOnTop, Layout
    <3> QED BY <2>1, <3>1
  <2>3. R \in SUBSET Component
    <3>1. /\ prog.declared \in Seq(Component)
          /\ DOMAIN prog.declared = 1 .. Len(prog.declared)
          /\ Len(prog.declared) \in Nat
      BY ProgramAssumption, LenProperties DEF TypeInv
    <3>2. \A m \in 1 .. i - 1 : m \in DOMAIN prog.declared
      BY <3>1
    <3>3. \A m \in DOMAIN prog.declared : prog.declared[m] \in Component
      BY <3>1, ElementOfSeq
    <3> QED BY <2>1, <3>2, <3>3 DEF DeclaredBefore
  <2>4. CASE c \in Processed
    BY <1>1, <2>1, <2>4, ProcessedStays
  <2>5. CASE Waits(stack, c, k, Started, Processed, Lead, r, R)
    <3>1. \/ c \in Processed'
          \/ Waits(stack, c, k, Started, Processed, Lead, r, R)'
      BY <2>2, <2>3, <2>5, WaitsNext
    <3> QED BY <1>1, <2>1, <3>1
  <2> QED BY <1>1, <1>3, <2>1, <2>4, <2>5 DEF DeclaredInv
<1> QED BY <1>2, <1>3

(* When the entries of the root lie as its installs were declared, the first  *)
(* on top, the components are expanded in that order: while an install has    *)
(* not been looked at, only what the earlier ones lead to has started.        *)
THEOREM DeclaredOrderIsKept ==
  ASSUME \A p \in Program : DeclaredOnTop(p)
  PROVE  Spec => []InstalledInDeclaredOrder
<1>1. Init => DeclaredInv
  BY DeclaredInvInit
<1>2. TypeInv /\ ExpansionInv /\ ClosureInv /\ DeclaredInv /\ [Next]_vars
        => DeclaredInv'
  BY DeclaredInvNext
<1>3. TypeInv /\ DeclaredInv => InstalledInDeclaredOrder
  <2> SUFFICES ASSUME TypeInv, DeclaredInv, phase = "permanent",
                      NEW i \in DOMAIN prog.declared
               PROVE  \/ prog.declared[i] \in Started
                      \/ Replacement(prog.declared[i]) # NoComponent
                      \/ Started \subseteq {prog.root}
                           \cup ReachableFrom(DeclaredBefore(prog, i))
    BY DEF InstalledInDeclaredOrder, DeclaredBefore
  <2>1. CASE AtTheRoot
    BY <2>1 DEF AtTheRoot
  <2>2. CASE prog.declared[i] \in Processed
    BY <2>2 DEF Processed, Replaced
  <2>3. CASE Waits(stack, prog.declared[i], Layout(prog)[i], Started, Processed,
                   Lead, prog.root, DeclaredBefore(prog, i))
    BY <2>3, ReachedIsReachable DEF Waits
  <2> QED BY <2>1, <2>2, <2>3 DEF DeclaredInv
<1> QED BY <1>1, <1>2, <1>3, ClosureInvariant, PTL DEF Spec
=============================================================================
