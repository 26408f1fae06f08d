---------------------------- MODULE SemistaticGraph ----------------------------
(***************************************************************************)
(* SemistaticGraph: the bindings of a normalized component or an injector. *)
(*                                                                         *)
(* The nodes lie in a vector; a SemistaticMap gives the index of a type.   *)
(* The edges of a node are consecutive in another vector, as indexes of    *)
(* nodes, and the node has a pointer to the first one.  The graph "new" of  *)
(* an injector is a copy of the graph "old" of its normalized component,    *)
(* with more nodes: the edges of the old nodes stay where they are, in the  *)
(* storage of the old graph, and are read as indexes of the new nodes.      *)
(***************************************************************************)
EXTENDS SemistaticMap

CONSTANTS Value,    \* the data of a node: a create function
          Arity,    \* how many dependencies a create function has
          Inputs    \* what the two graphs are made from

(* A binding as the constructors of the graph are given it.                   *)
InputNode == [id : Key, node : [value : Value, terminal : BOOLEAN,
                                edges : Seq(Key)]]

(* The ids of nodes, and those that they have edges to.                       *)
IdsIn(ns) == UNION {{x.id} \cup ToSet(x.node.edges) : x \in ToSet(ns)}

ASSUME GraphInputAssumption ==
  /\ Arity \in [Value -> Nat]
  /\ \A in \in Inputs :
       /\ in.base \in Seq(InputNode) /\ in.added \in Seq(InputNode)
       /\ \A x \in ToSet(in.base \o in.added) :
            Len(x.node.edges) = IF x.node.terminal THEN 0
                                ELSE Arity[x.node.value]
  /\ None \notin [value : Value \cup {"object"}, terminal : BOOLEAN,
                  edges : Seq(Key)]

(* A type takes more than two bytes of memory: a word has enough bits for the  *)
(* hash values of all of them.                                                *)
ASSUME SizeAssumption ==
  \A in \in Inputs : PickNumBits(Cardinality(IdsIn(in.base))) \in 1 .. WordBits

VARIABLES
  input,              \* the member of Inputs
  graphStatus,        \* how far the graphs are built
  firstUnusedIndex,   \* first_unused_index, of the graph built last
  nodes,              \* the vectors of nodes
  edgesStorage,       \* edges_storage
  edgesCapacity,      \* and the capacities of these vectors
  todo                \* nodes that have still to be filled in

graphVars == <<input, graphStatus, firstUnusedIndex, nodes, edgesStorage,
               edgesCapacity, todo>>
vars == <<mapVars, graphVars>>

(* edges_begin is 0 for a terminal node, 1 for one that is only referred to,   *)
(* and a pointer into an edges_storage otherwise.                             *)
Terminal == [kind |-> "terminal", vec |-> "old", at |-> 0]
Missing == [kind |-> "missing", vec |-> "old", at |-> 0]
EdgesBegin == {Terminal, Missing} \cup [kind : {"edges"}, vec : Map, at : Nat]
NodeData == [edges_begin : EdgesBegin, node : Value \cup {"none", "object"}]
MissingNode == [edges_begin |-> Missing, node |-> "none"]

TypeOK ==
  /\ MapTypeOK
  /\ graphStatus \in {"none", "indexing", "linking", "built", "extending",
                      "relinking", "ready"}
  /\ firstUnusedIndex \in Nat
  /\ nodes \in [Map -> Seq(NodeData)]
  /\ edgesStorage \in [Map -> Seq(Nat)]
  /\ edgesCapacity \in [Map -> Nat]
  /\ todo \in Seq(InputNode)

Init ==
  /\ MapInit
  /\ input \in Inputs
  /\ graphStatus = "none"
  /\ firstUnusedIndex = 0
  /\ nodes = [m \in Map |-> <<>>]
  /\ edgesStorage = [m \in Map |-> <<>>]
  /\ edgesCapacity = [m \in Map |-> 0]
  /\ todo = <<>>

-----------------------------------------------------------------------------
(* Mutant: an edge to a node is counted once, however many nodes have it.     *)
NumDistinctEdges(ns) == Cardinality(UNION {ToSet(x.node.edges) : x \in ToSet(ns)})

NumEdges(ns) ==
  SumFunctionOnSet([i \in DOMAIN ns |-> Len(ns[i].node.edges)], DOMAIN ns)

Indexed(s, first) ==
  {[key |-> s[i], value |-> first + i - 1] : i \in DOMAIN s}

(* Step 1 of SemistaticGraph(first, last, memory_pool): the ids are numbered   *)
(* in the order of a hash set, which is any.                                  *)
StartGraph ==
  /\ graphStatus = "none"
  /\ \E s \in SetToSeqs(IdsIn(input.base)) :
       StartMap([i \in DOMAIN s |-> [key |-> s[i], value |-> i - 1]])
  /\ firstUnusedIndex' = Cardinality(IdsIn(input.base))
  /\ graphStatus' = "indexing"
  /\ UNCHANGED <<input, nodes, edgesStorage, edgesCapacity, todo>>

MissingNodes(n) == [i \in 1 .. n |-> MissingNode]

(* Step 2: the first edge is not used, so that no pointer to edges is 0 or 1. *)
AllocateNodes ==
  /\ graphStatus = "indexing" /\ mapStatus = "built"
  /\ nodes' = [nodes EXCEPT !["old"] = MissingNodes(firstUnusedIndex)]
  /\ edgesStorage' = [edgesStorage EXCEPT !["old"] = <<0>>]
  /\ edgesCapacity' = [edgesCapacity EXCEPT !["old"] = NumEdges(input.base) + 1]
  /\ todo' = input.base
  /\ graphStatus' = "linking"
  /\ UNCHANGED <<mapVars, input, firstUnusedIndex>>

(* The graph whose nodes are being filled in.                                 *)
Current == IF graphStatus = "linking" THEN "old" ELSE "new"

FillNode ==
  /\ graphStatus \in {"linking", "relinking"} /\ todo # <<>>
  /\ LET m == Current
         x == Head(todo)
         at == Find(m, x.id) + 1
     IN /\ nodes' = [nodes EXCEPT ![m][at] =
             [node |-> x.node.value,
              edges_begin |-> IF x.node.terminal THEN Terminal
                ELSE [kind |-> "edges", vec |-> m,
                      at |-> Len(edgesStorage[m])]]]
        /\ edgesStorage' = [edgesStorage EXCEPT ![m] =
             @ \o [i \in DOMAIN x.node.edges |-> Find(m, x.node.edges[i])]]
  /\ todo' = Tail(todo)
  /\ UNCHANGED <<mapVars, input, graphStatus, firstUnusedIndex, edgesCapacity>>

FinishGraph ==
  /\ graphStatus \in {"linking", "relinking"} /\ todo = <<>>
  /\ graphStatus' = IF graphStatus = "linking" THEN "built" ELSE "ready"
  /\ UNCHANGED <<mapVars, input, firstUnusedIndex, nodes, edgesStorage,
                 edgesCapacity, todo>>

-----------------------------------------------------------------------------
(* Step 1 of SemistaticGraph(x, first, last, memory_pool): the ids that x      *)
(* does not know, without duplicates, get the next numbers; the addresses of  *)
(* the types decide about their order, which is any.                          *)
UnknownIds == {id \in IdsIn(input.added) : Find("old", id) = None}

(* Mutant: the new nodes are numbered from 0.                                 *)
StartCopyFromZero ==
  /\ graphStatus = "built"
  /\ \E s \in SetToSeqs(UnknownIds) : StartExtension(Indexed(s, 0))
  /\ firstUnusedIndex' = firstUnusedIndex + Cardinality(UnknownIds)
  /\ graphStatus' = "extending"
  /\ UNCHANGED <<input, nodes, edgesStorage, edgesCapacity, todo>>

StartCopy ==
  /\ graphStatus = "built"
  /\ \E s \in SetToSeqs(UnknownIds) :
       StartExtension(Indexed(s, firstUnusedIndex))
  /\ firstUnusedIndex' = firstUnusedIndex + Cardinality(UnknownIds)
  /\ graphStatus' = "extending"
  /\ UNCHANGED <<input, nodes, edgesStorage, edgesCapacity, todo>>

(* Step 2.                                                                    *)
CopyNodes ==
  /\ graphStatus = "extending" /\ mapStatus = "extended"
  /\ nodes' = [nodes EXCEPT !["new"] = nodes["old"]
                 \o MissingNodes(firstUnusedIndex - Len(nodes["old"]))]
  /\ edgesStorage' = [edgesStorage EXCEPT !["new"] = <<0>>]
  /\ edgesCapacity' = [edgesCapacity EXCEPT !["new"] =
                         NumEdges(input.added) + 1]
  /\ todo' = input.added
  /\ graphStatus' = "relinking"
  /\ UNCHANGED <<mapVars, input, firstUnusedIndex>>

-----------------------------------------------------------------------------
NodeAt(m, id) == nodes[m][Find(m, id) + 1]

(* find(): a node that is only referred to is not found.                      *)
IsNode(m, id) ==
  Find(m, id) # None /\ NodeAt(m, id).edges_begin # Missing

(* The injector has constructed the object of a node.                         *)
SetTerminal(id) ==
  /\ graphStatus = "ready"
  /\ IsNode("new", id) /\ NodeAt("new", id).edges_begin # Terminal
  /\ nodes' = [nodes EXCEPT !["new"][Find("new", id) + 1] =
                 [edges_begin |-> Terminal, node |-> "object"]]
  /\ UNCHANGED <<mapVars, input, graphStatus, firstUnusedIndex, edgesStorage,
                 edgesCapacity, todo>>

Terminated == graphStatus = "ready" /\ UNCHANGED vars

Next ==
  \/ StartGraph \/ AllocateNodes \/ FillNode \/ FinishGraph
  \/ StartCopy \/ CopyNodes
  \/ \E id \in Key : SetTerminal(id)
  \/ MapStep /\ UNCHANGED graphVars
  \/ Terminated

Spec == Init /\ [][Next]_vars
-----------------------------------------------------------------------------
(* The edges pushed are as many as edges_storage was made for, also when a    *)
(* node overrides another one: no push_back goes past the end, nor leaves     *)
(* space that was counted twice.                                              *)
EdgesFit ==
  /\ \A m \in Map : Len(edgesStorage[m]) <= edgesCapacity[m]
  /\ graphStatus \in {"built", "ready"} =>
       \A m \in Map : Len(edgesStorage[m]) = edgesCapacity[m]

(* The space for the edges, and the space for the buckets of the node index    *)
(* that are copied when new nodes are added, are both computed exactly.       *)
StorageIsExact == EdgesFit /\ SpaceIsExact

(* What a client sees: the node of an id, and the ids of the nodes that its   *)
(* edge iterator leads to in the graph m, wherever the edges are stored.      *)
IdAt(m, index) == (CHOOSE e \in contents[m] : e.value = index).key
Neighbors(m, data) ==
  [i \in 1 .. Arity[data.node] |->
     IdAt(m, edgesStorage[data.edges_begin.vec][data.edges_begin.at + i])]
Seen(m, index) ==
  LET data == nodes[m][index + 1]
  IN CASE data.edges_begin.kind = "missing" -> None
       [] data.edges_begin.kind = "terminal" ->
            [value |-> data.node, terminal |-> TRUE, edges |-> <<>>]
       [] OTHER -> [value |-> data.node, terminal |-> FALSE,
                    edges |-> Neighbors(m, data)]
Graph(m) ==
  [id \in Key |-> LET index == Find(m, id)
                  IN IF index = None THEN None ELSE Seen(m, index)]

(* What has been built so far of the two graphs.                              *)
NoGraph == [id \in Key |-> None]
BaseGraph == IF graphStatus \in {"none", "indexing", "linking"}
               THEN NoGraph ELSE Graph("old")
InjectorGraph == IF graphStatus = "ready" THEN Graph("new") ELSE NoGraph

(* Both graphs have the nodes and edges that they were made from, the new     *)
(* nodes override the old ones, and constructing objects in the injector      *)
(* changes neither the graph that it shares data with nor any other node.     *)
Abstract == INSTANCE DependencyGraph WITH
  NodeId <- Key, Unbound <- None,
  base <- BaseGraph, injector <- InjectorGraph
ImplementsDependencyGraph == Abstract!Spec
=============================================================================
