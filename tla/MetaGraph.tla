------------------------------- MODULE MetaGraph -------------------------------
(***************************************************************************)
(* The search for a loop in the dependencies of a component                *)
(* (impl/meta/graph.h).  A graph is a vector of pairs: a node th and the    *)
(* vector hps of its neighbors.                                            *)
(***************************************************************************)
EXTENDS Naturals, Sequences, FiniteSetsExt

GetMapKeys(g) == {g[i].th : i \in DOMAIN g}
Edges(g) == UNION {{<<g[i].th, g[i].hps[j]>> : j \in DOMAIN g[i].hps} : i \in DOMAIN g}
GraphNodes(g) == GetMapKeys(g) \cup {e[2] : e \in Edges(g)}

(* FindInImmutableMap: the neighbors of a node that is a key of the map.       *)
GraphFindNeighbors(g, node) == g[CHOOSE i \in DOMAIN g : g[i].th = node].hps

NoLoop == [loop |-> <<>>, complete |-> FALSE]

(* What DfsVisit of a node returns, given what the visit of a neighbor found:  *)
(* the loop grows at its front until the node that closes it is reached.       *)
ExtendLoop(found, node) ==
  IF found.complete THEN found
  ELSE IF found.loop[Len(found.loop)] = node THEN [found EXCEPT !.complete = TRUE]
  ELSE [found EXCEPT !.loop = <<node>> \o @]

(* DfsVisit.  The set of visited nodes that the code passes along is written   *)
(* and never read, so that a node is visited once for every path to it.        *)
DfsVisit(g) ==
  LET visit[visiting \in SUBSET GraphNodes(g), node \in GraphNodes(g)] ==
        IF node \notin GetMapKeys(g) THEN NoLoop
        ELSE IF node \in visiting THEN [loop |-> <<node>>, complete |-> FALSE]
        ELSE LET hps == GraphFindNeighbors(g, node)
                 results == [i \in DOMAIN hps |-> visit[visiting \cup {node}, hps[i]]]
                 found == {i \in DOMAIN hps : results[i] # NoLoop}
             IN  IF found = {} THEN NoLoop ELSE ExtendLoop(results[Min(found)], node)
  IN  visit

(* Mutant: only the first node of the map is tried as the start of a visit.    *)
GraphFindLoopFromFirst(g) ==
  IF g = <<>> THEN <<>> ELSE DfsVisit(g)[{}, g[1].th].loop

(* The loop found first, or <<>>.                                              *)
GraphFindLoop(g) ==
  LET results == [i \in DOMAIN g |-> DfsVisit(g)[{}, g[i].th].loop]
      found == {i \in DOMAIN g : results[i] # <<>>}
  IN  IF found = {} THEN <<>> ELSE results[Min(found)]
=============================================================================
