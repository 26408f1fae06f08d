--------------------------- MODULE MCSemistaticGraph ---------------------------
(***************************************************************************)
(* A normalized component that binds I and C and may refer to D and X, and  *)
(* a component added to it, which binds more and may bind I or C again, as  *)
(* when a compression is undone.                                            *)
(***************************************************************************)
EXTENDS SemistaticGraph

CONSTANTS I, C, D, X, Y

Keys == {I, C, D, X, Y}
MCHashOf == [k \in Keys |-> CASE k = I -> 2 [] k = C -> 4
                              [] k = D -> 10 [] k = X -> 12 [] k = Y -> 7]

Values == {"instance", "constructor", "bind", "constructor2"}
MCArity == [v \in Values |-> CASE v = "bind" -> 1
                               [] v = "constructor2" -> 2 [] OTHER -> 0]

Node(id, value, edges) ==
  [id |-> id, node |-> [value |-> value, terminal |-> value = "instance",
                        edges |-> edges]]

BindI == Node(I, "bind", <<C>>)
MakeC == Node(C, "constructor", <<>>)

(* The base has no node, one that needs what is bound later, two nodes, or    *)
(* four ids of which two are only referred to.  What is added is nothing, a   *)
(* user of both with the nodes of an undone compression, or nodes for ids     *)
(* that the base knows, does not know, or has bound already.                  *)
MCInputs ==
  {[base |-> <<>>, added |-> <<Node(X, "bind", <<C>>), MakeC>>],
   [base |-> <<BindI, MakeC>>, added |-> <<>>],
   [base |-> <<BindI>>,
    added |-> <<MakeC, Node(Y, "constructor2", <<I, D>>),
                Node(D, "instance", <<>>)>>],
   [base |-> <<Node(I, "constructor", <<>>), Node(D, "bind", <<I>>)>>,
    added |-> <<Node(X, "constructor2", <<D, C>>), MakeC, BindI>>],
   [base |-> <<MakeC, Node(I, "constructor2", <<D, X>>)>>,
    added |-> <<Node(X, "bind", <<Y>>), Node(D, "instance", <<>>),
                Node(Y, "constructor", <<>>)>>]}
=============================================================================
