--------------------------- MODULE MCGraphBuilder ---------------------------
(* Every graph of up to three nodes and three edges of any kind, valid or  *)
(* not, and every graph of four nodes with four edges of which the last    *)
(* may be a back edge.                                                     *)
EXTENDS GraphBuilder

Kinds == {<<FALSE, 0>>, <<TRUE, 0>>, <<TRUE, 1>>}
EdgesOver(ids, kinds) ==
  {[from |-> f, to |-> t, back |-> k[1], max |-> k[2]] : f, t \in ids, k \in kinds}

\* Edges between distinct nodes, of which the back edge is bounded.
Plain(ids, kinds) == {e \in EdgesOver(ids, kinds) : e.from # e.to}

Small ==
  {[nodes |-> nodes, edges |-> edges, entry |-> 1] :
     nodes \in {<<1>>, <<1, 2>>, <<2, 1>>, <<1, 1>>, <<2>>},
     edges \in UNION {[1..k -> EdgesOver(1..3, Kinds)] : k \in 0..2}}

Three ==
  {[nodes |-> <<3, 1, 2>>, edges |-> edges, entry |-> 1] :
     edges \in UNION {[1..k -> Plain(1..3, {<<FALSE, 0>>, <<TRUE, 1>>})] : k \in 0..3}}

Four ==
  {[nodes |-> <<1, 2, 3, 4>>, edges |-> <<d, e, f, g>>, entry |-> 1] :
     d \in {h \in Plain(1..4, {<<FALSE, 0>>}) : h.from = 1},
     e, f \in Plain(1..4, {<<FALSE, 0>>}),
     g \in Plain(1..4, {<<FALSE, 0>>, <<TRUE, 1>>})}

MCId == 1..4
MCInputs == Small \cup Three \cup Four
=============================================================================
