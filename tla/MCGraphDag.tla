----------------------------- MODULE MCGraphDag -----------------------------
(* A diamond whose branches are conditional: a -> b on "yes", a -> c,      *)
(* b -> d on "yes", c -> d on "yes".                                       *)
EXTENDS GraphExecutor

CONSTANTS a, b, c, d, yes, no

Forward(from, to) ==
  [from |-> from, to |-> to, conditional |-> FALSE, accepts |-> {}]
Conditional(from, to) ==
  [from |-> from, to |-> to, conditional |-> TRUE, accepts |-> {yes}]

MCEdge == {Conditional(a, b), Forward(a, c), Conditional(b, d), Conditional(c, d)}
MCWaves == <<<<a>>, <<b, c>>, <<d>>>>
MCBackEdge == <<>>
MCReturns == [n \in Node |-> Output]
=============================================================================
