---------------------------- MODULE MCGraphCycles ----------------------------
(* The chain a -> b -> c with two back edges: c -> b, taken while c outputs *)
(* "no", and c -> a, repeated until c outputs "yes".                       *)
EXTENDS GraphExecutor

CONSTANTS a, b, c, yes, no

Forward(from, to) ==
  [from |-> from, to |-> to, conditional |-> FALSE, accepts |-> {}]

MCEdge == {Forward(a, b), Forward(b, c)}
MCWaves == <<<<a>>, <<b>>, <<c>>>>
MCBackEdge ==
  << [from |-> c, to |-> b, conditional |-> TRUE, accepts |-> {no}, until |-> {},
      max |-> 2, cycle |-> <<b, c>>],
     [from |-> c, to |-> a, conditional |-> FALSE, accepts |-> {}, until |-> {yes},
      max |-> 2, cycle |-> <<a, b, c>>] >>
MCReturns == [n \in Node |-> IF n = c THEN Output ELSE {no}]
=============================================================================
