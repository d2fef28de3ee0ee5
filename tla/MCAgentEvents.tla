--------------------------- MODULE MCAgentEvents ----------------------------
(* Two runs of one session, in any order or at the same time, or one with  *)
(* a bus of its own and an observer.                                       *)
EXTENDS AgentEvents

CONSTANTS r1, r2, o1

MCRun == {r1, r2}
MCObserver == {o1}
MCScenario == {<<{r1, r2}, {r1, r2}>>, <<{r1, o1}, {}>>}
=============================================================================
