---------------------------- MODULE GraphRunProof ----------------------------
(***************************************************************************)
(* Invariants of GraphRun, for any graph.  GraphExecutor implements        *)
(* GraphRun, so they hold of every execution of a graph.                   *)
(***************************************************************************)
EXTENDS GraphRun, TLAPS

(* Results and checkpoints are closed under dependencies, whatever is      *)
(* resumed, refused or lost in a crash: each node's result was computed    *)
(* from the results of all its dependencies.                               *)
THEOREM DownClosedThm == Spec => []ResultsDownClosed
<1>1. Init => ResultsDownClosed
  BY DEF Init, ResultsDownClosed, DownClosed
<1>2. ResultsDownClosed /\ [Next]_vars => ResultsDownClosed'
  <2> SUFFICES ASSUME ResultsDownClosed, [Next]_vars
               PROVE  ResultsDownClosed'
    OBVIOUS
  <2> USE DEF ResultsDownClosed, DownClosed
  <2>1. CASE Begin
    BY <2>1 DEF Begin
  <2>2. CASE Refuse
    BY <2>2 DEF Refuse
  <2>3. CASE Commit
    BY <2>3 DEF Commit
  <2>4. CASE Persist
    BY <2>4 DEF Persist
  <2>5. CASE End
    BY <2>5 DEF End
  <2>6. CASE Crash
    BY <2>6 DEF Crash
  <2>7. CASE UNCHANGED vars
    BY <2>7 DEF vars
  <2> QED
    BY <2>1, <2>2, <2>3, <2>4, <2>5, <2>6, <2>7 DEF Next
<1> QED
  BY <1>1, <1>2, PTL DEF Spec

(* A call that has reported Complete, and while it is the last one, has a  *)
(* result for every node.                                                  *)
THEOREM CompleteThm == Spec => []CompleteIsTotal
<1>1. Init => CompleteIsTotal
  BY DEF Init, CompleteIsTotal
<1>2. CompleteIsTotal /\ [Next]_vars => CompleteIsTotal'
  BY DEF CompleteIsTotal, Next, Begin, Refuse, Commit, Persist, End, Crash, vars
<1> QED
  BY <1>1, <1>2, PTL DEF Spec

=============================================================================
