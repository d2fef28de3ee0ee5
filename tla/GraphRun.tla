------------------------------ MODULE GraphRun ------------------------------
(***************************************************************************)
(* What executing a graph promises, with everything about waves, tasks,    *)
(* back edges and checkpoint records left out.  A session runs the graph   *)
(* in one call at a time.  A call commits node results in batches, makes   *)
(* the committed set durable now and then, and ends.  The next call starts *)
(* from nothing or from one of the durable sets.  GraphExecutor implements *)
(* this specification.                                                     *)
(***************************************************************************)
CONSTANTS
  Node,   \* the nodes of the graph
  Dep     \* Dep[n]: the nodes with a forward edge to n

VARIABLES
  done,      \* the nodes that have a result in the current call
  durable,   \* the sets of nodes that a checkpoint of the session records
  outcome    \* the state of the call: running, or how the last call ended

vars == <<done, durable, outcome>>

Outcome == {"None", "Running", "Complete", "Failed", "Interrupted", "Crashed"}

TypeOK ==
  /\ done \subseteq Node
  /\ durable \subseteq SUBSET Node
  /\ outcome \in Outcome

Init ==
  /\ done = {}
  /\ durable = {}
  /\ outcome = "None"

(* A set of nodes closed under dependencies: no result without the results *)
(* it was computed from.                                                   *)
DownClosed(S) == \A n \in S : Dep[n] \subseteq S

\* A call starts, from nothing or from a checkpoint.
Begin ==
  /\ outcome # "Running"
  /\ outcome' = "Running"
  /\ \E d \in durable \cup {{}} : done' = d
  /\ UNCHANGED durable

\* A call is refused: the checkpoint it names cannot be restored.
Refuse ==
  /\ outcome # "Running"
  /\ outcome' = "Failed"
  /\ \E d \in durable : done' \in {S \in SUBSET d : DownClosed(S)}
  /\ UNCHANGED durable

\* Results of a batch of nodes whose dependencies all have results appear
\* together; the call goes on, or fails because a node of the batch failed.
Commit ==
  /\ outcome = "Running"
  /\ outcome' \in {"Running", "Failed"}
  /\ \E S \in SUBSET (Node \ done) :
       /\ \A n \in S : Dep[n] \subseteq done
       /\ done' = done \cup S
  /\ UNCHANGED durable

\* A checkpoint is saved; the call ends if it was saved for an interrupt, or
\* fails after saving.
Persist ==
  /\ outcome = "Running"
  /\ outcome' \in {"Running", "Interrupted", "Failed"}
  /\ durable' = durable \cup {done}
  /\ UNCHANGED done

\* The call ends; it is complete only when every node has a result.
End ==
  /\ outcome = "Running"
  /\ \/ outcome' = "Complete" /\ done = Node
     \/ outcome' \in {"Failed", "Interrupted"}
  /\ UNCHANGED <<done, durable>>

\* The process dies: the results of the call are gone, the checkpoints stay.
Crash ==
  /\ outcome = "Running"
  /\ outcome' = "Crashed"
  /\ done' = {}
  /\ UNCHANGED durable

Next == Begin \/ Refuse \/ Commit \/ Persist \/ End \/ Crash

Spec == Init /\ [][Next]_vars

-----------------------------------------------------------------------------
(* The results of a call, and every checkpoint, are closed under           *)
(* dependencies: whatever is resumed, no node has a result that one of its *)
(* dependencies lacks.                                                     *)
ResultsDownClosed ==
  /\ DownClosed(done)
  /\ \A d \in durable : DownClosed(d)

\* A call that reports Complete has a result for every node.
CompleteIsTotal == outcome = "Complete" => done = Node

=============================================================================
