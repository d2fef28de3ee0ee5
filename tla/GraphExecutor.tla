---------------------------- MODULE GraphExecutor ----------------------------
(***************************************************************************)
(* Execution of one graph in one checkpoint session and namespace:         *)
(* executeGraph and resumeGraph with the wave executor, the back-edge      *)
(* cycle executor, the checkpoints they save and the process that runs     *)
(* them crashing at any point.                                             *)
(*                                                                         *)
(* A node's executor is a black box that returns an output, throws, or     *)
(* throws an InterruptError; nodes of a wave run concurrently.  The        *)
(* siblings of an interrupted node keep running after the call has         *)
(* returned, but Promise.all ignores what they return, so the model        *)
(* forgets them.  Durations, error texts, node inputs and events are left  *)
(* out.                                                                    *)
(***************************************************************************)
EXTENDS Naturals, Sequences, FiniteSets

CONSTANTS
  Node,            \* the keys of graph.nodes
  Output,          \* the outputs the edge predicates tell apart
  Returns,         \* Returns[n]: the outputs that n's executor can return
  Undefined,       \* the output of a skipped node
  NoNode,          \* stands for null where a node is expected
  Edge,            \* graph.edges: records [from, to, conditional, accepts]
  Waves,           \* toposort(graph): a sequence of sequences of nodes
  BackEdge,        \* graph.backEdges in order: a sequence of records
                   \*   [from, to, conditional, accepts, until, max, cycle]
                   \* where cycle is getCycleNodes of the back edge
  UniqueVersions,  \* whether the store has the SQL schema's UNIQUE constraint
  LatestOnly,      \* whether callers resume from getLatestCheckpoint only
  MaxCalls,        \* bound: calls of executeGraph and resumeGraph
  MaxFaults        \* bound: checkpoint saves that the store rejects or
                   \*   after which a callback of the caller throws

Value == Output \cup {Undefined}

WaveNodes(w) == {Waves[w][i] : i \in DOMAIN Waves[w]}

\* What the builder and toposort establish (module GraphBuilder): the waves
\* partition the nodes, and every edge goes from a wave to a later one.
ASSUME WavesAssumption ==
  /\ Waves \in Seq(Seq(Node))
  /\ \A n \in Node : \E w \in DOMAIN Waves : n \in WaveNodes(w)
  /\ \A v, w \in DOMAIN Waves : v # w => WaveNodes(v) \cap WaveNodes(w) = {}
  /\ Edge \subseteq [from : Node, to : Node, conditional : BOOLEAN, accepts : SUBSET Value]
  /\ \A e \in Edge, v, w \in DOMAIN Waves :
       e.from \in WaveNodes(v) /\ e.to \in WaveNodes(w) => v < w

BackEdgeRecord ==
  [from : Node, to : Node, conditional : BOOLEAN, accepts : SUBSET Value,
   until : SUBSET Value, max : Nat \ {0}, cycle : Seq(Node)]

ASSUME BackEdgeAssumption == BackEdge \in Seq(BackEdgeRecord)

ASSUME ReturnsAssumption == Returns \in [Node -> SUBSET Output]

ASSUME BoundAssumption ==
  /\ Undefined \notin Output /\ NoNode \notin Node
  /\ UniqueVersions \in BOOLEAN /\ LatestOnly \in BOOLEAN
  /\ MaxCalls \in Nat /\ MaxFaults \in Nat

VARIABLES
  pc,           \* where the current call is; "idle" when there is none
  result,       \* the status of the last call's GraphResult
  results,      \* ctx.results: the result of each node, or NoResult
  resumed,      \* whether options.resumeFrom is set
  wave,         \* waveIndex + 1
  task,         \* the promises of the current wave
  interrupter,  \* interruptedNodeId, or the node interrupted in a cycle
  edge,         \* index of the back edge being executed
  iteration,    \* its iteration
  pos,          \* index in its cycle of the node being executed
  store,        \* the checkpoints of the session in the order of createdAt
  traversed,    \* history: iterations of each back edge completed in
                \* the results' past, in this call or before it was resumed
  calls, faults \* bounds

control == <<wave, task, interrupter, edge, iteration, pos>>
bounds == <<calls, faults>>
vars == <<pc, result, results, resumed, control, store, traversed, bounds>>

NoResult == [status |-> "None", output |-> Undefined]
Skipped  == [status |-> "Skipped", output |-> Undefined]
Failed   == [status |-> "Failed", output |-> Undefined]
Running  == [status |-> "Running", output |-> Undefined]
Interrupted == [status |-> "Interrupted", output |-> Undefined]
Complete(o) == [status |-> "Complete", output |-> o]

NodeResult == {NoResult, Skipped, Failed} \cup {Complete(o) : o \in Output}
Task == {NoResult, Running, Interrupted, Failed} \cup {Complete(o) : o \in Output}

Empty == [n \in Node |-> NoResult]
HasResult(n) == results[n] # NoResult

-----------------------------------------------------------------------------
(* Checkpoints.                                                            *)

\* mapNodeResultToCheckpoint: only Complete and Failed have a status of
\* their own.
CheckpointStatus(r) ==
  CASE r.status = "Complete" -> "completed"
    [] r.status = "Failed"   -> "failed"
    [] r.status = "None"     -> "None"
    [] OTHER                 -> "pending"

MapNodeResults(rs) ==
  [n \in Node |-> [status |-> CheckpointStatus(rs[n]), output |-> rs[n].output]]

CheckpointResult ==
  [status : {"completed"}, output : Output]
    \cup [status : {"None", "failed", "pending"}, output : {Undefined}]

Checkpoint ==
  [results : [Node -> CheckpointResult], source : {"loop", "interrupt"},
   node : Node \cup {NoNode}, step : Nat, version : Nat, cycle : Nat,
   traversed : [DOMAIN BackEdge -> Nat]]

\* Mutant of Latest: checkpoints of one step sorted by createdAt ascending.
LatestTiesAscending ==
  CHOOSE i \in DOMAIN store :
    \A j \in DOMAIN store \ {i} :
      \/ store[j].step < store[i].step
      \/ store[j].step = store[i].step /\ j > i

\* The i-th checkpoint is the first one when they are sorted by step, then
\* createdAt, both descending.
IsLatest(i) ==
  \A j \in DOMAIN store \ {i} :
    \/ store[j].step < store[i].step
    \/ store[j].step = store[i].step /\ j < i

Latest ==
  CHOOSE i \in DOMAIN store : IsLatest(i)

NextVersion == IF store = <<>> THEN 1 ELSE store[Latest].version + 1

VersionTaken == \E i \in DOMAIN store : store[i].version = NextVersion

\* saveCheckpoint succeeds.  A completion checkpoint names no node; cycle is 0
\* outside cycles.
Save(source, step, cycle) ==
  /\ ~(UniqueVersions /\ VersionTaken)
  /\ store' = Append(store,
       [results |-> MapNodeResults(results), source |-> source, node |-> interrupter,
        step |-> step, version |-> NextVersion, cycle |-> cycle,
        traversed |-> traversed])

\* saveCheckpoint rejects: the version exists already, or the store failed.
Reject ==
  /\ \/ UniqueVersions /\ VersionTaken /\ UNCHANGED faults
     \/ faults < MaxFaults /\ faults' = faults + 1
  /\ UNCHANGED store

\* Mutant of ResetControl: the next call goes on from the wave reached.
ResetControlKeepsWave ==
  /\ task' = Empty
  /\ interrupter' = NoNode
  /\ resumed' = FALSE
  /\ wave' = wave /\ edge' = 1 /\ iteration' = 1 /\ pos' = 1

\* The variables local to a call are gone.
ResetControl ==
  /\ task' = Empty
  /\ interrupter' = NoNode
  /\ resumed' = FALSE
  /\ wave' = 1 /\ edge' = 1 /\ iteration' = 1 /\ pos' = 1

\* The call returns a GraphResult.
Return(status) ==
  /\ pc' = "idle"
  /\ result' = status
  /\ ResetControl

-----------------------------------------------------------------------------
(* Starting a call.                                                        *)

NewCall ==
  /\ pc = "idle"
  /\ calls < MaxCalls
  /\ calls' = calls + 1
  /\ UNCHANGED <<store, faults>>

Enter(rs, resuming) ==
  /\ pc' = "wave"
  /\ result' = "Running"
  /\ results' = rs
  /\ resumed' = resuming
  /\ UNCHANGED control

\* executeGraph without resumeFrom.
Execute ==
  /\ LatestOnly => calls = 0
  /\ NewCall
  /\ Enter(Empty, FALSE)
  /\ traversed' = [e \in DOMAIN BackEdge |-> 0]

\* toCheckpointNodeResult throws on the status "pending".
Restorable(cp) == \A n \in Node : cp.results[n].status # "pending"

\* Mutant of HasFailed: a node that has not completed counts as failed.
HasFailedUnlessCompleted(cp) == \E n \in Node : cp.results[n].status # "completed"

HasFailed(cp) == \E n \in Node : cp.results[n].status = "failed"

\* Mutant of RestoreNodeResult: the output is not restored.
RestoreWithoutOutput(r) ==
  IF r.status = "completed" THEN Complete(Undefined) ELSE NoResult

RestoreNodeResult(r) ==
  CASE r.status = "completed" -> Complete(r.output)
    [] r.status = "failed"    -> Failed
    [] OTHER                  -> NoResult

\* The results restored before the first entry that throws: the entries are
\* in the order of the waves, the skipped nodes of a wave before the others.
RestoreNodeResults(cp) ==
  [n \in Node |->
     IF \E v, w \in DOMAIN Waves : /\ v <= w
                                   /\ n \in WaveNodes(w)
                                   /\ \E m \in WaveNodes(v) : cp.results[m].status = "pending"
     THEN NoResult
     ELSE RestoreNodeResult(cp.results[n])]

\* resumeGraph on the i-th checkpoint of the session.
Resume(i) ==
  /\ NewCall
  /\ Restorable(store[i]) /\ ~HasFailed(store[i])
  /\ Enter(RestoreNodeResults(store[i]), TRUE)
  /\ traversed' = store[i].traversed

\* The checkpoint holds an entry that cannot be restored, or a failed node.
ResumeFails(i) ==
  /\ NewCall
  /\ ~Restorable(store[i]) \/ HasFailed(store[i])
  /\ results' = RestoreNodeResults(store[i])
  /\ Return("Failed")
  /\ UNCHANGED traversed

ResumeAny ==
  \E i \in DOMAIN store :
    /\ LatestOnly => i = Latest
    /\ Resume(i) \/ ResumeFails(i)

-----------------------------------------------------------------------------
(* Waves.                                                                  *)

ShouldSkip(n) ==
  LET incoming == {e \in Edge : e.to = n}
  IN  /\ incoming # {}
      /\ \A e \in incoming :
           /\ e.conditional
           /\ ~(/\ HasResult(e.from)
                /\ results[e.from].status # "Skipped"
                /\ results[e.from].output \in e.accepts)

\* Mutant of PendingWaveNodes: a resumed call runs the whole wave again.
AllWaveNodes == WaveNodes(wave)

PendingWaveNodes == {n \in WaveNodes(wave) : ~resumed \/ ~HasResult(n)}

\* executeWave: nodes whose conditions fail are skipped at once, the others
\* start together.  A wave with nothing to run is complete without a
\* checkpoint.
BeginWave ==
  /\ pc = "wave" /\ wave <= Len(Waves)
  /\ LET toRun == {n \in PendingWaveNodes : ~ShouldSkip(n)}
     IN  /\ results' = [n \in Node |-> IF n \in PendingWaveNodes \ toRun
                                       THEN Skipped ELSE results[n]]
         /\ task' = [n \in Node |-> IF n \in toRun THEN Running ELSE NoResult]
         /\ IF toRun = {} THEN pc' = "wave" /\ wave' = wave + 1
                          ELSE pc' = "tasks" /\ wave' = wave
  /\ UNCHANGED <<result, resumed, interrupter, edge, iteration, pos, store, traversed, bounds>>

\* A node's executor returns or throws.
TaskSettles(n) ==
  /\ pc = "tasks" /\ task[n] = Running
  /\ \E r \in {Failed} \cup {Complete(o) : o \in Returns[n]} : task' = [task EXCEPT ![n] = r]
  /\ UNCHANGED <<pc, result, results, resumed, wave, interrupter, edge, iteration, pos,
                 store, traversed, bounds>>

\* A node's executor throws an InterruptError.
TaskInterrupts(n) ==
  /\ pc = "tasks" /\ task[n] = Running
  /\ task' = [task EXCEPT ![n] = Interrupted]
  /\ interrupter' = n
  /\ UNCHANGED <<pc, result, results, resumed, wave, edge, iteration, pos,
                 store, traversed, bounds>>

\* Promise.all has rejected: the results of the wave are dropped.
CatchInterrupt ==
  /\ pc = "tasks"
  /\ \E n \in Node : task[n] = Interrupted
  /\ pc' = "interruptWave"
  /\ task' = Empty
  /\ UNCHANGED <<result, results, resumed, wave, interrupter, edge, iteration, pos,
                 store, traversed, bounds>>

WaveSettled == \A n \in Node : task[n] \notin {Running, Interrupted}

\* Mutant of CommitWave: a failed result does not stop the wave.
CommitWaveWithFailures ==
  /\ pc = "tasks" /\ WaveSettled
  /\ results' = [n \in Node |-> IF task[n] = NoResult THEN results[n] ELSE task[n]]
  /\ pc' = "saveWave"
  /\ task' = Empty
  /\ UNCHANGED <<result, resumed, wave, interrupter, edge, iteration, pos,
                 store, traversed, bounds>>

\* Every node of the wave returned: their results are recorded in order.
CommitWave ==
  /\ pc = "tasks" /\ WaveSettled
  /\ \A n \in Node : task[n] # Failed
  /\ results' = [n \in Node |-> IF task[n] = NoResult THEN results[n] ELSE task[n]]
  /\ pc' = "saveWave"
  /\ task' = Empty
  /\ UNCHANGED <<result, resumed, wave, interrupter, edge, iteration, pos,
                 store, traversed, bounds>>

\* A node of the wave failed: its result is the last one recorded, and the
\* call fails without a checkpoint.
FailWave ==
  /\ pc = "tasks" /\ WaveSettled
  /\ \E i \in DOMAIN Waves[wave] :
       /\ task[Waves[wave][i]] = Failed
       /\ \A j \in DOMAIN Waves[wave] : j < i => task[Waves[wave][j]] # Failed
       /\ results' = [n \in Node |->
            IF task[n] # NoResult /\ \E j \in DOMAIN Waves[wave] : j <= i /\ Waves[wave][j] = n
            THEN task[n] ELSE results[n]]
  /\ Return("Failed")
  /\ UNCHANGED <<store, traversed, bounds>>

\* Mutant of SaveWave: the wave index advances twice.
SaveWaveAdvancesTwice ==
  /\ pc = "saveWave"
  /\ Save("loop", wave - 1, 0)
  /\ pc' = "wave" /\ wave' = wave + 2
  /\ UNCHANGED <<result, results, resumed, task, interrupter, edge, iteration, pos,
                 traversed, bounds>>

SaveWave ==
  /\ pc = "saveWave"
  /\ Save("loop", wave - 1, 0)
  /\ pc' = "wave" /\ wave' = wave + 1
  /\ UNCHANGED <<result, results, resumed, task, interrupter, edge, iteration, pos,
                 traversed, bounds>>

\* Mutant of SaveInterruptedWave: the call returns without saving.
ReturnUnsaved ==
  /\ pc = "interruptWave"
  /\ Return("Interrupted")
  /\ UNCHANGED <<results, store, traversed, bounds>>

SaveInterruptedWave ==
  /\ pc = "interruptWave"
  /\ Save("interrupt", wave - 1, 0)
  /\ Return("Interrupted")
  /\ UNCHANGED <<results, traversed, bounds>>

SaveWaveFails ==
  /\ pc = "saveWave"
  /\ Reject
  /\ Return("Failed")
  /\ UNCHANGED <<results, traversed, calls>>

\* swallowCheckpointSaveError: the call is interrupted all the same.
SaveInterruptedWaveFails ==
  /\ pc = "interruptWave"
  /\ Reject
  /\ Return("Interrupted")
  /\ UNCHANGED <<results, traversed, calls>>

-----------------------------------------------------------------------------
(* Back-edge cycles.                                                       *)

\* Mutant of EnterCycles: the loop over waves ends one wave early.
EnterCyclesEarly ==
  /\ pc = "wave" /\ wave >= Len(Waves)
  /\ pc' = "edge"
  /\ UNCHANGED <<result, results, resumed, control, store, traversed, bounds>>

EnterCycles ==
  /\ pc = "wave" /\ wave > Len(Waves)
  /\ pc' = "edge"
  /\ UNCHANGED <<result, results, resumed, control, store, traversed, bounds>>

CurrentEdge == BackEdge[edge]
CycleNode == CurrentEdge.cycle[pos]

ShouldRunIteration ==
  /\ CurrentEdge.cycle # <<>>
  /\ iteration <= CurrentEdge.max
  /\ HasResult(CurrentEdge.from)
  /\ CurrentEdge.conditional => results[CurrentEdge.from].output \in CurrentEdge.accepts

BeginIteration ==
  /\ pc = "edge" /\ edge <= Len(BackEdge) /\ ShouldRunIteration
  /\ pc' = "cycleNode"
  /\ pos' = 1
  /\ UNCHANGED <<result, results, resumed, wave, task, interrupter, edge, iteration,
                 store, traversed, bounds>>

NextEdge ==
  /\ pc = "edge" /\ edge <= Len(BackEdge) /\ ~ShouldRunIteration
  /\ edge' = edge + 1 /\ iteration' = 1
  /\ UNCHANGED <<pc, result, results, resumed, wave, task, interrupter, pos,
                 store, traversed, bounds>>

CycleNodeCompletes ==
  /\ pc = "cycleNode"
  /\ \E o \in Returns[CycleNode] : results' = [results EXCEPT ![CycleNode] = Complete(o)]
  /\ IF pos < Len(CurrentEdge.cycle)
     THEN pc' = "cycleNode" /\ pos' = pos + 1 /\ traversed' = traversed
     ELSE /\ pc' = "saveCycle" /\ pos' = pos
          /\ traversed' = [traversed EXCEPT ![edge] = @ + 1]
  /\ UNCHANGED <<result, resumed, wave, task, interrupter, edge, iteration, store, bounds>>

CycleNodeFails ==
  /\ pc = "cycleNode"
  /\ results' = [results EXCEPT ![CycleNode] = Failed]
  /\ Return("Failed")
  /\ UNCHANGED <<store, traversed, bounds>>

CycleNodeInterrupts ==
  /\ pc = "cycleNode"
  /\ pc' = "interruptCycle"
  /\ interrupter' = CycleNode
  /\ UNCHANGED <<result, results, resumed, wave, task, edge, iteration, pos,
                 store, traversed, bounds>>

\* Mutant of SaveCycle: the until predicate is not consulted.
SaveCycleIgnoresUntil ==
  /\ pc = "saveCycle"
  /\ Save("loop", iteration, edge)
  /\ pc' = "edge"
  /\ iteration' = iteration + 1
  /\ UNCHANGED <<result, results, resumed, wave, task, interrupter, edge, pos, traversed, bounds>>

\* The checkpoint of a complete iteration; the until predicate then decides
\* whether the loop over iterations breaks.
SaveCycle ==
  /\ pc = "saveCycle"
  /\ Save("loop", iteration, edge)
  /\ pc' = "edge"
  /\ IF results[CurrentEdge.from].output \in CurrentEdge.until
     THEN edge' = edge + 1 /\ iteration' = 1
     ELSE edge' = edge /\ iteration' = iteration + 1
  /\ UNCHANGED <<result, results, resumed, wave, task, interrupter, pos, traversed, bounds>>

\* Mutant of SaveInterruptedCycle: the interrupt is saved as a completion.
SaveInterruptedCycleAsLoop ==
  /\ pc = "interruptCycle"
  /\ Save("loop", iteration, edge)
  /\ Return("Interrupted")
  /\ UNCHANGED <<results, traversed, bounds>>

SaveInterruptedCycle ==
  /\ pc = "interruptCycle"
  /\ Save("interrupt", iteration, edge)
  /\ Return("Interrupted")
  /\ UNCHANGED <<results, traversed, bounds>>

SaveCycleFails ==
  /\ pc \in {"saveCycle", "interruptCycle"}
  /\ Reject
  /\ Return("Failed")
  /\ UNCHANGED <<results, traversed, calls>>

\* onCheckpoint or onEvent throws after the checkpoint was saved: the call
\* fails but the checkpoint stays.  In an interrupted wave this is swallowed.
SaveThenFail ==
  /\ pc \in {"saveWave", "saveCycle", "interruptCycle"}
  /\ faults < MaxFaults /\ faults' = faults + 1
  /\ IF pc = "saveWave" THEN Save("loop", wave - 1, 0)
     ELSE \E source \in {"loop", "interrupt"} :
            /\ source = "interrupt" <=> pc = "interruptCycle"
            /\ Save(source, iteration, edge)
  /\ Return("Failed")
  /\ UNCHANGED <<results, traversed, calls>>

\* Mutant of Finish: the loop over back edges never sees its end.
FinishLate ==
  /\ pc = "edge" /\ edge > Len(BackEdge) + 1
  /\ Return("Complete")
  /\ UNCHANGED <<results, store, traversed, bounds>>

Finish ==
  /\ pc = "edge" /\ edge > Len(BackEdge)
  /\ Return("Complete")
  /\ UNCHANGED <<results, store, traversed, bounds>>

-----------------------------------------------------------------------------
\* The process dies; the store survives.
Crash ==
  /\ pc # "idle"
  /\ pc' = "idle" /\ result' = "Crashed"
  /\ results' = Empty
  /\ ResetControl
  /\ UNCHANGED <<store, traversed, bounds>>

-----------------------------------------------------------------------------
Init ==
  /\ pc = "idle" /\ result = "None"
  /\ results = Empty /\ task = Empty
  /\ resumed = FALSE
  /\ wave = 1 /\ edge = 1 /\ iteration = 1 /\ pos = 1
  /\ interrupter = NoNode
  /\ store = <<>>
  /\ traversed = [e \in DOMAIN BackEdge |-> 0]
  /\ calls = 0 /\ faults = 0

WaveStep ==
  \/ BeginWave
  \/ \E n \in Node : TaskSettles(n) \/ TaskInterrupts(n)
  \/ CatchInterrupt \/ CommitWave \/ FailWave
  \/ SaveWave \/ SaveInterruptedWave \/ SaveWaveFails \/ SaveInterruptedWaveFails
  \/ EnterCycles

CycleStep ==
  \/ BeginIteration \/ NextEdge
  \/ CycleNodeCompletes \/ CycleNodeFails \/ CycleNodeInterrupts
  \/ SaveCycle \/ SaveInterruptedCycle \/ SaveCycleFails \/ SaveThenFail
  \/ Finish

Next == Execute \/ ResumeAny \/ WaveStep \/ CycleStep \/ Crash

Spec == Init /\ [][Next]_vars

(* The event loop runs every ready continuation, the store answers, and    *)
(* the nodes' executors settle: the last is an assumption on the caller's  *)
(* functions, as the executor enforces no nodeTimeout.  Callers need not   *)
(* start a call and the process need not crash.                            *)
Fairness == WF_vars(WaveStep) /\ WF_vars(CycleStep)

FairSpec == Spec /\ Fairness

-----------------------------------------------------------------------------
TypeOK ==
  /\ pc \in {"idle", "wave", "tasks", "saveWave", "interruptWave",
             "edge", "cycleNode", "saveCycle", "interruptCycle"}
  /\ result \in {"None", "Running", "Complete", "Failed", "Interrupted", "Crashed"}
  /\ results \in [Node -> NodeResult]
  /\ task \in [Node -> Task]
  /\ resumed \in BOOLEAN
  /\ interrupter \in Node \cup {NoNode}
  /\ wave \in Nat \ {0} /\ edge \in Nat \ {0} /\ iteration \in Nat /\ pos \in Nat \ {0}
  /\ store \in Seq(Checkpoint)
  /\ traversed \in [DOMAIN BackEdge -> Nat]
  /\ calls \in Nat /\ faults \in Nat

(* The inductive invariant: how the position in the waves and cycles       *)
(* relates to the results there are.                                       *)
InWaves == pc \in {"wave", "tasks", "saveWave", "interruptWave"}
InCycles == pc \in {"edge", "cycleNode", "saveCycle", "interruptCycle"}

\* The nodes that have a result.
Done == {n \in Node : HasResult(n)}

Dependencies(n) == {e.from : e \in {f \in Edge : f.to = n}}

DownClosed(S) == \A e \in Edge : e.to \in S => e.from \in S

Recorded(cp) == {n \in Node : cp.results[n].status # "None"}

CallIsRunning == pc = "idle" <=> result # "Running"

IdleIsReset ==
  /\ pc = "idle" => wave = 1
  /\ pc # "tasks" => task = Empty

CycleIsPlaced ==
  pc \in {"cycleNode", "saveCycle", "interruptCycle"} =>
    edge \in DOMAIN BackEdge /\ pos \in DOMAIN CurrentEdge.cycle

EarlierWavesHaveResults ==
  InWaves => \A w \in DOMAIN Waves : w < wave => \A n \in WaveNodes(w) : HasResult(n)

WaveIsAccountedFor ==
  /\ pc # "wave" /\ InWaves => wave \in DOMAIN Waves
  /\ pc = "tasks" =>
       \A n \in Node :
         /\ n \in WaveNodes(wave) => HasResult(n) \/ task[n] # NoResult
         /\ task[n] # NoResult => n \in WaveNodes(wave)
  /\ pc = "saveWave" => \A n \in WaveNodes(wave) : HasResult(n)

CyclesHaveAllResults == InCycles => \A n \in Node : HasResult(n)

ResultsClosed ==
  /\ DownClosed(Done)
  /\ \A i \in DOMAIN store : DownClosed(Recorded(store[i]))

LatestExists == store # <<>> => \E i \in DOMAIN store : IsLatest(i)

(* Wherever a call stands, what it has done is what it goes on from: every *)
(* node of the waves before the current one has a result, so has every     *)
(* node once the cycles have begun, a task is a node of the current wave,  *)
(* and results and checkpoints are closed under dependencies.              *)
ProgressInv ==
  /\ CallIsRunning /\ IdleIsReset /\ CycleIsPlaced
  /\ EarlierWavesHaveResults /\ WaveIsAccountedFor /\ CyclesHaveAllResults
  /\ ResultsClosed /\ LatestExists

(* The executor implements the promise of GraphRun: results appear in      *)
(* batches closed under dependencies, a checkpoint records exactly the     *)
(* results so far, a call resumes from a recorded set, and only a call     *)
(* that has a result for every node reports Complete.                      *)
Run == INSTANCE GraphRun WITH
  Dep <- [n \in Node |-> Dependencies(n)],
  done <- Done,
  durable <- {Recorded(store[i]) : i \in DOMAIN store},
  outcome <- result

RunSpec == Run!Spec

(* The decision to skip or run a node, taken when its wave began and maybe *)
(* in an earlier call, still agrees with the edge conditions on the        *)
(* results as they stand in any later wave.                                *)
BranchesFollowConditions ==
  InWaves => \A n \in Node :
    /\ results[n] = Skipped => ShouldSkip(n)
    /\ results[n].status = "Complete" => ~ShouldSkip(n)

(* Within the waves of a call a result, computed or restored from a        *)
(* checkpoint, is never replaced: the executor of a node that a checkpoint *)
(* records as completed does not run again before the cycles.              *)
ResultsKept ==
  [][InWaves /\ pc' # "idle" =>
       \A n \in Node : HasResult(n) => results'[n] = results[n] /\ task'[n] # Running]_vars

(* A call that reports Interrupted leaves a checkpoint that holds exactly  *)
(* the results it returned and names the node to continue with, unless the *)
(* store failed: that failure is swallowed in a wave.                      *)
InterruptedIsDurable ==
  result = "Interrupted" /\ faults = 0 =>
    /\ store # <<>>
    /\ LET cp == store[Len(store)]
       IN  /\ cp.source = "interrupt"
           /\ cp.results = MapNodeResults(results)
           /\ cp.node \in Node
           /\ cp.cycle = 0 => cp.results[cp.node].status = "None"

(* As long as a session resumes from its latest checkpoint and has no back *)
(* edges, the latest checkpoint by step is the one saved last, and the     *)
(* versions, taken from it, are consecutive.                               *)
LatestIsNewest ==
  \A i \in DOMAIN store :
    /\ store[i].version = i
    /\ i = Len(store) => Latest = i

(* A graph fails only because a node failed or the store did, whatever was *)
(* interrupted, saved, crashed and resumed before.                         *)
FailsForCause ==
  result = "Failed" /\ faults = 0 => \E n \in Node : results[n] = Failed

(* Checkpoints never hold a failed node: a failing call saves nothing, so  *)
(* a session is never stuck on a checkpoint that can only fail again.      *)
NoFailureRecorded ==
  \A i \in DOMAIN store : ~HasFailed(store[i])

(* A back edge is followed once more within a call only if its until       *)
(* predicate rejected the output that its source produced in the iteration *)
(* before.                                                                 *)
UntilStops ==
  [][pc = "edge" /\ pc' = "cycleNode" /\ iteration > 1 =>
       results[CurrentEdge.from].output \notin CurrentEdge.until]_vars

(* A back edge is traversed at most maxIterations times in the history of  *)
(* a call's results, the calls it was resumed from included.               *)
TraversalsBounded ==
  \A e \in DOMAIN BackEdge : traversed[e] <= BackEdge[e].max

(* Every call returns or the process dies.                                 *)
CallsReturn == pc # "idle" ~> pc = "idle"

=============================================================================
