-------------------------- MODULE GraphExecutorProof --------------------------
(***************************************************************************)
(* The graph executor, for every graph, store and number of calls: types,  *)
(* the progress of a call through waves and cycles, that it implements     *)
(* GraphRun, and what its checkpoints hold, under the hypotheses that each *)
(* theorem states.                                                         *)
(***************************************************************************)
EXTENDS GraphExecutor, SequenceTheorems, TLAPS

USE DEF Value

-----------------------------------------------------------------------------
(* Results and checkpoint records.                                         *)

(* A node has a result exactly when its status is not "None".              *)
LEMMA NodeResultStatus ==
  ASSUME NEW r \in NodeResult
  PROVE  /\ r.status \in {"None", "Skipped", "Failed", "Complete"}
         /\ r.status = "None" <=> r = NoResult
         /\ r.status = "Complete" => r.output \in Output
         /\ r.status # "Complete" => r.output = Undefined
BY DEF NodeResult, NoResult, Skipped, Failed, Complete

(* mapNodeResultToCheckpoint gives a record of the checkpoint format, and  *)
(* an absent result stays absent.                                          *)
LEMMA MappedResults ==
  ASSUME NEW rs \in [Node -> NodeResult]
  PROVE  /\ MapNodeResults(rs) \in [Node -> CheckpointResult]
         /\ \A n \in Node : MapNodeResults(rs)[n].status = "None" <=> rs[n] = NoResult
<1> SUFFICES ASSUME NEW n \in Node
             PROVE  /\ MapNodeResults(rs)[n] \in CheckpointResult
                    /\ MapNodeResults(rs)[n].status = "None" <=> rs[n] = NoResult
  BY DEF MapNodeResults
<1>1. rs[n] \in NodeResult
  OBVIOUS
<1>2. MapNodeResults(rs)[n] = [status |-> CheckpointStatus(rs[n]), output |-> rs[n].output]
  BY DEF MapNodeResults
<1>3. CASE rs[n].status = "None"
  BY <1>1, <1>2, <1>3, NodeResultStatus DEF CheckpointStatus, CheckpointResult
<1>4. CASE rs[n].status = "Skipped"
  BY <1>1, <1>2, <1>4, NodeResultStatus DEF CheckpointStatus, CheckpointResult
<1>5. CASE rs[n].status = "Failed"
  BY <1>1, <1>2, <1>5, NodeResultStatus DEF CheckpointStatus, CheckpointResult
<1>6. CASE rs[n].status = "Complete"
  BY <1>1, <1>2, <1>6, NodeResultStatus DEF CheckpointStatus, CheckpointResult
<1> QED
  BY <1>1, <1>3, <1>4, <1>5, <1>6, NodeResultStatus

(* toCheckpointNodeResult and makeNodeResult: what is restored has the type *)
(* of a result, and everything but a "pending" record comes back.          *)
LEMMA RestoredResult ==
  ASSUME NEW r \in CheckpointResult
  PROVE  /\ RestoreNodeResult(r) \in NodeResult
         /\ r.status # "pending" =>
              (RestoreNodeResult(r) = NoResult <=> r.status = "None")
<1>1. r.status \in {"None", "completed", "failed", "pending"}
  BY DEF CheckpointResult
<1>2. r.status = "completed" => r.output \in Output
  BY DEF CheckpointResult
<1>3. CASE r.status = "completed"
  BY <1>2, <1>3 DEF RestoreNodeResult, NodeResult, Complete, NoResult
<1>4. CASE r.status = "failed"
  BY <1>4 DEF RestoreNodeResult, NodeResult, Failed, NoResult
<1>5. CASE r.status \in {"None", "pending"}
  BY <1>5 DEF RestoreNodeResult, NodeResult
<1> QED
  BY <1>1, <1>3, <1>4, <1>5

(* A checkpoint restores to typed results; one without "pending" records   *)
(* restores a result for every node it records.                            *)
LEMMA RestoredResults ==
  ASSUME NEW cp \in Checkpoint
  PROVE  /\ RestoreNodeResults(cp) \in [Node -> NodeResult]
         /\ Restorable(cp) => \A n \in Node :
              RestoreNodeResults(cp)[n] # NoResult <=> n \in Recorded(cp)
<1>1. cp.results \in [Node -> CheckpointResult]
  BY DEF Checkpoint
<1>2. NoResult \in NodeResult
  BY DEF NodeResult
<1>3. \A n \in Node : RestoreNodeResults(cp)[n] \in {NoResult, RestoreNodeResult(cp.results[n])}
  BY DEF RestoreNodeResults
<1>4. RestoreNodeResults(cp) \in [Node -> NodeResult]
  BY <1>1, <1>2, <1>3, RestoredResult DEF RestoreNodeResults
<1>5. ASSUME Restorable(cp), NEW n \in Node
      PROVE  RestoreNodeResults(cp)[n] # NoResult <=> n \in Recorded(cp)
  <2>1. \A w \in DOMAIN Waves : WaveNodes(w) \subseteq Node
    BY WavesAssumption DEF WaveNodes
  <2>2. RestoreNodeResults(cp)[n] = RestoreNodeResult(cp.results[n])
    BY <1>5, <2>1 DEF RestoreNodeResults, Restorable
  <2> QED
    BY <1>1, <1>5, <2>2, RestoredResult DEF Restorable, Recorded
<1> QED
  BY <1>4, <1>5

-----------------------------------------------------------------------------
(* The store.                                                              *)

(* What typing needs beside TypeOK: a cycle in progress has a current      *)
(* node, and the store has a latest checkpoint for the next version.       *)
TypeInv == TypeOK /\ CycleIsPlaced /\ LatestExists

(* The fields of a checkpoint.                                             *)
LEMMA CheckpointFields ==
  ASSUME NEW cp \in Checkpoint
  PROVE  /\ cp.step \in Nat /\ cp.version \in Nat
         /\ cp.results \in [Node -> CheckpointResult]
         /\ cp.traversed \in [DOMAIN BackEdge -> Nat]
BY DEF Checkpoint

(* Appending a checkpoint leaves a latest one: the new one if its step is  *)
(* at least that of the old latest, else the old latest.                   *)
LEMMA AppendedLatest ==
  ASSUME NEW cp \in Checkpoint, store \in Seq(Checkpoint), LatestExists,
         store' = Append(store, cp)
  PROVE  LatestExists'
<1>1. PICK n \in Nat :
      /\ DOMAIN store' = DOMAIN store \cup {n}
      /\ n \notin DOMAIN store
      /\ store'[n] = cp
      /\ \A j \in DOMAIN store : store'[j] = store[j] /\ j \in Nat /\ j < n
  <2>1. /\ Len(store) + 1 \in Nat
        /\ DOMAIN store' = DOMAIN store \cup {Len(store) + 1}
        /\ \A j \in DOMAIN store : store'[j] = store[j] /\ j \in Nat /\ j < Len(store) + 1
        /\ store'[Len(store) + 1] = cp
    BY AppendProperties
  <2> QED
    BY <2>1
<1>2. /\ cp.step \in Nat
      /\ \A j \in DOMAIN store : store[j].step \in Nat
  <2>1. \A j \in DOMAIN store : store[j] \in Checkpoint
    OBVIOUS
  <2> QED
    BY <2>1, CheckpointFields
<1>3. CASE store = <<>>
  BY <1>1, <1>3 DEF LatestExists, IsLatest
<1>4. CASE store # <<>>
  <2>1. PICK i \in DOMAIN store : IsLatest(i)
    BY <1>4 DEF LatestExists
  <2>2. CASE cp.step >= store[i].step
    <3>1. \A j \in DOMAIN store : store[j].step < cp.step \/ (store[j].step = cp.step /\ j < n)
      BY <1>1, <1>2, <2>1, <2>2 DEF IsLatest
    <3>2. IsLatest(n)'
      BY <1>1, <3>1 DEF IsLatest
    <3> QED
      BY <1>1, <3>2 DEF LatestExists
  <2>3. CASE cp.step < store[i].step
    <3>1. IsLatest(i)'
      BY <1>1, <2>1, <2>3 DEF IsLatest
    <3> QED
      BY <1>1, <3>1 DEF LatestExists
  <2> QED
    BY <1>2, <2>2, <2>3
<1> QED
  BY <1>3, <1>4

(* A successful save appends one checkpoint, which records the nodes that  *)
(* have a result.                                                          *)
LEMMA SavedCheckpoint ==
  ASSUME TypeInv, NEW source \in {"loop", "interrupt"}, NEW step \in Nat,
         NEW cycle \in Nat, Save(source, step, cycle)
  PROVE  /\ \E cp \in Checkpoint :
              /\ store' = Append(store, cp)
              /\ Recorded(cp) = Done
         /\ store' \in Seq(Checkpoint)
         /\ LatestExists'
<1> DEFINE cp == [results |-> MapNodeResults(results), source |-> source, node |-> interrupter,
                  step |-> step, version |-> NextVersion, cycle |-> cycle,
                  traversed |-> traversed]
<1>1. NextVersion \in Nat
  <2>1. CASE store = <<>>
    BY <2>1 DEF NextVersion
  <2>2. CASE store # <<>>
    <3>1. Latest \in DOMAIN store
      BY <2>2 DEF TypeInv, LatestExists, Latest
    <3>2. store[Latest].version \in Nat
      <4>1. store[Latest] \in Checkpoint
        BY <3>1 DEF TypeInv, TypeOK
      <4> QED
        BY <4>1, CheckpointFields
    <3> QED
      BY <2>2, <3>2 DEF NextVersion
  <2> QED
    BY <2>1, <2>2
<1>2. cp \in Checkpoint
  BY <1>1, MappedResults DEF TypeInv, TypeOK, Checkpoint
<1>3. store' = Append(store, cp)
  BY DEF Save
<1>4. Recorded(cp) = Done
  BY MappedResults DEF Recorded, Done, HasResult, TypeInv, TypeOK
<1>5. LatestExists'
  BY <1>2, <1>3, AppendedLatest DEF TypeInv, TypeOK
<1> HIDE DEF cp
<1>6. store' \in Seq(Checkpoint)
  BY <1>2, <1>3 DEF TypeInv, TypeOK
<1> QED
  BY <1>2, <1>3, <1>4, <1>5, <1>6

-----------------------------------------------------------------------------
(* Type correctness.                                                       *)

(* Back edges and their cycles have the types the assumption states.       *)
LEMMA BackEdgeTypes ==
  ASSUME NEW e \in DOMAIN BackEdge
  PROVE  /\ BackEdge[e].from \in Node /\ BackEdge[e].to \in Node
         /\ BackEdge[e].cycle \in Seq(Node)
<1>1. BackEdge[e] \in BackEdgeRecord
  BY BackEdgeAssumption
<1> QED
  BY <1>1 DEF BackEdgeRecord

(* A call that returns leaves the variables of calls as they are initially. *)
LEMMA ReturnReset ==
  ASSUME ResetControl, pc' = "idle"
  PROVE  /\ pc' = "idle" /\ CycleIsPlaced'
         /\ task' = Empty /\ task' \in [Node -> Task]
         /\ resumed' \in BOOLEAN /\ interrupter' \in Node \cup {NoNode}
         /\ wave' = 1 /\ wave' \in Nat \ {0} /\ edge' \in Nat \ {0}
         /\ iteration' \in Nat /\ pos' \in Nat \ {0}
<1>1. /\ pc' = "idle" /\ task' = Empty /\ resumed' = FALSE /\ interrupter' = NoNode
      /\ wave' = 1 /\ edge' = 1 /\ iteration' = 1 /\ pos' = 1
  BY DEF ResetControl
<1>2. Empty \in [Node -> Task]
  BY DEF Empty, Task
<1>3. CycleIsPlaced'
  BY <1>1 DEF CycleIsPlaced
<1>4. task' = Empty /\ task' \in [Node -> Task]
  BY <1>1, <1>2
<1>5. resumed' \in BOOLEAN /\ interrupter' \in Node \cup {NoNode}
  BY <1>1
<1>6. /\ wave' = 1 /\ wave' \in Nat \ {0} /\ edge' \in Nat \ {0}
      /\ iteration' \in Nat /\ pos' \in Nat \ {0}
  BY <1>1
<1> QED
  BY <1>1, <1>3, <1>4, <1>5, <1>6

LEMMA TypeInit == Init => TypeInv
<1> SUFFICES ASSUME Init PROVE TypeInv
  OBVIOUS
<1>1. NoResult \in NodeResult /\ NoResult \in Task
  BY DEF NodeResult, Task
<1>2. store \in Seq(Checkpoint)
  BY DEF Init
<1>3. results \in [Node -> NodeResult] /\ task \in [Node -> Task]
  BY <1>1 DEF Init, Empty
<1>4. CycleIsPlaced /\ LatestExists
  BY DEF Init, CycleIsPlaced, LatestExists
<1>5. traversed \in [DOMAIN BackEdge -> Nat]
  BY DEF Init
<1>6. resumed \in BOOLEAN /\ interrupter \in Node \cup {NoNode}
  BY DEF Init
<1>7. /\ pc = "idle" /\ result = "None"
      /\ wave = 1 /\ edge = 1 /\ iteration = 1 /\ pos = 1 /\ calls = 0 /\ faults = 0
  BY DEF Init
<1> QED
  BY <1>2, <1>3, <1>4, <1>5, <1>6, <1>7 DEF TypeInv, TypeOK

LEMMA TypeNext == TypeInv /\ [Next]_vars => TypeInv'
<1> SUFFICES ASSUME TypeInv, [Next]_vars PROVE TypeInv'
  OBVIOUS
<1> USE DEF TypeInv, TypeOK, CycleIsPlaced
<1>a. /\ NoResult \in NodeResult /\ Skipped \in NodeResult /\ Failed \in NodeResult
      /\ NoResult \in Task /\ Running \in Task /\ Failed \in Task /\ Interrupted \in Task
      /\ \A o \in Output : Complete(o) \in NodeResult /\ Complete(o) \in Task
  BY DEF NodeResult, Task
<1>b. \A r \in Task \ {Running, Interrupted} : r \in NodeResult
  BY DEF NodeResult, Task
<1>c. Empty \in [Node -> NodeResult] /\ Empty \in [Node -> Task]
  BY <1>a DEF Empty
<1>d. UNCHANGED store => LatestExists'
  BY DEF LatestExists, IsLatest
<1>e. \A i \in DOMAIN store : store[i] \in Checkpoint
  OBVIOUS
<1>f. \A i \in DOMAIN store :
        /\ RestoreNodeResults(store[i]) \in [Node -> NodeResult]
        /\ store[i].traversed \in [DOMAIN BackEdge -> Nat]
  BY <1>e, RestoredResults, CheckpointFields
<1>1. CASE Execute
  <2>1. traversed' \in [DOMAIN BackEdge -> Nat]
    BY <1>1 DEF Execute
  <2>2. results' \in [Node -> NodeResult]
    BY <1>1, <1>c DEF Execute, Enter
  <2>3. pc' = "wave" /\ result' = "Running" /\ resumed' \in BOOLEAN
    BY <1>1 DEF Execute, Enter
  <2>5. calls' \in Nat
    BY <1>1 DEF Execute, NewCall
  <2>4. UNCHANGED <<store, faults>> /\ UNCHANGED control
    BY <1>1 DEF Execute, NewCall, Enter
  <2> QED
    BY <2>1, <2>2, <2>3, <2>4, <2>5, <1>d DEF control
<1>2. CASE ResumeAny
  <2>1. PICK i \in DOMAIN store : Resume(i) \/ ResumeFails(i)
    BY <1>2 DEF ResumeAny
  <2>2. CASE Resume(i)
    BY <2>2, <1>d, <1>f DEF Resume, NewCall, Enter, control
  <2>3. CASE ResumeFails(i)
    BY <2>3, <1>d, <1>f, ReturnReset DEF ResumeFails, NewCall, Return
  <2> QED
    BY <2>1, <2>2, <2>3
<1>3. CASE BeginWave
  <2> DEFINE toRun == {n \in PendingWaveNodes : ~ShouldSkip(n)}
  <2>1. /\ results' = [n \in Node |-> IF n \in PendingWaveNodes \ toRun THEN Skipped ELSE results[n]]
        /\ task' = [n \in Node |-> IF n \in toRun THEN Running ELSE NoResult]
        /\ pc' \in {"wave", "tasks"} /\ wave' \in {wave, wave + 1}
        /\ UNCHANGED <<result, resumed, interrupter, edge, iteration, pos, store, traversed, bounds>>
    BY <1>3 DEF BeginWave
  <2> HIDE DEF toRun
  <2>2. results' \in [Node -> NodeResult] /\ task' \in [Node -> Task]
    BY <2>1, <1>a
  <2> QED
    BY <2>1, <2>2, <1>d DEF bounds
<1>4. ASSUME NEW n \in Node, TaskSettles(n) PROVE TypeInv'
  <2>1. \A o \in Returns[n] : o \in Output
    BY ReturnsAssumption
  <2>2. task' \in [Node -> Task]
    BY <1>4, <1>a, <2>1 DEF TaskSettles
  <2> QED
    BY <1>4, <2>2, <1>d DEF TaskSettles, bounds
<1>5. ASSUME NEW n \in Node, TaskInterrupts(n) PROVE TypeInv'
  BY <1>5, <1>a, <1>d DEF TaskInterrupts, bounds
<1>6. CASE CatchInterrupt
  BY <1>6, <1>c, <1>d DEF CatchInterrupt, bounds
<1>7. CASE CommitWave
  <2>1. results' \in [Node -> NodeResult]
    BY <1>7, <1>b DEF CommitWave, WaveSettled
  <2> QED
    BY <1>7, <2>1, <1>c, <1>d DEF CommitWave, bounds
<1>8. CASE FailWave
  <2>1. results' \in [Node -> NodeResult]
    BY <1>8, <1>b DEF FailWave, WaveSettled
  <2> QED
    BY <1>8, <2>1, <1>d, ReturnReset DEF FailWave, Return, bounds
<1>9. CASE SaveWave
  <2>1. store' \in Seq(Checkpoint) /\ LatestExists'
    <3>1. Save("loop", wave - 1, 0) /\ wave - 1 \in Nat
      BY <1>9 DEF SaveWave
    <3> QED
      BY <3>1, SavedCheckpoint
  <2> QED
    BY <1>9, <2>1 DEF SaveWave, bounds
<1>10. CASE SaveInterruptedWave
  <2>1. store' \in Seq(Checkpoint) /\ LatestExists'
    <3>1. Save("interrupt", wave - 1, 0) /\ wave - 1 \in Nat
      BY <1>10 DEF SaveInterruptedWave
    <3> QED
      BY <3>1, SavedCheckpoint
  <2> QED
    BY <1>10, <2>1, ReturnReset DEF SaveInterruptedWave, Return, bounds
<1>11. CASE SaveWaveFails \/ SaveInterruptedWaveFails \/ SaveCycleFails
  BY <1>11, <1>d, ReturnReset DEF SaveWaveFails, SaveInterruptedWaveFails, SaveCycleFails,
     Reject, Return
<1>12. CASE EnterCycles
  BY <1>12, <1>d DEF EnterCycles, control, bounds
<1>13. CASE BeginIteration
  <2>1. edge \in DOMAIN BackEdge
    BY <1>13, BackEdgeAssumption DEF BeginIteration
  <2>2. 1 \in DOMAIN CurrentEdge.cycle
    BY <1>13, <2>1, BackEdgeTypes DEF BeginIteration, ShouldRunIteration, CurrentEdge
  <2> QED
    BY <1>13, <2>1, <2>2, <1>d DEF BeginIteration, bounds, CurrentEdge
<1>14. CASE NextEdge
  BY <1>14, <1>d DEF NextEdge, bounds
<1>15. CASE CycleNodeCompletes \/ CycleNodeFails \/ CycleNodeInterrupts
  <2>1. edge \in DOMAIN BackEdge /\ pos \in DOMAIN CurrentEdge.cycle
    BY <1>15 DEF CycleNodeCompletes, CycleNodeFails, CycleNodeInterrupts
  <2>2. CurrentEdge.cycle \in Seq(Node)
    BY <2>1, BackEdgeTypes DEF CurrentEdge
  <2>3. CycleNode \in Node
    BY <2>1, <2>2 DEF CycleNode
  <2>4. CASE CycleNodeCompletes
    <3>1. \A o \in Returns[CycleNode] : o \in Output
      BY <2>3, ReturnsAssumption
    <3>2. results' \in [Node -> NodeResult]
      <4>1. PICK o \in Output : results' = [results EXCEPT ![CycleNode] = Complete(o)]
        BY <2>4, <3>1 DEF CycleNodeCompletes
      <4>2. Complete(o) \in NodeResult
        BY <1>a
      <4> QED
        BY <4>1, <4>2
    <3>3. traversed' \in [DOMAIN BackEdge -> Nat]
      BY <2>4, <2>1 DEF CycleNodeCompletes
    <3>4. /\ pos' \in DOMAIN CurrentEdge.cycle
          /\ pos' \in Nat \ {0}
          /\ pc' \in {"cycleNode", "saveCycle"}
      BY <2>4, <2>1, <2>2 DEF CycleNodeCompletes
    <3> QED
      BY <2>4, <2>1, <3>2, <3>3, <3>4, <1>d DEF CycleNodeCompletes, bounds, CurrentEdge
  <2>5. CASE CycleNodeFails
    BY <2>5, <1>a, <1>d, ReturnReset DEF CycleNodeFails, Return, bounds
  <2>6. CASE CycleNodeInterrupts
    BY <2>6, <2>1, <2>3, <1>d DEF CycleNodeInterrupts, bounds, CurrentEdge
  <2> QED
    BY <1>15, <2>4, <2>5, <2>6
<1>16. CASE SaveCycle
  <2>1. store' \in Seq(Checkpoint) /\ LatestExists'
    BY <1>16, SavedCheckpoint DEF SaveCycle
  <2> QED
    BY <1>16, <2>1 DEF SaveCycle, bounds
<1>17. CASE SaveInterruptedCycle
  <2>1. store' \in Seq(Checkpoint) /\ LatestExists'
    BY <1>17, SavedCheckpoint DEF SaveInterruptedCycle
  <2> QED
    BY <1>17, <2>1, ReturnReset DEF SaveInterruptedCycle, Return, bounds
<1>18. CASE SaveThenFail
  <2>1. store' \in Seq(Checkpoint) /\ LatestExists'
    BY <1>18, SavedCheckpoint DEF SaveThenFail
  <2> QED
    BY <1>18, <2>1, ReturnReset DEF SaveThenFail, Return
<1>19. CASE Finish \/ Crash
  BY <1>19, <1>c, <1>d, ReturnReset DEF Finish, Crash, Return, bounds
<1>20. CASE UNCHANGED vars
  BY <1>20, <1>d DEF vars, control, bounds, CurrentEdge
<1> QED
  BY <1>1, <1>2, <1>3, <1>4, <1>5, <1>6, <1>7, <1>8, <1>9, <1>10, <1>11, <1>12, <1>13, <1>14,
     <1>15, <1>16, <1>17, <1>18, <1>19, <1>20 DEF Next, WaveStep, CycleStep

(* Every state of the executor is of its type, for every graph: what is    *)
(* restored from any checkpoint, at any call, is a result of a node, and   *)
(* every checkpoint saved is one that can be written and read back.        *)
THEOREM TypeCorrect == Spec => []TypeOK
<1>1. TypeInv => TypeOK
  BY DEF TypeInv
<1> QED
  BY TypeInit, TypeNext, <1>1, PTL DEF Spec

-----------------------------------------------------------------------------
(* Progress.                                                               *)

(* Whatever a node of the current wave depends on is in an earlier wave    *)
(* and has a result.                                                       *)
LEMMA DependenciesHaveResults ==
  ASSUME EarlierWavesHaveResults, InWaves, wave \in DOMAIN Waves,
         NEW e \in Edge, e.to \in WaveNodes(wave)
  PROVE  e.from \in Done
<1>1. e.from \in Node
  BY WavesAssumption
<1>2. PICK v \in DOMAIN Waves : e.from \in WaveNodes(v)
  BY <1>1, WavesAssumption
<1>3. v < wave
  BY <1>2, WavesAssumption
<1> QED
  BY <1>1, <1>2, <1>3 DEF EarlierWavesHaveResults, Done

(* Adding results of nodes of the current wave keeps the results closed    *)
(* under dependencies.                                                     *)
LEMMA BatchIsClosed ==
  ASSUME EarlierWavesHaveResults, InWaves, wave \in DOMAIN Waves, DownClosed(Done),
         NEW S \in SUBSET WaveNodes(wave)
  PROVE  DownClosed(Done \cup S)
BY DependenciesHaveResults DEF DownClosed

(* What a checkpoint restores before it throws is closed under             *)
(* dependencies too: a node's dependencies come before it, in the waves    *)
(* and so in the checkpoint.                                               *)
LEMMA RestoredIsClosed ==
  ASSUME NEW cp \in Checkpoint, DownClosed(Recorded(cp))
  PROVE  LET R == {n \in Node : RestoreNodeResults(cp)[n] # NoResult}
         IN  R \subseteq Recorded(cp) /\ DownClosed(R)
<1> DEFINE R == {n \in Node : RestoreNodeResults(cp)[n] # NoResult}
           Stops(n) == \E v, w \in DOMAIN Waves :
                         /\ v <= w /\ n \in WaveNodes(w)
                         /\ \E m \in WaveNodes(v) : cp.results[m].status = "pending"
<1>1. \A n \in Node : n \in R <=> ~Stops(n) /\ RestoreNodeResult(cp.results[n]) # NoResult
  BY DEF RestoreNodeResults
<1>2. \A n \in Node : cp.results[n] \in CheckpointResult
  BY CheckpointFields
<1>3. \A n \in Node : ~Stops(n) => cp.results[n].status # "pending"
  <2>1. \A n \in Node : \E w \in DOMAIN Waves : n \in WaveNodes(w) /\ w <= w
    BY WavesAssumption
  <2> QED
    BY <2>1
<1>4. \A n \in Node : n \in R <=> ~Stops(n) /\ n \in Recorded(cp)
  BY <1>1, <1>2, <1>3, RestoredResult DEF Recorded
<1>5. ASSUME NEW e \in Edge, Stops(e.from)
      PROVE  Stops(e.to)
  <2>1. PICK v \in DOMAIN Waves, w \in DOMAIN Waves :
          /\ v <= w /\ e.from \in WaveNodes(w)
          /\ \E m \in WaveNodes(v) : cp.results[m].status = "pending"
    BY <1>5
  <2>2. e.to \in Node
    BY WavesAssumption
  <2>3. PICK u \in DOMAIN Waves : e.to \in WaveNodes(u)
    BY <2>2, WavesAssumption
  <2>4. w < u
    BY <2>1, <2>3, WavesAssumption
  <2>5. v <= u
    BY <2>1, <2>3, <2>4, WavesAssumption
  <2> QED
    BY <2>1, <2>3, <2>5
<1>6. \A e \in Edge : e.from \in Node /\ e.to \in Node
  BY WavesAssumption
<1> HIDE DEF R, Stops
<1>7. R \subseteq Recorded(cp)
  BY <1>4 DEF R
<1>8. DownClosed(R)
  BY <1>4, <1>5, <1>6 DEF DownClosed, R
<1> QED
  BY <1>7, <1>8 DEF R

(* The store gains a checkpoint of the results and stays closed.           *)
LEMMA SavedIsClosed ==
  ASSUME TypeInv, ResultsClosed, UNCHANGED results,
         NEW source \in {"loop", "interrupt"}, NEW step \in Nat, NEW cycle \in Nat,
         Save(source, step, cycle)
  PROVE  ResultsClosed'
<1>1. PICK cp \in Checkpoint : store' = Append(store, cp) /\ Recorded(cp) = Done
  BY SavedCheckpoint
<1>2. Done' = Done
  BY DEF Done, HasResult
<1>3. store \in Seq(Checkpoint)
  BY DEF TypeInv, TypeOK
<1>4. \A i \in DOMAIN store' : store'[i] = cp \/ (i \in DOMAIN store /\ store'[i] = store[i])
  BY <1>1, <1>3, AppendProperties
<1>5. DownClosed(Done) /\ \A i \in DOMAIN store : DownClosed(Recorded(store[i]))
  BY DEF ResultsClosed
<1>6. \A i \in DOMAIN store' : DownClosed(Recorded(store'[i]))
  BY <1>1, <1>4, <1>5
<1> QED
  BY <1>2, <1>5, <1>6 DEF ResultsClosed

(* A step that leaves the store alone keeps it closed.                     *)
LEMMA UnsavedIsClosed ==
  ASSUME ResultsClosed, UNCHANGED store, DownClosed(Done')
  PROVE  ResultsClosed'
BY DEF ResultsClosed

(* A call that returns, or a crash, makes no claim on waves and cycles.    *)
LEMMA IdleProgress ==
  ASSUME ResetControl, pc' = "idle", result' # "Running", LatestExists', ResultsClosed'
  PROVE  ProgressInv'
<1>1. CallIsRunning' /\ IdleIsReset'
  BY DEF CallIsRunning, IdleIsReset, ResetControl, Empty
<1>2. CycleIsPlaced' /\ CyclesHaveAllResults'
  BY DEF CycleIsPlaced, CyclesHaveAllResults, InCycles
<1>3. EarlierWavesHaveResults' /\ WaveIsAccountedFor'
  BY DEF EarlierWavesHaveResults, WaveIsAccountedFor, InWaves
<1> QED
  BY <1>1, <1>2, <1>3 DEF ProgressInv

(* A call that starts is at the first wave.                                *)
LEMMA EnterProgress ==
  ASSUME ProgressInv, pc = "idle", pc' = "wave", result' = "Running",
         UNCHANGED <<control, store>>, DownClosed(Done')
  PROVE  ProgressInv'
<1>1. wave' = 1 /\ task' = Empty /\ UNCHANGED store
  BY DEF ProgressInv, IdleIsReset, control
<1>2. CallIsRunning' /\ IdleIsReset' /\ CycleIsPlaced'
  BY <1>1 DEF CallIsRunning, IdleIsReset, Empty, CycleIsPlaced
<1>3. \A w \in DOMAIN Waves : ~(w < 1)
  BY WavesAssumption
<1>4. EarlierWavesHaveResults' /\ WaveIsAccountedFor' /\ CyclesHaveAllResults'
  BY <1>1, <1>3 DEF EarlierWavesHaveResults, WaveIsAccountedFor, CyclesHaveAllResults, InCycles
<1>5. ResultsClosed' /\ LatestExists'
  BY <1>1, UnsavedIsClosed DEF ProgressInv, LatestExists, IsLatest
<1> QED
  BY <1>2, <1>4, <1>5 DEF ProgressInv

LEMMA ProgressInit == Init => ProgressInv
<1> SUFFICES ASSUME Init PROVE ProgressInv
  OBVIOUS
<1>1. pc = "idle" /\ result = "None" /\ wave = 1 /\ task = Empty /\ store = <<>>
  BY DEF Init
<1>2. Done = {}
  BY DEF Init, Done, HasResult, Empty
<1>3. ResultsClosed
  BY <1>1, <1>2 DEF ResultsClosed, DownClosed
<1> QED
  BY <1>1, <1>3 DEF ProgressInv, CallIsRunning, IdleIsReset, CycleIsPlaced,
     EarlierWavesHaveResults, WaveIsAccountedFor, CyclesHaveAllResults, LatestExists,
     InWaves, InCycles

(* The steps of a wave.                                                    *)
LEMMA WaveProgress ==
  ASSUME TypeInv, TypeInv', ProgressInv,
         \/ BeginWave
         \/ \E n \in Node : TaskSettles(n) \/ TaskInterrupts(n)
         \/ CatchInterrupt \/ CommitWave \/ SaveWave \/ EnterCycles
  PROVE  ProgressInv'
<1>. USE DEF ProgressInv
<1>a. /\ \A w \in DOMAIN Waves : w \in Nat \ {0} /\ WaveNodes(w) \subseteq Node
      /\ \A w \in Nat \ {0} : w <= Len(Waves) => w \in DOMAIN Waves
      /\ wave \in Nat \ {0} /\ Len(Waves) \in Nat
  <2>1. Waves \in Seq(Seq(Node)) /\ wave \in Nat \ {0}
    BY WavesAssumption DEF TypeInv, TypeOK
  <2>2. \A w \in DOMAIN Waves : WaveNodes(w) \subseteq Node
    <3>1. \A w \in DOMAIN Waves : Waves[w] \in Seq(Node)
      BY <2>1
    <3> QED
      BY <3>1 DEF WaveNodes
  <2> QED
    BY <2>1, <2>2
<1>b. /\ results \in [Node -> NodeResult] /\ results' \in [Node -> NodeResult]
      /\ task \in [Node -> Task] /\ task' \in [Node -> Task]
  BY DEF TypeInv, TypeOK
<1>c. CycleIsPlaced' /\ LatestExists'
  BY DEF TypeInv
<1>1. CASE BeginWave
  <2> DEFINE toRun == {n \in PendingWaveNodes : ~ShouldSkip(n)}
             toSkip == PendingWaveNodes \ toRun
  <2>1. /\ pc = "wave" /\ wave <= Len(Waves)
        /\ results' = [n \in Node |-> IF n \in toSkip THEN Skipped ELSE results[n]]
        /\ task' = [n \in Node |-> IF n \in toRun THEN Running ELSE NoResult]
        /\ IF toRun = {} THEN pc' = "wave" /\ wave' = wave + 1
                         ELSE pc' = "tasks" /\ wave' = wave
        /\ UNCHANGED <<result, store>>
    BY <1>1 DEF BeginWave
  <2>2. wave \in DOMAIN Waves
    BY <2>1, <1>a
  <2>3. /\ PendingWaveNodes \subseteq WaveNodes(wave)
        /\ \A n \in WaveNodes(wave) : n \in PendingWaveNodes \/ HasResult(n)
    BY DEF PendingWaveNodes
  <2>4. toRun \cup toSkip = PendingWaveNodes /\ WaveNodes(wave) \subseteq Node
    BY <2>2, <1>a
  <2> HIDE DEF toRun, toSkip
  <2>5. \A n \in Node : HasResult(n)' <=> HasResult(n) \/ n \in toSkip
    BY <2>1, <1>b DEF HasResult, Skipped, NoResult
  <2>6. \A n \in Node : task'[n] # NoResult <=> n \in toRun
    BY <2>1 DEF Running, NoResult
  <2>7. \A n \in WaveNodes(wave) : HasResult(n)' \/ n \in toRun
    BY <2>3, <2>4, <2>5
  <2>8. DownClosed(Done')
    <3>1. Done' = Done \cup toSkip
      BY <2>3, <2>4, <2>5 DEF Done
    <3>2. DownClosed(Done \cup toSkip)
      BY <2>1, <2>2, <2>3, <2>4, BatchIsClosed DEF ResultsClosed, InWaves
    <3> QED
      BY <3>1, <3>2
  <2>9. \A w \in DOMAIN Waves : w < wave => \A n \in WaveNodes(w) : HasResult(n)'
    BY <2>1, <2>5, <1>a DEF EarlierWavesHaveResults, InWaves
  <2>10. CASE toRun = {}
    <3>1. pc' = "wave" /\ wave' = wave + 1
      BY <2>1, <2>10
    <3>2. task' = Empty
      BY <2>1, <2>10 DEF Empty
    <3>3. EarlierWavesHaveResults'
      <4> SUFFICES ASSUME NEW w \in DOMAIN Waves, w < wave + 1, NEW n \in WaveNodes(w)
                   PROVE  HasResult(n)'
        BY <3>1 DEF EarlierWavesHaveResults
      <4>1. w < wave \/ w = wave
        BY <1>a
      <4> QED
        BY <4>1, <2>7, <2>9, <2>10
    <3> QED
      BY <3>1, <3>2, <3>3, <2>1, <2>8, <1>c, UnsavedIsClosed DEF CallIsRunning, IdleIsReset,
         WaveIsAccountedFor, CyclesHaveAllResults, InCycles
  <2>11. CASE toRun # {}
    <3>1. pc' = "tasks" /\ wave' = wave
      BY <2>1, <2>11
    <3>2. EarlierWavesHaveResults'
      BY <3>1, <2>9 DEF EarlierWavesHaveResults
    <3>3. WaveIsAccountedFor'
      BY <3>1, <2>2, <2>3, <2>4, <2>6, <2>7 DEF WaveIsAccountedFor
    <3> QED
      BY <3>1, <3>2, <3>3, <2>1, <2>8, <1>c, UnsavedIsClosed DEF CallIsRunning, IdleIsReset,
         CyclesHaveAllResults, InCycles
  <2> QED
    BY <2>10, <2>11
<1>2. ASSUME NEW n \in Node, TaskSettles(n) \/ TaskInterrupts(n)
      PROVE  ProgressInv'
  <2>1. /\ pc = "tasks" /\ pc' = "tasks" /\ task[n] = Running
        /\ UNCHANGED <<result, results, wave, store>>
    BY <1>2 DEF TaskSettles, TaskInterrupts
  <2>2. \E r : task' = [task EXCEPT ![n] = r] /\ r # NoResult
    BY <1>2 DEF TaskSettles, TaskInterrupts, Failed, Complete, Interrupted, NoResult
  <2>3. \A m \in Node : task'[m] # NoResult <=> task[m] # NoResult
    BY <2>1, <2>2, <1>b DEF Running, NoResult
  <2>4. Done' = Done
    BY <2>1 DEF Done, HasResult
  <2>5. WaveIsAccountedFor'
    BY <2>1, <2>3 DEF WaveIsAccountedFor, HasResult, InWaves
  <2> QED
    BY <2>1, <2>4, <2>5, <1>c, UnsavedIsClosed DEF CallIsRunning, IdleIsReset,
       EarlierWavesHaveResults, CyclesHaveAllResults, ResultsClosed, HasResult, InWaves, InCycles
<1>3. CASE CatchInterrupt
  <2>1. /\ pc = "tasks" /\ pc' = "interruptWave" /\ task' = Empty
        /\ UNCHANGED <<result, results, wave, store>>
    BY <1>3 DEF CatchInterrupt
  <2>2. Done' = Done
    BY <2>1 DEF Done, HasResult
  <2> QED
    BY <2>1, <2>2, <1>c, UnsavedIsClosed DEF CallIsRunning, IdleIsReset, WaveIsAccountedFor,
       EarlierWavesHaveResults, CyclesHaveAllResults, ResultsClosed, HasResult, InWaves, InCycles
<1>4. CASE CommitWave
  <2>1. /\ pc = "tasks" /\ pc' = "saveWave" /\ task' = Empty
        /\ results' = [n \in Node |-> IF task[n] = NoResult THEN results[n] ELSE task[n]]
        /\ UNCHANGED <<result, wave, store>>
    BY <1>4 DEF CommitWave
  <2> DEFINE S == {n \in Node : task[n] # NoResult}
  <2>2. \A n \in Node : HasResult(n)' <=> HasResult(n) \/ n \in S
    BY <2>1 DEF HasResult
  <2>3. S \subseteq WaveNodes(wave) /\ wave \in DOMAIN Waves
    BY <2>1 DEF WaveIsAccountedFor, InWaves
  <2>4. \A n \in WaveNodes(wave) : HasResult(n)'
    BY <2>1, <2>2, <2>3, <1>a DEF WaveIsAccountedFor
  <2>5. DownClosed(Done')
    <3>1. Done' = Done \cup S
      BY <2>2 DEF Done
    <3>2. DownClosed(Done \cup S)
      BY <2>1, <2>3, BatchIsClosed DEF ResultsClosed, InWaves
    <3> QED
      BY <3>1, <3>2
  <2>6. EarlierWavesHaveResults'
    BY <2>1, <2>2, <1>a DEF EarlierWavesHaveResults, InWaves
  <2>7. WaveIsAccountedFor'
    BY <2>1, <2>3, <2>4 DEF WaveIsAccountedFor
  <2> QED
    BY <2>1, <2>5, <2>6, <2>7, <1>c, UnsavedIsClosed DEF CallIsRunning, IdleIsReset, Empty,
       CyclesHaveAllResults, InCycles
<1>5. CASE SaveWave
  <2>1. /\ pc = "saveWave" /\ pc' = "wave" /\ wave' = wave + 1
        /\ UNCHANGED <<result, results, task>>
        /\ Save("loop", wave - 1, 0)
    BY <1>5 DEF SaveWave
  <2>2. ResultsClosed'
    BY <2>1, <1>a, SavedIsClosed
  <2>3. EarlierWavesHaveResults'
    <3> SUFFICES ASSUME NEW w \in DOMAIN Waves, w < wave + 1, NEW n \in WaveNodes(w)
                 PROVE  HasResult(n)
      BY <2>1 DEF EarlierWavesHaveResults, HasResult
    <3>1. w < wave \/ w = wave
      BY <1>a
    <3> QED
      BY <3>1, <2>1 DEF EarlierWavesHaveResults, WaveIsAccountedFor, InWaves
  <2> QED
    BY <2>1, <2>2, <2>3, <1>c DEF CallIsRunning, IdleIsReset, Empty, WaveIsAccountedFor,
       CyclesHaveAllResults, InCycles
<1>6. CASE EnterCycles
  <2>1. /\ pc = "wave" /\ pc' = "edge" /\ wave > Len(Waves)
        /\ UNCHANGED <<result, results, task, wave, store>>
    BY <1>6 DEF EnterCycles, control
  <2>2. \A n \in Node : HasResult(n)
    <3>1. \A w \in DOMAIN Waves : w < wave
      BY <2>1, <1>a, WavesAssumption
    <3> QED
      BY <3>1, <2>1, WavesAssumption DEF EarlierWavesHaveResults, InWaves
  <2>3. Done' = Done
    BY <2>1 DEF Done, HasResult
  <2> QED
    BY <2>1, <2>2, <2>3, <1>c, UnsavedIsClosed DEF CallIsRunning, IdleIsReset, Empty,
       WaveIsAccountedFor, EarlierWavesHaveResults, CyclesHaveAllResults, ResultsClosed,
       HasResult, InWaves
<1> QED
  BY <1>1, <1>2, <1>3, <1>4, <1>5, <1>6

(* The steps of a cycle that go on: every node keeps a result.             *)
LEMMA CycleProgress ==
  ASSUME TypeInv, TypeInv', ProgressInv,
         BeginIteration \/ NextEdge \/ CycleNodeCompletes \/ CycleNodeInterrupts \/ SaveCycle
  PROVE  ProgressInv'
<1>. USE DEF ProgressInv
<1>1. InCycles /\ InCycles' /\ pc # "idle" /\ pc # "tasks"
  BY DEF BeginIteration, NextEdge, CycleNodeCompletes, CycleNodeInterrupts, SaveCycle, InCycles
<1>2. /\ pc' # "idle" /\ pc' # "tasks"
      /\ UNCHANGED <<result, task>>
  BY DEF BeginIteration, NextEdge, CycleNodeCompletes, CycleNodeInterrupts, SaveCycle
<1>3. \A n \in Node : HasResult(n)'
  <2>1. CASE CycleNodeCompletes
    <3>1. PICK o : results' = [results EXCEPT ![CycleNode] = Complete(o)]
      BY <2>1 DEF CycleNodeCompletes
    <3>2. Complete(o) # NoResult
      BY DEF Complete, NoResult
    <3>3. results \in [Node -> NodeResult]
      BY DEF TypeInv, TypeOK
    <3> QED
      BY <3>1, <3>2, <3>3, <1>1 DEF HasResult, CyclesHaveAllResults
  <2>2. CASE UNCHANGED results
    BY <2>2, <1>1 DEF HasResult, CyclesHaveAllResults
  <2> QED
    BY <2>1, <2>2 DEF BeginIteration, NextEdge, CycleNodeInterrupts, SaveCycle
<1>4. ResultsClosed'
  <2>1. CASE SaveCycle
    BY <2>1, SavedIsClosed DEF SaveCycle, TypeInv, TypeOK
  <2>2. CASE UNCHANGED store
    <3>1. Done' = Node
      BY <1>3 DEF Done
    <3>2. \A e \in Edge : e.from \in Node
      BY WavesAssumption
    <3>3. DownClosed(Node)
      BY <3>2 DEF DownClosed
    <3> QED
      BY <2>2, <3>1, <3>3, UnsavedIsClosed
  <2> QED
    BY <2>1, <2>2 DEF BeginIteration, NextEdge, CycleNodeCompletes, CycleNodeInterrupts
<1>5. EarlierWavesHaveResults' /\ WaveIsAccountedFor'
  BY <1>1 DEF EarlierWavesHaveResults, WaveIsAccountedFor, InWaves, InCycles
<1>6. CycleIsPlaced' /\ LatestExists'
  BY DEF TypeInv
<1>7. CallIsRunning' /\ IdleIsReset' /\ CyclesHaveAllResults'
  BY <1>1, <1>2, <1>3 DEF CallIsRunning, IdleIsReset, Empty, CyclesHaveAllResults
<1> QED
  BY <1>4, <1>5, <1>6, <1>7

(* The steps that end a call.                                              *)
LEMMA EndProgress ==
  ASSUME TypeInv, TypeInv', ProgressInv,
         \/ FailWave \/ SaveInterruptedWave \/ SaveWaveFails \/ SaveInterruptedWaveFails
         \/ CycleNodeFails \/ SaveInterruptedCycle \/ SaveCycleFails \/ SaveThenFail
         \/ Finish \/ Crash
  PROVE  ProgressInv'
<1>1. pc' = "idle" /\ result' # "Running" /\ ResetControl
  BY DEF FailWave, SaveInterruptedWave, SaveWaveFails, SaveInterruptedWaveFails,
     CycleNodeFails, SaveInterruptedCycle, SaveCycleFails, SaveThenFail, Finish, Crash, Return
<1>2. LatestExists'
  BY DEF TypeInv
<1>3. ResultsClosed'
  <2>1. CASE SaveInterruptedWave
    <3>1. UNCHANGED results /\ Save("interrupt", wave - 1, 0) /\ wave - 1 \in Nat
      BY <2>1 DEF SaveInterruptedWave, TypeInv, TypeOK
    <3> QED
      BY <3>1, SavedIsClosed DEF ProgressInv
  <2>2. CASE SaveInterruptedCycle
    <3>1. UNCHANGED results /\ Save("interrupt", iteration, edge) /\ iteration \in Nat /\ edge \in Nat
      BY <2>2 DEF SaveInterruptedCycle, TypeInv, TypeOK
    <3> QED
      BY <3>1, SavedIsClosed DEF ProgressInv
  <2>3. CASE SaveWaveFails \/ SaveInterruptedWaveFails \/ SaveCycleFails \/ Finish
    <3>1. UNCHANGED <<results, store>>
      BY <2>3 DEF SaveWaveFails, SaveInterruptedWaveFails, SaveCycleFails, Finish, Reject
    <3>2. Done' = Done
      BY <3>1 DEF Done, HasResult
    <3> QED
      BY <3>1, <3>2, UnsavedIsClosed DEF ProgressInv, ResultsClosed
  <2>4. CASE FailWave
    <3>1. /\ pc = "tasks" /\ UNCHANGED store
          /\ \E S \in SUBSET {n \in Node : task[n] # NoResult} : Done' = Done \cup S
      <4>1. PICK i \in DOMAIN Waves[wave] :
              results' = [n \in Node |->
                IF task[n] # NoResult /\ \E j \in DOMAIN Waves[wave] : j <= i /\ Waves[wave][j] = n
                THEN task[n] ELSE results[n]]
        BY <2>4 DEF FailWave
      <4> DEFINE S == {n \in Node : task[n] # NoResult /\
                        \E j \in DOMAIN Waves[wave] : j <= i /\ Waves[wave][j] = n}
      <4>2. Done' = Done \cup S
        BY <4>1 DEF Done, HasResult
      <4> HIDE DEF S
      <4>3. S \in SUBSET {n \in Node : task[n] # NoResult}
        BY DEF S
      <4> QED
        BY <2>4, <4>2, <4>3 DEF FailWave
    <3>2. {n \in Node : task[n] # NoResult} \subseteq WaveNodes(wave) /\ wave \in DOMAIN Waves
      BY <3>1 DEF ProgressInv, WaveIsAccountedFor, InWaves
    <3> QED
      BY <3>1, <3>2, BatchIsClosed, UnsavedIsClosed DEF ProgressInv, ResultsClosed, InWaves
  <2>5. CASE CycleNodeFails
    <3>1. pc = "cycleNode" /\ results' = [results EXCEPT ![CycleNode] = Failed] /\ UNCHANGED store
      BY <2>5 DEF CycleNodeFails
    <3>2. Done = Node
      BY <3>1 DEF ProgressInv, CyclesHaveAllResults, InCycles, Done
    <3>3. Done' = Done
      BY <3>1, <3>2 DEF Done, HasResult, Failed, NoResult, TypeInv, TypeOK
    <3> QED
      BY <3>1, <3>3, UnsavedIsClosed DEF ProgressInv, ResultsClosed
  <2>6. CASE Crash
    <3>1. Done' = {} /\ UNCHANGED store
      BY <2>6 DEF Crash, Done, HasResult, Empty
    <3> QED
      BY <3>1, UnsavedIsClosed DEF ProgressInv, DownClosed
  <2>7. CASE SaveThenFail
    <3>1. /\ UNCHANGED results /\ wave - 1 \in Nat /\ iteration \in Nat /\ edge \in Nat
          /\ \/ Save("loop", wave - 1, 0)
             \/ \E source \in {"loop", "interrupt"} : Save(source, iteration, edge)
      BY <2>7 DEF SaveThenFail, TypeInv, TypeOK
    <3> QED
      BY <3>1, SavedIsClosed DEF ProgressInv
  <2> QED
    BY <2>1, <2>2, <2>3, <2>4, <2>5, <2>6, <2>7
<1> QED
  BY <1>1, <1>2, <1>3, IdleProgress

(* The steps that start a call, or refuse to.                              *)
LEMMA StartProgress ==
  ASSUME TypeInv, TypeInv', ProgressInv, Execute \/ ResumeAny
  PROVE  ProgressInv'
<1>1. CASE Execute
  <2>1. /\ pc = "idle" /\ pc' = "wave" /\ result' = "Running"
        /\ UNCHANGED <<control, store>> /\ results' = Empty
    BY <1>1 DEF Execute, NewCall, Enter
  <2>2. Done' = {}
    BY <2>1 DEF Done, HasResult, Empty
  <2>3. DownClosed(Done')
    BY <2>2 DEF DownClosed
  <2> QED
    BY <2>1, <2>3, EnterProgress
<1>2. CASE ResumeAny
  <2>1. PICK i \in DOMAIN store : Resume(i) \/ ResumeFails(i)
    BY <1>2 DEF ResumeAny
  <2>2. store[i] \in Checkpoint /\ DownClosed(Recorded(store[i]))
    BY DEF TypeInv, TypeOK, ProgressInv, ResultsClosed
  <2>3. results' = RestoreNodeResults(store[i]) /\ pc = "idle" /\ UNCHANGED store
    BY <2>1 DEF Resume, ResumeFails, NewCall, Enter
  <2>4. DownClosed(Done')
    BY <2>2, <2>3, RestoredIsClosed DEF Done, HasResult
  <2>5. CASE Resume(i)
    <3>1. pc' = "wave" /\ result' = "Running" /\ UNCHANGED control
      BY <2>5 DEF Resume, Enter
    <3> QED
      BY <2>3, <2>4, <3>1, EnterProgress
  <2>6. CASE ResumeFails(i)
    <3>1. pc' = "idle" /\ result' # "Running" /\ ResetControl
      BY <2>6 DEF ResumeFails, Return
    <3>2. LatestExists' /\ ResultsClosed'
      BY <2>3, <2>4, UnsavedIsClosed DEF TypeInv, ProgressInv
    <3> QED
      BY <3>1, <3>2, IdleProgress
  <2> QED
    BY <2>1, <2>5, <2>6
<1> QED
  BY <1>1, <1>2

IInv == TypeInv /\ ProgressInv

LEMMA Inductive == IInv /\ [Next]_vars => IInv'
<1> SUFFICES ASSUME IInv, [Next]_vars PROVE IInv'
  OBVIOUS
<1>1. TypeInv /\ ProgressInv /\ TypeInv'
  BY TypeNext DEF IInv
<1>2. CASE UNCHANGED vars
  BY <1>1, <1>2 DEF IInv, vars, control, ProgressInv, CallIsRunning, IdleIsReset, CycleIsPlaced,
     CurrentEdge, EarlierWavesHaveResults, WaveIsAccountedFor, CyclesHaveAllResults, ResultsClosed,
     LatestExists, IsLatest, InWaves, InCycles, HasResult, Done
<1>3. CASE Next
  BY <1>1, <1>3, WaveProgress, CycleProgress, EndProgress, StartProgress
     DEF IInv, Next, WaveStep, CycleStep
<1> QED
  BY <1>2, <1>3

(* Wherever a call stands, every node of the waves before it has a result, *)
(* and so has every node once the cycles have begun; results and           *)
(* checkpoints are closed under dependencies in every history of calls,    *)
(* interrupts, failed saves and crashes.                                   *)
THEOREM Progress == Spec => []ProgressInv
<1>1. Init => IInv
  BY TypeInit, ProgressInit DEF IInv
<1>2. IInv => ProgressInv
  BY DEF IInv
<1> QED
  BY <1>1, <1>2, Inductive, PTL DEF Spec

-----------------------------------------------------------------------------
(* The graph executor implements GraphRun.                                 *)

Durable == {Recorded(store[i]) : i \in DOMAIN store}

(* Initially there is nothing.                                             *)
LEMMA RunInit == Init => Run!Init
BY DEF Init, Run!Init, Done, HasResult, Empty

(* A save adds the nodes that have a result to the durable sets.           *)
LEMMA SavedIsDurable ==
  ASSUME TypeInv, NEW source \in {"loop", "interrupt"}, NEW step \in Nat,
         NEW cycle \in Nat, Save(source, step, cycle)
  PROVE  Durable' = Durable \cup {Done}
<1>1. PICK cp \in Checkpoint : store' = Append(store, cp) /\ Recorded(cp) = Done
  BY SavedCheckpoint
<1>2. store \in Seq(Checkpoint)
  BY DEF TypeInv, TypeOK
<1>3. /\ DOMAIN store' = DOMAIN store \cup {Len(store) + 1}
      /\ \A i \in DOMAIN store : store'[i] = store[i]
      /\ store'[Len(store) + 1] = cp
  BY <1>1, <1>2, AppendProperties
<1>4. Durable' = {Recorded(store'[i]) : i \in DOMAIN store'}
  BY DEF Durable, Recorded
<1>5. ASSUME NEW D \in Durable' PROVE D \in Durable \cup {Done}
  BY <1>1, <1>3, <1>4 DEF Durable
<1>6. ASSUME NEW D \in Durable \cup {Done} PROVE D \in Durable'
  BY <1>1, <1>3, <1>4 DEF Durable
<1> QED
  BY <1>5, <1>6

(* Results that appear for nodes of the current wave are a batch that      *)
(* GraphRun can commit.                                                    *)
LEMMA BatchCommits ==
  ASSUME ProgressInv, InWaves, wave \in DOMAIN Waves, UNCHANGED store,
         NEW S \in SUBSET WaveNodes(wave), S \subseteq Node, Done' = Done \cup S,
         result' \in {"Running", "Failed"}
  PROVE  Run!Commit
<1>1. result = "Running"
  BY DEF ProgressInv, CallIsRunning, InWaves
<1>2. S \ Done \in SUBSET (Node \ Done) /\ Done' = Done \cup (S \ Done)
  OBVIOUS
<1>3. ASSUME NEW n \in S \ Done, NEW m \in Dependencies(n)
      PROVE  m \in Done
  <2>1. PICK e \in Edge : e.to = n /\ e.from = m
    BY <1>3 DEF Dependencies
  <2> QED
    BY <2>1, DependenciesHaveResults DEF ProgressInv
<1>4. \A n \in S \ Done : [m \in Node |-> Dependencies(m)][n] \subseteq Done
  BY <1>3
<1> QED
  BY <1>1, <1>2, <1>4 DEF Run!Commit

LEMMA StoreIsDurable == UNCHANGED store => UNCHANGED Durable
BY DEF Durable, Recorded

(* Every step is a step of GraphRun or leaves its variables unchanged.     *)
LEMMA RunNext == IInv /\ IInv' /\ [Next]_vars => [Run!Next]_Run!vars
<1> SUFFICES ASSUME IInv, IInv', [Next]_vars PROVE [Run!Next]_Run!vars
  OBVIOUS
<1> USE DEF IInv
<1>a. pc # "idle" <=> result = "Running"
  BY DEF ProgressInv, CallIsRunning
<1>b. /\ results \in [Node -> NodeResult] /\ wave - 1 \in Nat /\ wave \in Nat \ {0}
      /\ iteration \in Nat /\ edge \in Nat
  BY DEF TypeInv, TypeOK
<1>c. InCycles => Done = Node
  BY DEF ProgressInv, CyclesHaveAllResults, Done
<1>d. UNCHANGED results => UNCHANGED Done
  BY DEF Done, HasResult
<1>e. /\ UNCHANGED <<results, result, store>> => UNCHANGED Run!vars
  BY <1>d, StoreIsDurable DEF Run!vars, Durable
<1>1. CASE Execute
  <2>1. Done' = {} /\ UNCHANGED store /\ pc = "idle" /\ result' = "Running"
    BY <1>1 DEF Execute, NewCall, Enter, Done, HasResult, Empty
  <2>2. Run!Begin
    BY <2>1, <1>a, StoreIsDurable DEF Run!Begin, Durable
  <2> QED
    BY <2>2 DEF Run!Next
<1>2. CASE ResumeAny
  <2>1. PICK i \in DOMAIN store : Resume(i) \/ ResumeFails(i)
    BY <1>2 DEF ResumeAny
  <2>2. results' = RestoreNodeResults(store[i]) /\ pc = "idle" /\ UNCHANGED store
    BY <2>1 DEF Resume, ResumeFails, NewCall, Enter
  <2>3. store[i] \in Checkpoint /\ Recorded(store[i]) \in Durable /\ DownClosed(Recorded(store[i]))
    BY DEF TypeInv, TypeOK, Durable, ProgressInv, ResultsClosed
  <2>4. Done' = {n \in Node : RestoreNodeResults(store[i])[n] # NoResult}
    BY <2>2 DEF Done, HasResult
  <2>5. CASE Resume(i)
    <3>1. Done' = Recorded(store[i])
      BY <2>3, <2>4, <2>5, RestoredResults DEF Resume, Recorded
    <3>2. Run!Begin
      BY <2>2, <2>3, <2>5, <3>1, <1>a, StoreIsDurable DEF Resume, Enter, Run!Begin, Durable
    <3> QED
      BY <3>2 DEF Run!Next
  <2>6. CASE ResumeFails(i)
    <3>1. Done' \subseteq Recorded(store[i]) /\ DownClosed(Done')
      BY <2>3, <2>4, RestoredIsClosed
    <3>2. Run!DownClosed(Done')
      BY <3>1 DEF Run!DownClosed, DownClosed, Dependencies, Done
    <3>3. Run!Refuse
      BY <2>2, <2>3, <2>6, <3>1, <3>2, <1>a, StoreIsDurable
         DEF ResumeFails, Return, Run!Refuse, Durable
    <3> QED
      BY <3>3 DEF Run!Next
  <2> QED
    BY <2>1, <2>5, <2>6
<1>3. CASE BeginWave
  <2> DEFINE S == {n \in PendingWaveNodes : ShouldSkip(n)}
  <2>1. /\ pc = "wave" /\ wave \in DOMAIN Waves
        /\ results' = [n \in Node |-> IF n \in S THEN Skipped ELSE results[n]]
        /\ UNCHANGED <<result, store>>
    <3>1. \A n : n \in S <=> n \in PendingWaveNodes \ {m \in PendingWaveNodes : ~ShouldSkip(m)}
      OBVIOUS
    <3>2. wave \in DOMAIN Waves
      BY <1>3, <1>b, WavesAssumption DEF BeginWave
    <3> QED
      BY <1>3, <3>1, <3>2 DEF BeginWave
  <2>2. S \in SUBSET WaveNodes(wave) /\ S \subseteq Node
    BY <2>1, WavesAssumption DEF PendingWaveNodes, WaveNodes
  <2> HIDE DEF S
  <2>3. Done' = Done \cup S
    BY <2>1, <2>2 DEF Done, HasResult, Skipped, NoResult
  <2>4. Run!Commit
    BY <2>1, <2>2, <2>3, <1>a, BatchCommits DEF InWaves
  <2> QED
    BY <2>4 DEF Run!Next
<1>4. ASSUME NEW n \in Node, TaskSettles(n) \/ TaskInterrupts(n)
      PROVE  UNCHANGED Run!vars
  BY <1>4, <1>e DEF TaskSettles, TaskInterrupts
<1>5. CASE CatchInterrupt \/ EnterCycles \/ BeginIteration \/ NextEdge \/ CycleNodeInterrupts
  BY <1>5, <1>e DEF CatchInterrupt, EnterCycles, BeginIteration, NextEdge, CycleNodeInterrupts
<1>6. CASE CommitWave \/ FailWave
  <2>1. /\ pc = "tasks" /\ UNCHANGED store
        /\ result' \in {"Running", "Failed"}
    BY <1>6, <1>a DEF CommitWave, FailWave, Return
  <2>2. \E S \in SUBSET {n \in Node : task[n] # NoResult} : Done' = Done \cup S
    <3>1. CASE CommitWave
      <4>1. \A n \in Node : results'[n] = IF task[n] = NoResult THEN results[n] ELSE task[n]
        BY <3>1 DEF CommitWave
      <4>2. Done' = Done \cup {n \in Node : task[n] # NoResult}
        BY <4>1 DEF Done, HasResult
      <4> QED
        BY <4>2
    <3>2. CASE FailWave
      <4>1. PICK i \in DOMAIN Waves[wave] :
              results' = [n \in Node |->
                IF task[n] # NoResult /\ \E j \in DOMAIN Waves[wave] : j <= i /\ Waves[wave][j] = n
                THEN task[n] ELSE results[n]]
        BY <3>2 DEF FailWave
      <4> DEFINE S == {n \in Node : task[n] # NoResult /\
                        \E j \in DOMAIN Waves[wave] : j <= i /\ Waves[wave][j] = n}
      <4>2. Done' = Done \cup S
        BY <4>1 DEF Done, HasResult
      <4> QED
        BY <4>2
    <3> QED
      BY <1>6, <3>1, <3>2
  <2>3. {n \in Node : task[n] # NoResult} \subseteq WaveNodes(wave) /\ wave \in DOMAIN Waves
    BY <2>1 DEF ProgressInv, WaveIsAccountedFor, InWaves
  <2>4. Run!Commit
    BY <2>1, <2>2, <2>3, BatchCommits DEF InWaves
  <2> QED
    BY <2>4 DEF Run!Next
<1>7. CASE SaveWave \/ SaveInterruptedWave \/ SaveCycle \/ SaveInterruptedCycle \/ SaveThenFail
  <2>1. /\ pc # "idle" /\ UNCHANGED results
        /\ result' \in {"Running", "Interrupted", "Failed"}
    BY <1>7, <1>a DEF SaveWave, SaveInterruptedWave, SaveCycle, SaveInterruptedCycle,
       SaveThenFail, Return
  <2>2. Durable' = Durable \cup {Done}
    BY <1>7, <1>b, SavedIsDurable DEF SaveWave, SaveInterruptedWave, SaveCycle,
       SaveInterruptedCycle, SaveThenFail
  <2>3. Run!Persist
    BY <2>1, <2>2, <1>a, <1>d DEF Run!Persist, Durable
  <2> QED
    BY <2>3 DEF Run!Next
<1>8. CASE SaveWaveFails \/ SaveInterruptedWaveFails \/ SaveCycleFails
  <2>1. pc # "idle" /\ UNCHANGED <<results, store>> /\ result' \in {"Failed", "Interrupted"}
    BY <1>8 DEF SaveWaveFails, SaveInterruptedWaveFails, SaveCycleFails, Reject, Return
  <2>2. Run!End
    BY <2>1, <1>a, <1>d, StoreIsDurable DEF Run!End, Durable
  <2> QED
    BY <2>2 DEF Run!Next
<1>9. CASE Finish
  <2>1. InCycles /\ pc # "idle" /\ UNCHANGED <<results, store>> /\ result' = "Complete"
    BY <1>9 DEF Finish, Return, InCycles
  <2>2. Run!End
    BY <2>1, <1>a, <1>c, <1>d, StoreIsDurable DEF Run!End, Durable
  <2> QED
    BY <2>2 DEF Run!Next
<1>10. CASE CycleNodeCompletes
  <2>1. PICK o : results' = [results EXCEPT ![CycleNode] = Complete(o)]
    BY <1>10 DEF CycleNodeCompletes
  <2>2. Done' = Done
    <3>1. Complete(o) # NoResult
      BY DEF Complete, NoResult
    <3>2. Done = Node
      BY <1>10, <1>c DEF CycleNodeCompletes, InCycles
    <3> QED
      BY <2>1, <3>1, <3>2, <1>b DEF Done, HasResult
  <2> QED
    BY <1>10, <2>2, StoreIsDurable DEF CycleNodeCompletes, Run!vars, Durable
<1>11. CASE CycleNodeFails
  <2>1. /\ pc # "idle" /\ UNCHANGED store /\ result' = "Failed"
        /\ results' = [results EXCEPT ![CycleNode] = Failed]
    BY <1>11 DEF CycleNodeFails, Return
  <2>2. Done' = Done
    <3>1. Failed # NoResult
      BY DEF Failed, NoResult
    <3>2. Done = Node
      BY <1>11, <1>c DEF CycleNodeFails, InCycles
    <3> QED
      BY <2>1, <3>1, <3>2, <1>b DEF Done, HasResult
  <2>3. Run!End
    BY <2>1, <2>2, <1>a, StoreIsDurable DEF Run!End, Durable
  <2> QED
    BY <2>3 DEF Run!Next
<1>12. CASE Crash
  <2>1. Done' = {} /\ UNCHANGED store /\ pc # "idle" /\ result' = "Crashed"
    BY <1>12 DEF Crash, Done, HasResult, Empty
  <2>2. Run!Crash
    BY <2>1, <1>a, StoreIsDurable DEF Run!Crash, Durable
  <2> QED
    BY <2>2 DEF Run!Next
<1>13. CASE UNCHANGED vars
  BY <1>13, <1>e DEF vars
<1> QED
  BY <1>1, <1>2, <1>3, <1>4, <1>5, <1>6, <1>7, <1>8, <1>9, <1>10, <1>11, <1>12, <1>13
     DEF Next, WaveStep, CycleStep

(* The executor implements GraphRun: batches of results closed under       *)
(* dependencies, checkpoints that record exactly the results so far, calls *)
(* that resume from a recorded set, and Complete only with every result.   *)
THEOREM Implements == Spec => RunSpec
<1>1. Init => IInv
  BY TypeInit, ProgressInit DEF IInv
<1> QED
  BY <1>1, Inductive, RunInit, RunNext, PTL DEF Spec, RunSpec, Run!Spec

-----------------------------------------------------------------------------
(* Saves.                                                                  *)

\* The checkpoint that Save appends.
NewCheckpoint(source, step, cycle) ==
  [results |-> MapNodeResults(results), source |-> source, node |-> interrupter,
   step |-> step, version |-> NextVersion, cycle |-> cycle, traversed |-> traversed]

(* A save appends its checkpoint and keeps the others.                     *)
LEMMA Appended ==
  ASSUME TypeInv, NEW source, NEW step, NEW cycle, Save(source, step, cycle)
  PROVE  /\ Len(store') = Len(store) + 1 /\ Len(store) \in Nat
         /\ store' # <<>>
         /\ \A i : i \in DOMAIN store <=> i \in Nat /\ 1 <= i /\ i <= Len(store)
         /\ \A i : i \in DOMAIN store' <=> i \in DOMAIN store \/ i = Len(store) + 1
         /\ \A i \in DOMAIN store : store'[i] = store[i]
         /\ store'[Len(store) + 1] = NewCheckpoint(source, step, cycle)
<1> DEFINE cp == NewCheckpoint(source, step, cycle)
<1>1. store' = Append(store, cp)
  BY DEF Save, NewCheckpoint
<1>2. store \in Seq(Checkpoint) /\ Len(store) \in Nat
  BY DEF TypeInv, TypeOK
<1> HIDE DEF cp
<1>3. store \in Seq(Checkpoint \cup {cp})
  BY <1>2
<1>4. /\ DOMAIN store = 1..Len(store) /\ DOMAIN store' = 1..(Len(store) + 1)
      /\ Len(store') = Len(store) + 1
      /\ \A i \in 1..Len(store) : store'[i] = store[i]
      /\ store'[Len(store) + 1] = cp
  BY <1>1, <1>2, <1>3
<1> QED
  BY <1>2, <1>4 DEF cp

(* The steps of a call by where it is: what starts it, what goes on in the *)
(* waves, and what goes on in the cycles.                                  *)
LEMMA StartSteps ==
  ASSUME [Next]_vars, pc = "idle", pc' # "idle"
  PROVE  Execute \/ \E i \in DOMAIN store : (LatestOnly => i = Latest) /\ Resume(i)
BY DEF Next, vars, WaveStep, CycleStep, ResumeAny, ResumeFails, Return, BeginWave, TaskSettles,
   TaskInterrupts, CatchInterrupt, CommitWave, FailWave, SaveWave, SaveInterruptedWave,
   SaveWaveFails, SaveInterruptedWaveFails, EnterCycles, BeginIteration, NextEdge,
   CycleNodeCompletes, CycleNodeFails, CycleNodeInterrupts, SaveCycle, SaveInterruptedCycle,
   SaveCycleFails, SaveThenFail, Finish, Crash

LEMMA WaveSteps ==
  ASSUME [Next]_vars, InWaves, pc' # "idle"
  PROVE  \/ BeginWave
         \/ \E n \in Node : TaskSettles(n) \/ TaskInterrupts(n)
         \/ CatchInterrupt \/ CommitWave \/ SaveWave \/ EnterCycles
         \/ UNCHANGED vars
BY DEF InWaves, Next, WaveStep, CycleStep, Execute, ResumeAny, Resume, ResumeFails, NewCall,
   FailWave, SaveInterruptedWave, SaveWaveFails, SaveInterruptedWaveFails, BeginIteration,
   NextEdge, CycleNodeCompletes, CycleNodeFails, CycleNodeInterrupts, SaveCycle,
   SaveInterruptedCycle, SaveCycleFails, SaveThenFail, Finish, Crash, Return

LEMMA CycleSteps ==
  ASSUME [Next]_vars, InCycles, pc' # "idle"
  PROVE  /\ \/ BeginIteration \/ NextEdge \/ CycleNodeCompletes \/ CycleNodeInterrupts \/ SaveCycle
            \/ UNCHANGED vars
         /\ InCycles'
<1>1. \/ BeginIteration \/ NextEdge \/ CycleNodeCompletes \/ CycleNodeInterrupts \/ SaveCycle
      \/ UNCHANGED vars
  BY DEF InCycles, Next, WaveStep, CycleStep, Execute, ResumeAny, Resume, ResumeFails, NewCall,
     BeginWave, TaskSettles, TaskInterrupts, CatchInterrupt, CommitWave, FailWave, SaveWave,
     SaveInterruptedWave, SaveWaveFails, SaveInterruptedWaveFails, EnterCycles, CycleNodeFails,
     SaveInterruptedCycle, SaveCycleFails, SaveThenFail, Finish, Crash, Return
<1>2. InCycles'
  BY <1>1 DEF InCycles, BeginIteration, NextEdge, CycleNodeCompletes, CycleNodeInterrupts,
     SaveCycle, vars
<1> QED
  BY <1>1, <1>2

(* A call is in its waves, in its cycles, or there is none.                *)
LEMMA Places ==
  ASSUME TypeInv
  PROVE  /\ pc = "idle" \/ InWaves \/ InCycles
         /\ ~(InWaves /\ InCycles)
         /\ InWaves \/ InCycles => pc # "idle"
BY DEF TypeInv, TypeOK, InWaves, InCycles

SavePoint == {"saveWave", "interruptWave", "saveCycle", "interruptCycle"}

(* The store changes only by a save, at one of the points of a call that   *)
(* save, of the results as they are there; a save in the waves has the     *)
(* index of the wave as its step.                                          *)
LEMMA StoreSteps ==
  ASSUME TypeInv, [Next]_vars
  PROVE  \/ UNCHANGED store
         \/ /\ pc \in SavePoint /\ UNCHANGED results
            /\ \E source \in {"loop", "interrupt"}, step \in Nat, cycle \in Nat :
                 /\ Save(source, step, cycle)
                 /\ pc \in {"saveWave", "interruptWave"} => step = wave - 1
<1>1. wave - 1 \in Nat /\ iteration \in Nat /\ edge \in Nat
  BY DEF TypeInv, TypeOK
<1>2. CASE SaveWave
  BY <1>1, <1>2 DEF SaveWave, SavePoint
<1>3. CASE SaveInterruptedWave
  BY <1>1, <1>3 DEF SaveInterruptedWave, SavePoint
<1>4. CASE SaveCycle
  BY <1>1, <1>4 DEF SaveCycle, SavePoint
<1>5. CASE SaveInterruptedCycle
  BY <1>1, <1>5 DEF SaveInterruptedCycle, SavePoint
<1>6. CASE SaveThenFail
  <2>1. CASE pc = "saveWave"
    BY <1>1, <1>6, <2>1 DEF SaveThenFail, SavePoint
  <2>2. CASE pc # "saveWave"
    BY <1>1, <1>6, <2>2 DEF SaveThenFail, SavePoint
  <2> QED
    BY <2>1, <2>2
<1>7. CASE Execute \/ ResumeAny \/ BeginWave \/ CatchInterrupt \/ CommitWave \/ FailWave
  BY <1>7 DEF Execute, ResumeAny, Resume, ResumeFails, NewCall, BeginWave, CatchInterrupt,
     CommitWave, FailWave
<1>8. CASE \E n \in Node : TaskSettles(n) \/ TaskInterrupts(n)
  BY <1>8 DEF TaskSettles, TaskInterrupts
<1>9. CASE SaveWaveFails \/ SaveInterruptedWaveFails \/ SaveCycleFails
  BY <1>9 DEF SaveWaveFails, SaveInterruptedWaveFails, SaveCycleFails, Reject
<1>10. CASE EnterCycles \/ BeginIteration \/ NextEdge \/ CycleNodeCompletes \/ CycleNodeFails
            \/ CycleNodeInterrupts \/ Finish \/ Crash
  BY <1>10 DEF EnterCycles, BeginIteration, NextEdge, CycleNodeCompletes, CycleNodeFails,
     CycleNodeInterrupts, Finish, Crash
<1>11. CASE UNCHANGED vars
  BY <1>11 DEF vars
<1> QED
  BY <1>2, <1>3, <1>4, <1>5, <1>6, <1>7, <1>8, <1>9, <1>10, <1>11 DEF Next, WaveStep, CycleStep

(* The results a call that goes on can have after a step: it begins with   *)
(* none or with those of a checkpoint, skips nodes, records a wave or a    *)
(* node of a cycle, or keeps what it has.                                  *)
LEMMA ResultSteps ==
  ASSUME [Next]_vars, pc' # "idle"
  PROVE  \/ pc # "idle" /\ UNCHANGED results
         \/ results' = Empty
         \/ \E i \in DOMAIN store : Resume(i)
         \/ BeginWave \/ CommitWave
         \/ CycleNodeCompletes
<1>1. CASE Execute \/ ResumeAny
  BY <1>1 DEF Execute, ResumeAny, ResumeFails, Return, Enter, NewCall
<1>2. CASE CatchInterrupt \/ FailWave \/ SaveWave \/ SaveInterruptedWave \/ SaveWaveFails
           \/ SaveInterruptedWaveFails \/ EnterCycles
  BY <1>2 DEF CatchInterrupt, FailWave, SaveWave, SaveInterruptedWave, SaveWaveFails,
     SaveInterruptedWaveFails, EnterCycles, Return
<1>3. CASE \E n \in Node : TaskSettles(n) \/ TaskInterrupts(n)
  BY <1>3 DEF TaskSettles, TaskInterrupts
<1>4. CASE BeginIteration \/ NextEdge \/ CycleNodeFails \/ CycleNodeInterrupts \/ SaveCycle
           \/ SaveInterruptedCycle \/ SaveCycleFails \/ SaveThenFail \/ Finish \/ Crash
  BY <1>4 DEF BeginIteration, NextEdge, CycleNodeFails, CycleNodeInterrupts, SaveCycle,
     SaveInterruptedCycle, SaveCycleFails, SaveThenFail, Finish, Crash, Return
<1>5. CASE UNCHANGED vars
  BY <1>5 DEF vars
<1> QED
  BY <1>1, <1>2, <1>3, <1>4, <1>5 DEF Next, WaveStep, CycleStep

-----------------------------------------------------------------------------
(* Failures.                                                               *)

(* A call that goes on has recorded no failure: neither a wave nor a cycle *)
(* passes a failed node.                                                   *)
NoFailureInside == pc # "idle" => \A n \in Node : results[n] # Failed

FailureInv == NoFailureRecorded /\ NoFailureInside

(* The status of a checkpoint's record.                                    *)
LEMMA MappedStatus ==
  ASSUME NEW rs \in [Node -> NodeResult], NEW n \in Node
  PROVE  /\ MapNodeResults(rs)[n].status = "failed" <=> rs[n] = Failed
         /\ MapNodeResults(rs)[n].status = "pending" <=> rs[n] = Skipped
         /\ MapNodeResults(rs)[n].status = "completed" <=> rs[n].status = "Complete"
         /\ MapNodeResults(rs)[n].output = rs[n].output
<1>1. rs[n] \in NodeResult
  OBVIOUS
<1>2. MapNodeResults(rs)[n] = [status |-> CheckpointStatus(rs[n]), output |-> rs[n].output]
  BY DEF MapNodeResults
<1>3. CASE rs[n] = NoResult
  BY <1>2, <1>3 DEF CheckpointStatus, NoResult, Skipped, Failed
<1>4. CASE rs[n] = Skipped
  BY <1>2, <1>4 DEF CheckpointStatus, NoResult, Skipped, Failed
<1>5. CASE rs[n] = Failed
  BY <1>2, <1>5 DEF CheckpointStatus, NoResult, Skipped, Failed
<1>6. CASE \E o \in Output : rs[n] = Complete(o)
  BY <1>2, <1>6 DEF CheckpointStatus, Complete, Skipped, Failed
<1> QED
  BY <1>1, <1>3, <1>4, <1>5, <1>6 DEF NodeResult

(* Restoring makes a failure of nothing but a failure, and skips no node.  *)
LEMMA RestoredStatus ==
  ASSUME NEW cp \in Checkpoint, NEW n \in Node
  PROVE  /\ ~HasFailed(cp) => RestoreNodeResults(cp)[n] # Failed
         /\ RestoreNodeResults(cp)[n] # Skipped
<1>1. cp.results[n] \in CheckpointResult
  BY CheckpointFields
<1>2. RestoreNodeResults(cp)[n] \in {NoResult, RestoreNodeResult(cp.results[n])}
  BY DEF RestoreNodeResults
<1>3. cp.results[n].status \in {"None", "completed", "failed", "pending"}
  BY <1>1 DEF CheckpointResult
<1>4. CASE cp.results[n].status = "completed"
  BY <1>2, <1>4 DEF RestoreNodeResult, NoResult, Failed, Skipped, Complete
<1>5. CASE cp.results[n].status = "failed"
  BY <1>2, <1>5 DEF RestoreNodeResult, NoResult, Failed, Skipped, HasFailed
<1>6. CASE cp.results[n].status \in {"None", "pending"}
  BY <1>2, <1>6 DEF RestoreNodeResult, NoResult, Failed, Skipped
<1> QED
  BY <1>3, <1>4, <1>5, <1>6

LEMMA FailureNext == TypeInv /\ FailureInv /\ [Next]_vars => FailureInv'
<1> SUFFICES ASSUME TypeInv, FailureInv, [Next]_vars PROVE FailureInv'
  OBVIOUS
<1>a. results \in [Node -> NodeResult] /\ task \in [Node -> Task]
  BY DEF TypeInv, TypeOK
<1>b. \A i \in DOMAIN store : store[i] \in Checkpoint
  BY DEF TypeInv, TypeOK
<1>1. NoFailureRecorded'
  <2>1. CASE UNCHANGED store
    BY <2>1 DEF FailureInv, NoFailureRecorded
  <2>2. ASSUME pc \in SavePoint, NEW source \in {"loop", "interrupt"}, NEW step \in Nat,
               NEW cycle \in Nat, Save(source, step, cycle)
        PROVE  NoFailureRecorded'
    <3>1. \A n \in Node : results[n] # Failed
      BY <2>2 DEF FailureInv, NoFailureInside, SavePoint
    <3>2. ~HasFailed(NewCheckpoint(source, step, cycle))
      BY <3>1, <1>a, MappedStatus DEF HasFailed, NewCheckpoint
    <3> QED
      BY <2>2, <3>2, Appended DEF FailureInv, NoFailureRecorded
  <2> QED
    BY <2>1, <2>2, StoreSteps
<1>2. ASSUME pc' # "idle"
      PROVE  \A n \in Node : results'[n] # Failed
  <2>1. CASE pc # "idle" /\ UNCHANGED results
    BY <2>1 DEF FailureInv, NoFailureInside
  <2>2. CASE results' = Empty
    BY <2>2 DEF Empty, NoResult, Failed
  <2>3. ASSUME NEW i \in DOMAIN store, Resume(i)
        PROVE  \A n \in Node : results'[n] # Failed
    BY <1>b, <2>3, RestoredStatus DEF Resume, Enter
  <2>4. CASE BeginWave
    <3>1. \A n \in Node : results'[n] \in {Skipped, results[n]}
      BY <2>4 DEF BeginWave
    <3>2. pc # "idle"
      BY <2>4 DEF BeginWave
    <3> QED
      BY <3>1, <3>2 DEF FailureInv, NoFailureInside, Skipped, Failed
  <2>5. CASE CommitWave
    BY <2>5 DEF CommitWave, FailureInv, NoFailureInside
  <2>6. CASE CycleNodeCompletes
    <3>1. PICK o \in Returns[CycleNode] : results' = [results EXCEPT ![CycleNode] = Complete(o)]
      BY <2>6 DEF CycleNodeCompletes
    <3>2. \A n \in Node : results'[n] \in {results[n], Complete(o)}
      BY <3>1, <1>a
    <3> QED
      BY <2>6, <3>2 DEF CycleNodeCompletes, FailureInv, NoFailureInside, Complete, Failed
  <2> QED
    BY <1>2, <2>1, <2>2, <2>3, <2>4, <2>5, <2>6, ResultSteps
<1> QED
  BY <1>1, <1>2 DEF FailureInv, NoFailureInside

(* No checkpoint ever holds a failed node: a session whose call failed can *)
(* be resumed without failing for the same node again.                     *)
THEOREM FailuresUnrecorded == Spec => []NoFailureRecorded
<1>1. Init => FailureInv
  BY DEF Init, FailureInv, NoFailureRecorded, NoFailureInside
<1>2. FailureInv => NoFailureRecorded
  BY DEF FailureInv
<1> QED
  BY TypeInit, TypeNext, <1>1, <1>2, FailureNext, PTL DEF Spec

-----------------------------------------------------------------------------
(* Results are kept.                                                       *)

(* A node is only started if it has no result, and a call that was not     *)
(* resumed has none in the waves to come.                                  *)
TasksAreNew ==
  pc = "tasks" => \A n \in Node : task[n] # NoResult => ~HasResult(n)

FreshCall ==
  InWaves /\ ~resumed =>
    \A w \in DOMAIN Waves : \A n \in WaveNodes(w) :
      w > wave \/ (w = wave /\ pc = "wave") => ~HasResult(n)

FreshInv == TasksAreNew /\ FreshCall

(* The nodes that a wave skips or starts have no result.                   *)
LEMMA PendingAreNew ==
  ASSUME IInv, FreshInv, pc = "wave", wave <= Len(Waves), NEW n \in PendingWaveNodes
  PROVE  n \in Node /\ n \in WaveNodes(wave) /\ ~HasResult(n)
<1>1. wave \in DOMAIN Waves
  BY WavesAssumption DEF IInv, TypeInv, TypeOK
<1>2. n \in WaveNodes(wave) /\ (~resumed \/ ~HasResult(n))
  BY DEF PendingWaveNodes
<1>3. n \in Node
  BY <1>1, <1>2, WavesAssumption DEF WaveNodes
<1> QED
  BY <1>1, <1>2, <1>3 DEF FreshInv, FreshCall, InWaves

(* A step in the waves adds results to nodes of the current wave, and      *)
(* changes none.                                                           *)
LEMMA WaveKeeps ==
  ASSUME IInv, FreshInv, InWaves, [Next]_vars, pc' # "idle"
  PROVE  \A n \in Node :
           /\ HasResult(n) => results'[n] = results[n] /\ task'[n] # Running
           /\ results'[n] # results[n] => n \in WaveNodes(wave) /\ pc \in {"wave", "tasks"}
<1> SUFFICES ASSUME NEW n \in Node
             PROVE  /\ HasResult(n) => results'[n] = results[n] /\ task'[n] # Running
                    /\ results'[n] # results[n] => n \in WaveNodes(wave) /\ pc \in {"wave", "tasks"}
  OBVIOUS
<1>a. results \in [Node -> NodeResult] /\ task \in [Node -> Task]
  BY DEF IInv, TypeInv, TypeOK
<1>b. pc # "tasks" => task[n] # Running
  BY DEF IInv, ProgressInv, IdleIsReset, Empty, NoResult, Running
<1>c. pc = "tasks" /\ HasResult(n) => task[n] # Running
  BY DEF FreshInv, TasksAreNew, NoResult, Running
<1>1. CASE BeginWave
  <2> DEFINE toRun == {m \in PendingWaveNodes : ~ShouldSkip(m)}
  <2>1. /\ pc = "wave" /\ wave <= Len(Waves)
        /\ results' = [m \in Node |-> IF m \in PendingWaveNodes \ toRun THEN Skipped ELSE results[m]]
        /\ task' = [m \in Node |-> IF m \in toRun THEN Running ELSE NoResult]
    BY <1>1 DEF BeginWave
  <2>2. n \in PendingWaveNodes => n \in WaveNodes(wave) /\ ~HasResult(n)
    BY <2>1, PendingAreNew
  <2>3. n \notin PendingWaveNodes => results'[n] = results[n] /\ task'[n] = NoResult
    BY <2>1
  <2> HIDE DEF toRun
  <2> QED
    BY <2>1, <2>2, <2>3 DEF NoResult, Running
<1>2. ASSUME NEW m \in Node, TaskSettles(m) \/ TaskInterrupts(m)
      PROVE  /\ HasResult(n) => results'[n] = results[n] /\ task'[n] # Running
             /\ results'[n] = results[n]
  <2>1. UNCHANGED results /\ pc = "tasks"
    BY <1>2 DEF TaskSettles, TaskInterrupts
  <2>2. \E r \in {Failed, Interrupted} \cup {Complete(o) : o \in Returns[m]} :
          task' = [task EXCEPT ![m] = r]
    BY <1>2 DEF TaskSettles, TaskInterrupts
  <2>3. task'[n] = task[n] \/ task'[n] # Running
    BY <2>2, <1>a DEF Failed, Interrupted, Running, Complete
  <2> QED
    BY <2>1, <2>3, <1>c
<1>3. CASE CatchInterrupt
  BY <1>3 DEF CatchInterrupt, Empty, NoResult, Running
<1>4. CASE CommitWave
  <2>1. task' = Empty /\ results'[n] = IF task[n] = NoResult THEN results[n] ELSE task[n]
    BY <1>4 DEF CommitWave
  <2>2. pc = "tasks"
    BY <1>4 DEF CommitWave
  <2>3. task[n] # NoResult => ~HasResult(n) /\ n \in WaveNodes(wave)
    BY <2>2 DEF FreshInv, TasksAreNew, IInv, ProgressInv, WaveIsAccountedFor
  <2> QED
    BY <2>1, <2>2, <2>3 DEF Empty, NoResult, Running
<1>5. CASE SaveWave \/ EnterCycles
  BY <1>5, <1>b DEF SaveWave, EnterCycles, control
<1>6. CASE UNCHANGED vars
  BY <1>6, <1>b, <1>c DEF vars, control
<1> QED
  BY <1>1, <1>2, <1>3, <1>4, <1>5, <1>6, WaveSteps

LEMMA FreshNext == IInv /\ FreshInv /\ [Next]_vars => FreshInv'
<1> SUFFICES ASSUME IInv, FreshInv, [Next]_vars PROVE FreshInv'
  OBVIOUS
<1>a. /\ wave \in Nat /\ \A w \in DOMAIN Waves : w \in Nat /\ WaveNodes(w) \subseteq Node
      /\ Len(Waves) \in Nat
  BY WavesAssumption DEF IInv, TypeInv, TypeOK, WaveNodes
<1>b. ASSUME NEW w \in DOMAIN Waves, NEW n \in WaveNodes(w), n \in WaveNodes(wave), wave \in DOMAIN Waves
      PROVE  w = wave
  BY <1>b, WavesAssumption
<1>1. CASE pc' = "idle" \/ InCycles'
  BY <1>1 DEF FreshInv, TasksAreNew, FreshCall, InWaves, InCycles
<1>3. CASE pc = "idle" /\ pc' # "idle"
  <2>1. CASE Execute
    <3>1. pc' = "wave" /\ \A n \in Node : ~HasResult(n)'
      BY <2>1 DEF Execute, Enter, Empty, HasResult
    <3> QED
      BY <1>a, <3>1 DEF FreshInv, TasksAreNew, FreshCall
  <2>2. ASSUME NEW i \in DOMAIN store, Resume(i)
        PROVE  FreshInv'
    BY <2>2 DEF Resume, Enter, FreshInv, TasksAreNew, FreshCall
  <2> QED
    BY <1>3, <2>1, <2>2, StartSteps
<1>2. CASE InWaves /\ pc' # "idle"
  <2>1. CASE BeginWave
    <3> DEFINE toRun == {m \in PendingWaveNodes : ~ShouldSkip(m)}
    <3>1. /\ pc = "wave" /\ wave <= Len(Waves) /\ resumed' = resumed
          /\ results' = [m \in Node |-> IF m \in PendingWaveNodes \ toRun THEN Skipped ELSE results[m]]
          /\ task' = [m \in Node |-> IF m \in toRun THEN Running ELSE NoResult]
          /\ IF toRun = {} THEN pc' = "wave" /\ wave' = wave + 1
                           ELSE pc' = "tasks" /\ wave' = wave
      BY <2>1 DEF BeginWave
    <3>2. \A n \in toRun : n \in Node /\ ~HasResult(n)
      BY <3>1, PendingAreNew
    <3>3. wave \in DOMAIN Waves
      BY <3>1, WavesAssumption DEF IInv, TypeInv, TypeOK
    <3>4. TasksAreNew'
      BY <3>1, <3>2 DEF TasksAreNew, HasResult
    <3>5. ASSUME ~resumed, NEW w \in DOMAIN Waves, NEW n \in WaveNodes(w), w > wave
          PROVE  ~HasResult(n)'
      <4>1. n \notin WaveNodes(wave)
        BY <1>a, <1>b, <3>3, <3>5
      <4>2. n \notin PendingWaveNodes /\ n \in Node
        BY <1>a, <4>1 DEF PendingWaveNodes
      <4>3. results'[n] = results[n]
        BY <3>1, <4>2
      <4> QED
        BY <1>2, <3>5, <4>3 DEF FreshInv, FreshCall, HasResult
    <3> HIDE DEF toRun
    <3>6. \A w \in DOMAIN Waves :
            w > wave' \/ (w = wave' /\ pc' = "wave") => w > wave
      BY <1>a, <3>1
    <3>7. FreshCall'
      BY <3>1, <3>5, <3>6 DEF FreshCall
    <3> QED
      BY <3>4, <3>7 DEF FreshInv
  <2>2. ASSUME NEW m \in Node, TaskSettles(m) \/ TaskInterrupts(m)
        PROVE  FreshInv'
    <3>1. UNCHANGED <<results, pc, wave, resumed>> /\ pc = "tasks" /\ task[m] = Running
      BY <2>2 DEF TaskSettles, TaskInterrupts
    <3>2. \A n \in Node : n # m => task'[n] = task[n]
      BY <2>2 DEF TaskSettles, TaskInterrupts, IInv, TypeInv, TypeOK
    <3>3. TasksAreNew'
      BY <3>1, <3>2 DEF FreshInv, TasksAreNew, HasResult, Running, NoResult
    <3> QED
      BY <3>1, <3>3 DEF FreshInv, FreshCall, HasResult, InWaves
  <2>3. CASE CommitWave
    <3>1. /\ pc = "tasks" /\ pc' = "saveWave" /\ UNCHANGED <<wave, resumed>>
          /\ \A n \in Node : task[n] = NoResult => results'[n] = results[n]
      BY <2>3 DEF CommitWave
    <3>2. wave \in DOMAIN Waves
      BY <1>2, <3>1 DEF IInv, ProgressInv, WaveIsAccountedFor
    <3>3. ASSUME NEW w \in DOMAIN Waves, NEW n \in WaveNodes(w), w > wave
          PROVE  results'[n] = results[n]
      <4>1. n \notin WaveNodes(wave) /\ n \in Node
        BY <1>a, <1>b, <3>2, <3>3
      <4> QED
        BY <3>1, <4>1 DEF IInv, ProgressInv, WaveIsAccountedFor
    <3> QED
      BY <1>2, <3>1, <3>3 DEF FreshInv, TasksAreNew, FreshCall, HasResult
  <2>4. CASE CatchInterrupt
    BY <1>2, <2>4 DEF CatchInterrupt, FreshInv, TasksAreNew, FreshCall, HasResult
  <2>5. CASE SaveWave
    BY <1>2, <1>a, <2>5 DEF SaveWave, FreshInv, TasksAreNew, FreshCall, HasResult
  <2>6. CASE EnterCycles
    BY <2>6 DEF EnterCycles, FreshInv, TasksAreNew, FreshCall, InWaves
  <2>7. CASE UNCHANGED vars
    BY <2>7 DEF vars, control, FreshInv, TasksAreNew, FreshCall, InWaves, HasResult
  <2> QED
    BY <1>2, <2>1, <2>2, <2>3, <2>4, <2>5, <2>6, <2>7, WaveSteps
<1>4. CASE InCycles /\ pc' # "idle"
  BY <1>1, <1>4, CycleSteps
<1>5. TypeInv
  BY DEF IInv
<1> QED
  BY <1>1, <1>2, <1>3, <1>4, <1>5, Places

LEMMA FreshInit == Init => FreshInv
  BY DEF Init, FreshInv, TasksAreNew, FreshCall, InWaves

(* Within the waves of a call no result is replaced and no node that has   *)
(* one runs, whether the call computed it or a checkpoint recorded it.     *)
THEOREM Kept == Spec => ResultsKept
<1>1. Init => IInv
  BY TypeInit, ProgressInit DEF IInv
<1>2. IInv /\ FreshInv /\ [Next]_vars =>
        [InWaves /\ pc' # "idle" =>
           \A n \in Node : HasResult(n) => results'[n] = results[n] /\ task'[n] # Running]_vars
  BY WaveKeeps
<1> QED
  BY <1>1, <1>2, FreshInit, FreshNext, Inductive, PTL DEF Spec, ResultsKept

-----------------------------------------------------------------------------
(* Until predicates.                                                       *)

(* The cycles are entered at the first iteration of the first back edge,   *)
(* and a further iteration of a back edge begins with the output that its  *)
(* until predicate rejected.                                               *)
IterationsBegin == ~InCycles => edge = 1 /\ iteration = 1

UntilRejected ==
  pc = "edge" /\ iteration > 1 =>
    results[CurrentEdge.from].output \notin CurrentEdge.until

UntilInv == IterationsBegin /\ UntilRejected

LEMMA UntilNext == TypeInv /\ UntilInv /\ [Next]_vars => UntilInv'
<1> SUFFICES ASSUME TypeInv, UntilInv, [Next]_vars PROVE UntilInv'
  OBVIOUS
<1>a. iteration \in Nat
  BY DEF TypeInv, TypeOK
<1>1. CASE pc' = "idle"
  <2>1. edge' = 1 /\ iteration' = 1
    <3>1. CASE pc = "idle"
      <4>1. edge = 1 /\ iteration = 1
        BY <3>1 DEF UntilInv, IterationsBegin, InCycles
      <4>2. CASE UNCHANGED vars
        BY <4>1, <4>2 DEF vars, control
      <4>3. CASE ResumeAny
        BY <1>1, <4>3 DEF ResumeAny, Resume, ResumeFails, Enter, Return, ResetControl
      <4> QED
        BY <1>1, <3>1, <4>2, <4>3 DEF Next, WaveStep, CycleStep, Execute, Enter, BeginWave,
           TaskSettles, TaskInterrupts, CatchInterrupt, CommitWave, FailWave, SaveWave,
           SaveInterruptedWave, SaveWaveFails, SaveInterruptedWaveFails, EnterCycles,
           BeginIteration, NextEdge, CycleNodeCompletes, CycleNodeFails, CycleNodeInterrupts,
           SaveCycle, SaveInterruptedCycle, SaveCycleFails, SaveThenFail, Finish, Crash
    <3>2. CASE pc # "idle"
      BY <1>1, <3>2 DEF Next, vars, WaveStep, CycleStep, Execute, ResumeAny, Resume, ResumeFails,
         NewCall, BeginWave, TaskSettles, TaskInterrupts, CatchInterrupt, CommitWave, FailWave,
         SaveWave, SaveInterruptedWave, SaveWaveFails, SaveInterruptedWaveFails, EnterCycles,
         BeginIteration, NextEdge, CycleNodeCompletes, CycleNodeFails, CycleNodeInterrupts,
         SaveCycle, SaveInterruptedCycle, SaveCycleFails, SaveThenFail, Finish, Crash, Return,
         ResetControl
    <3> QED
      BY <3>1, <3>2
  <2> QED
    BY <1>1, <2>1 DEF UntilInv, IterationsBegin, UntilRejected
<1>2. CASE pc = "idle" /\ pc' # "idle"
  <2>1. UNCHANGED control /\ pc' = "wave"
    BY <1>2, StartSteps DEF Execute, Resume, Enter
  <2> QED
    BY <1>2, <2>1 DEF control, UntilInv, IterationsBegin, UntilRejected, InCycles
<1>3. CASE InWaves /\ pc' # "idle"
  <2>1. edge = 1 /\ iteration = 1
    BY <1>3, Places DEF UntilInv, IterationsBegin
  <2>2. UNCHANGED <<edge, iteration>>
    BY <1>3, WaveSteps DEF BeginWave, TaskSettles, TaskInterrupts, CatchInterrupt, CommitWave,
       SaveWave, EnterCycles, vars, control
  <2> QED
    BY <2>1, <2>2 DEF UntilInv, IterationsBegin, UntilRejected
<1>4. CASE InCycles /\ pc' # "idle"
  <2>1. IterationsBegin'
    BY <1>4, CycleSteps DEF IterationsBegin
  <2>2. UntilRejected'
    <3>1. CASE SaveCycle
      BY <1>a, <3>1 DEF SaveCycle, UntilRejected, CurrentEdge
    <3>2. CASE NextEdge
      BY <3>2 DEF NextEdge, UntilRejected
    <3>3. CASE BeginIteration \/ CycleNodeCompletes \/ CycleNodeInterrupts
      BY <3>3 DEF BeginIteration, CycleNodeCompletes, CycleNodeInterrupts, UntilRejected
    <3>4. CASE UNCHANGED vars
      BY <3>4 DEF vars, control, UntilInv, UntilRejected, CurrentEdge
    <3> QED
      BY <1>4, <3>1, <3>2, <3>3, <3>4, CycleSteps
  <2> QED
    BY <2>1, <2>2 DEF UntilInv
<1> QED
  BY <1>1, <1>2, <1>3, <1>4, Places

(* A further iteration of a back edge within a call begins only after its  *)
(* until predicate rejected the output of the iteration before.            *)
THEOREM Until == Spec => UntilStops
<1>1. Init => UntilInv
  BY DEF Init, UntilInv, IterationsBegin, UntilRejected
<1>2. TypeInv /\ UntilInv /\ [Next]_vars =>
        [pc = "edge" /\ pc' = "cycleNode" /\ iteration > 1 =>
           results[CurrentEdge.from].output \notin CurrentEdge.until]_vars
  BY DEF UntilInv, UntilRejected
<1> QED
  BY TypeInit, TypeNext, <1>1, <1>2, UntilNext, PTL DEF Spec, UntilStops

-----------------------------------------------------------------------------
(* The latest checkpoint.                                                  *)

LastStep == store[Len(store)].step

(* Later checkpoints have later steps or the same.                         *)
StepsGrow == \A i, j \in DOMAIN store : i <= j => store[i].step <= store[j].step

(* A checkpoint of a step records the waves up to that step.               *)
StepsAreCovered ==
  \A i \in DOMAIN store : \A w \in DOMAIN Waves :
    w <= store[i].step => WaveNodes(w) \subseteq Recorded(store[i])

(* A call is past the step of the last checkpoint, or it was resumed from  *)
(* that checkpoint and will find nothing to run before it is.              *)
PastLatest ==
  InWaves /\ store # <<>> =>
    \/ LastStep < wave
    \/ /\ pc = "wave" /\ resumed
       /\ \A w \in DOMAIN Waves : w <= LastStep => \A n \in WaveNodes(w) : HasResult(n)

(* Before the first call there are no checkpoints.                         *)
NothingBeforeFirstCall == calls = 0 => pc = "idle" /\ store = <<>>

NewestInv ==
  LatestIsNewest /\ StepsGrow /\ StepsAreCovered /\ PastLatest /\ NothingBeforeFirstCall

(* With steps that grow, the latest checkpoint is the last one.            *)
LEMMA LastIsLatest ==
  ASSUME store \in Seq(Checkpoint), store # <<>>, StepsGrow
  PROVE  Latest = Len(store) /\ Len(store) \in DOMAIN store
<1>1. /\ Len(store) \in Nat \ {0} /\ DOMAIN store = 1..Len(store)
      /\ \A i \in DOMAIN store : store[i].step \in Nat
  <2>1. \A i \in DOMAIN store : store[i] \in Checkpoint
    OBVIOUS
  <2> QED
    BY <2>1, CheckpointFields
<1>2. IsLatest(Len(store))
  BY <1>1 DEF IsLatest, StepsGrow
<1>3. \A i \in DOMAIN store : IsLatest(i) => i = Len(store)
  BY <1>1, <1>2 DEF IsLatest
<1> QED
  BY <1>1, <1>2, <1>3 DEF Latest

\* A session without back edges whose callers resume the latest checkpoint.
Straight == LatestOnly /\ BackEdge = <<>>

(* Without back edges there is nothing to save in the cycles.              *)
LEMMA NoCycleSaves ==
  ASSUME Straight, IInv
  PROVE  pc \notin {"cycleNode", "saveCycle", "interruptCycle"}
BY DEF Straight, IInv, TypeInv, CycleIsPlaced

(* A save in the waves appends the newest checkpoint: its step is not      *)
(* before the last one's, and its version is the next.                     *)
LEMMA SavedIsNewest ==
  ASSUME Straight, IInv, NewestInv, UNCHANGED results,
         NEW source \in {"loop", "interrupt"}, NEW cycle \in Nat,
         Save(source, wave - 1, cycle), pc \in {"saveWave", "interruptWave"}
  PROVE  LatestIsNewest' /\ StepsGrow' /\ StepsAreCovered' /\ Len(store') = Len(store) + 1
         /\ LastStep' = wave - 1
<1> DEFINE cp == NewCheckpoint(source, wave - 1, cycle)
<1>e. PICK n \in Nat : n = Len(store) + 1
  BY Appended DEF IInv
<1>a. /\ Len(store') = n /\ Len(store) \in Nat /\ store' # <<>>
      /\ \A i : i \in DOMAIN store <=> i \in Nat /\ 1 <= i /\ i <= Len(store)
      /\ \A i : i \in DOMAIN store' <=> i \in DOMAIN store \/ i = n
      /\ \A i \in DOMAIN store : store'[i] = store[i]
      /\ store'[n] = cp
  BY <1>e, Appended DEF IInv
<1>b. /\ store \in Seq(Checkpoint) /\ store' \in Seq(Checkpoint) /\ wave \in Nat \ {0}
      /\ results \in [Node -> NodeResult]
  <2>1. wave - 1 \in Nat
    BY DEF IInv, TypeInv, TypeOK
  <2> QED
    BY <2>1, SavedCheckpoint DEF IInv, TypeInv, TypeOK
<1>c. /\ \A i \in DOMAIN store : store[i].step \in Nat /\ store[i].version \in Nat
      /\ \A i \in DOMAIN store' : store'[i].step \in Nat
  <2>1. /\ \A i \in DOMAIN store : store[i] \in Checkpoint
        /\ \A i \in DOMAIN store' : store'[i] \in Checkpoint
    BY <1>b
  <2> QED
    BY <2>1, CheckpointFields
<1>d. cp.step = wave - 1 /\ cp.version = NextVersion /\ cp.results = MapNodeResults(results)
  BY DEF NewCheckpoint
<1> HIDE DEF cp
<1>1. \A i \in DOMAIN store : store[i].step <= wave - 1
  <2>1. CASE store = <<>>
    BY <1>a, <2>1
  <2>2. CASE store # <<>>
    <3>1. LastStep < wave
      BY <2>2 DEF NewestInv, PastLatest, InWaves
    <3>2. Len(store) \in DOMAIN store
      BY <1>b, <2>2, LastIsLatest DEF NewestInv
    <3>3. \A i \in DOMAIN store : store[i].step <= LastStep
      BY <1>a, <3>2 DEF NewestInv, StepsGrow, LastStep
    <3> QED
      BY <1>b, <1>c, <3>1, <3>2, <3>3 DEF LastStep
  <2> QED
    BY <2>1, <2>2
<1>2. StepsGrow'
  BY <1>a, <1>e, <1>b, <1>c, <1>d, <1>1 DEF NewestInv, StepsGrow
<1>3. Latest' = n
  <2>1. \A i \in DOMAIN store' : IsLatest(i)' <=>
          \A j \in DOMAIN store' \ {i} :
            \/ store'[j].step < store'[i].step
            \/ store'[j].step = store'[i].step /\ j < i
    BY DEF IsLatest
  <2>2. IsLatest(n)'
    <3>1. ASSUME NEW j \in DOMAIN store' \ {n}
          PROVE  /\ store'[j].step < store'[n].step \/ store'[j].step = store'[n].step
                 /\ j < n
      <4>1. j \in DOMAIN store /\ store'[j] = store[j] /\ j < n
        BY <1>a, <1>e
      <4>2. store[j].step <= wave - 1 /\ store[j].step \in Nat /\ store'[n].step = wave - 1
        BY <1>a, <1>c, <1>d, <1>1, <4>1
      <4> QED
        BY <1>b, <4>1, <4>2
    <3> QED
      BY <1>a, <2>1, <3>1
  <2>3. ASSUME NEW i \in DOMAIN store', IsLatest(i)', i # n
        PROVE  FALSE
    <3>1. /\ store'[i].step < store'[n].step \/ (store'[i].step = store'[n].step /\ i < n)
          /\ store'[n].step < store'[i].step \/ (store'[n].step = store'[i].step /\ n < i)
      BY <1>a, <2>1, <2>2, <2>3
    <3> QED
      BY <1>a, <1>c, <1>e, <2>3, <3>1
  <2> QED
    BY <1>a, <2>2, <2>3 DEF Latest
<1>4. NextVersion = n
  <2>1. CASE store = <<>>
    BY <1>a, <2>1 DEF NextVersion
  <2>2. CASE store # <<>>
    <3>1. Latest = Len(store) /\ Len(store) \in DOMAIN store
      BY <1>b, <2>2, LastIsLatest DEF NewestInv
    <3> QED
      BY <1>e, <2>2, <3>1 DEF NextVersion, NewestInv, LatestIsNewest
  <2> QED
    BY <2>1, <2>2
<1>5. LatestIsNewest'
  <2>1. \A i \in DOMAIN store' : store'[i].version = i
    BY <1>a, <1>d, <1>4 DEF NewestInv, LatestIsNewest
  <2> QED
    BY <1>a, <1>e, <1>3, <2>1 DEF LatestIsNewest
<1>6. StepsAreCovered'
  <2>1. ASSUME NEW w \in DOMAIN Waves, w <= wave - 1
        PROVE  WaveNodes(w) \subseteq Recorded(cp)
    <3>1. WaveNodes(w) \subseteq Node /\ w \in Nat
      BY WavesAssumption DEF WaveNodes
    <3>2. \A m \in WaveNodes(w) : HasResult(m)
      BY <1>b, <2>1, <3>1 DEF IInv, ProgressInv, EarlierWavesHaveResults, InWaves
    <3> QED
      BY <1>b, <1>d, <3>1, <3>2, MappedResults DEF Recorded, HasResult
  <2> QED
    BY <1>a, <1>d, <2>1 DEF NewestInv, StepsAreCovered, Recorded
<1>7. LastStep' = wave - 1
  BY <1>a, <1>d, <1>e DEF LastStep
<1> QED
  BY <1>a, <1>e, <1>2, <1>5, <1>6, <1>7

(* Calls are counted when they start.                                      *)
LEMMA CallsCount == [Next]_vars => calls' \in {calls, calls + 1}
BY DEF Next, vars, bounds, WaveStep, CycleStep, Execute, ResumeAny, Resume, ResumeFails, NewCall,
   BeginWave, TaskSettles, TaskInterrupts, CatchInterrupt, CommitWave, FailWave, SaveWave,
   SaveInterruptedWave, SaveWaveFails, SaveInterruptedWaveFails, EnterCycles, BeginIteration,
   NextEdge, CycleNodeCompletes, CycleNodeFails, CycleNodeInterrupts, SaveCycle,
   SaveInterruptedCycle, SaveCycleFails, SaveThenFail, Finish, Crash

LEMMA NewestNext == Straight /\ IInv /\ NewestInv /\ [Next]_vars => NewestInv'
<1> SUFFICES ASSUME Straight, IInv, NewestInv, [Next]_vars PROVE NewestInv'
  OBVIOUS
<1>a. /\ wave \in Nat \ {0} /\ Len(Waves) \in Nat /\ calls \in Nat
      /\ store \in Seq(Checkpoint)
      /\ \A w \in DOMAIN Waves : w \in Nat \ {0} /\ WaveNodes(w) \subseteq Node
      /\ \A w \in Nat \ {0} : w <= Len(Waves) => w \in DOMAIN Waves
  BY WavesAssumption DEF IInv, TypeInv, TypeOK, WaveNodes
<1>b. store # <<>> => LastStep \in Nat /\ Len(store) \in DOMAIN store /\ Latest = Len(store)
  <2>1. \A i \in DOMAIN store : store[i] \in Checkpoint
    BY <1>a
  <2> QED
    BY <1>a, <2>1, LastIsLatest, CheckpointFields DEF NewestInv, LastStep
<1>c. UNCHANGED store => LatestIsNewest' /\ StepsGrow' /\ StepsAreCovered' /\ LastStep' = LastStep
  BY DEF NewestInv, LatestIsNewest, Latest, IsLatest, StepsGrow, StepsAreCovered, LastStep
<1>d. calls' \in {calls, calls + 1}
  BY CallsCount
<1>1. CASE pc = "idle" /\ pc' # "idle"
  <2>1. calls' = calls + 1 /\ UNCHANGED <<store, wave>> /\ pc' = "wave"
    BY <1>1, StartSteps DEF Execute, Resume, NewCall, Enter, control
  <2>2. CASE Execute
    <3>1. store = <<>>
      BY <2>2 DEF Execute, Straight, NewestInv, NothingBeforeFirstCall
    <3> QED
      BY <1>a, <1>c, <2>1, <3>1 DEF NewestInv, PastLatest, NothingBeforeFirstCall
  <2>3. CASE store # <<>> /\ Resume(Latest)
    <3>1. /\ Latest = Len(store) /\ Latest \in DOMAIN store
          /\ resumed' = TRUE /\ results' = RestoreNodeResults(store[Latest])
          /\ Restorable(store[Latest]) /\ store[Latest] \in Checkpoint
      BY <1>a, <1>b, <2>3 DEF Resume, Enter
    <3>2. \A w \in DOMAIN Waves : w <= LastStep => \A n \in WaveNodes(w) : HasResult(n)'
      BY <1>a, <3>1, RestoredResults DEF NewestInv, StepsAreCovered, HasResult, LastStep
    <3> QED
      BY <1>a, <1>c, <2>1, <3>1, <3>2 DEF NewestInv, PastLatest, NothingBeforeFirstCall
  <2> QED
    BY <1>1, <2>2, <2>3, StartSteps DEF Straight
<1>2. CASE UNCHANGED store /\ (pc' = "idle" \/ (pc # "idle" /\ InCycles'))
  <2>1. PastLatest'
    BY <1>2 DEF PastLatest, InWaves, InCycles
  <2>2. NothingBeforeFirstCall'
    BY <1>a, <1>d, <1>2 DEF NewestInv, NothingBeforeFirstCall
  <2> QED
    BY <1>c, <1>2, <2>1, <2>2 DEF NewestInv
<1>3. CASE UNCHANGED store /\ InWaves /\ pc' # "idle"
  <2>1. pc # "idle" /\ calls' # 0
    BY <1>a, <1>d, <1>3 DEF InWaves, NewestInv, NothingBeforeFirstCall
  <2>2. CASE BeginWave /\ store # <<>>
    <3> DEFINE toRun == {m \in PendingWaveNodes : ~ShouldSkip(m)}
    <3>1. /\ pc = "wave" /\ wave <= Len(Waves) /\ resumed' = resumed
          /\ results' = [m \in Node |-> IF m \in PendingWaveNodes \ toRun THEN Skipped ELSE results[m]]
          /\ IF toRun = {} THEN pc' = "wave" /\ wave' = wave + 1
                           ELSE pc' = "tasks" /\ wave' = wave
      BY <2>2 DEF BeginWave
    <3>2. CASE LastStep < wave
      BY <1>a, <1>b, <1>3, <1>c, <2>1, <2>2, <3>1, <3>2
         DEF NewestInv, PastLatest, NothingBeforeFirstCall
    <3>3. CASE ~(LastStep < wave)
      <4>1. resumed /\ \A w \in DOMAIN Waves : w <= LastStep => \A n \in WaveNodes(w) : HasResult(n)
        BY <1>3, <2>2, <3>3 DEF NewestInv, PastLatest
      <4>2. wave <= LastStep /\ wave \in DOMAIN Waves
        BY <1>a, <1>b, <2>2, <3>1, <3>3
      <4>3. PendingWaveNodes = {}
        BY <4>1, <4>2 DEF PendingWaveNodes
      <4>4. pc' = "wave" /\ \A m \in Node : results'[m] = results[m]
        BY <3>1, <4>3
      <4> QED
        BY <1>a, <1>3, <1>c, <2>1, <2>2, <3>1, <4>1, <4>4
           DEF NewestInv, PastLatest, NothingBeforeFirstCall, HasResult
    <3> QED
      BY <3>2, <3>3
  <2>3. CASE store = <<>>
    BY <1>3, <1>c, <2>1, <2>3 DEF NewestInv, PastLatest, NothingBeforeFirstCall
  <2>4. CASE pc # "wave" /\ store # <<>> /\ UNCHANGED wave
    BY <1>3, <1>c, <2>1, <2>4 DEF NewestInv, PastLatest, NothingBeforeFirstCall
  <2>5. CASE SaveWave
    BY <1>3, <2>5, Appended DEF SaveWave, Save, IInv
  <2>6. CASE EnterCycles
    BY <1>2, <1>3, <2>1, <2>6 DEF EnterCycles, InCycles
  <2>7. CASE UNCHANGED vars
    BY <1>c, <2>1, <2>7 DEF vars, control, NewestInv, PastLatest, NothingBeforeFirstCall, InWaves,
       HasResult
  <2> QED
    BY <1>3, <2>2, <2>3, <2>4, <2>5, <2>6, <2>7, WaveSteps
       DEF TaskSettles, TaskInterrupts, CatchInterrupt, CommitWave
<1>4. CASE ~UNCHANGED store
  <2>1. PICK source \in {"loop", "interrupt"}, step \in Nat, cycle \in Nat :
          /\ Save(source, step, cycle) /\ pc \in SavePoint /\ UNCHANGED results
          /\ pc \in {"saveWave", "interruptWave"} => step = wave - 1
    BY <1>4, StoreSteps DEF IInv
  <2>2. pc \in {"saveWave", "interruptWave"} /\ InWaves
    BY <2>1, NoCycleSaves DEF SavePoint, InWaves
  <2>3. LatestIsNewest' /\ StepsGrow' /\ StepsAreCovered' /\ LastStep' = wave - 1
    BY <2>1, <2>2, SavedIsNewest
  <2>4. pc' # "idle" => wave' = wave + 1 \/ UNCHANGED store
    BY <2>2, WaveSteps DEF BeginWave, TaskSettles, TaskInterrupts, CatchInterrupt, CommitWave,
       SaveWave, EnterCycles, vars
  <2>5. PastLatest'
    BY <1>a, <1>4, <2>3, <2>4 DEF PastLatest, InWaves
  <2>6. NothingBeforeFirstCall'
    BY <1>a, <1>d, <2>2 DEF NewestInv, NothingBeforeFirstCall
  <2> QED
    BY <2>3, <2>5, <2>6 DEF NewestInv
<1>5. CASE UNCHANGED store /\ InCycles /\ pc' # "idle"
  BY <1>2, <1>5, CycleSteps, Places DEF IInv
<1> QED
  BY <1>1, <1>2, <1>3, <1>4, <1>5, Places DEF IInv

(* In a session without back edges whose callers resume the latest         *)
(* checkpoint, that is the one saved last and versions are consecutive,    *)
(* whatever was interrupted, lost and resumed before.                      *)
THEOREM Newest == Straight => (Spec => []LatestIsNewest)
<1> SUFFICES ASSUME Straight PROVE Spec => []LatestIsNewest
  OBVIOUS
<1>1. Init => IInv
  BY TypeInit, ProgressInit DEF IInv
<1>2. Init => NewestInv
  BY DEF Init, NewestInv, LatestIsNewest, StepsGrow, StepsAreCovered, PastLatest, InWaves,
     NothingBeforeFirstCall
<1>3. IInv /\ NewestInv /\ [Next]_vars => NewestInv'
  BY NewestNext
<1>4. NewestInv => LatestIsNewest
  BY DEF NewestInv
<1> QED
  BY <1>1, <1>2, <1>3, <1>4, Inductive, PTL DEF Spec

-----------------------------------------------------------------------------
(* Interrupts.                                                             *)

(* A save is rejected only when the store fails: it has no constraint on   *)
(* versions, or the versions are consecutive.                              *)
OnlyFaultsReject == ~UniqueVersions \/ Straight

LEMMA RejectIsFault ==
  ASSUME OnlyFaultsReject, IInv, Straight => NewestInv, Reject
  PROVE  faults' # 0
<1>1. CASE ~UniqueVersions
  BY <1>1 DEF Reject, IInv, TypeInv, TypeOK
<1>2. CASE Straight
  <2>1. store \in Seq(Checkpoint)
    BY DEF IInv, TypeInv, TypeOK
  <2>2. NextVersion = Len(store) + 1
    <3>1. CASE store = <<>>
      BY <3>1 DEF NextVersion
    <3>2. CASE store # <<>>
      BY <1>2, <2>1, <3>2, LastIsLatest DEF NextVersion, NewestInv, LatestIsNewest
    <3> QED
      BY <3>1, <3>2
  <2>3. ~VersionTaken
    BY <1>2, <2>1, <2>2 DEF VersionTaken, NewestInv, LatestIsNewest
  <2> QED
    BY <2>3 DEF Reject, IInv, TypeInv, TypeOK
<1> QED
  BY <1>1, <1>2 DEF OnlyFaultsReject

(* Who interrupted the call, and that an interrupted node of a wave has no *)
(* result.                                                                 *)
InterrupterKnown ==
  /\ pc = "tasks" => \A n \in Node : task[n] = Interrupted =>
                       interrupter \in Node /\ task[interrupter] = Interrupted
  /\ pc = "interruptWave" => interrupter \in Node /\ ~HasResult(interrupter)
  /\ pc = "interruptCycle" => interrupter \in Node

LEMMA InterrupterNext ==
  IInv /\ FreshInv /\ InterrupterKnown /\ [Next]_vars => InterrupterKnown'
<1> SUFFICES ASSUME IInv, FreshInv, InterrupterKnown, [Next]_vars PROVE InterrupterKnown'
  OBVIOUS
<1>a. task \in [Node -> Task] /\ (pc # "tasks" => task = Empty)
  BY DEF IInv, TypeInv, TypeOK, ProgressInv, IdleIsReset
<1>1. CASE pc' = "idle"
  BY <1>1 DEF InterrupterKnown
<1>2. CASE pc = "idle" /\ pc' # "idle"
  <2>1. pc' = "wave"
    BY <1>2, StartSteps DEF Execute, Resume, Enter
  <2> QED
    BY <2>1 DEF InterrupterKnown
<1>3. CASE InWaves /\ pc' # "idle"
  <2>1. CASE BeginWave
    <3>1. /\ pc' \in {"wave", "tasks"}
          /\ \A n \in Node : task'[n] \in {Running, NoResult}
      BY <2>1 DEF BeginWave
    <3> QED
      BY <3>1 DEF InterrupterKnown, Running, NoResult, Interrupted
  <2>2. ASSUME NEW n \in Node, TaskInterrupts(n)
        PROVE  InterrupterKnown'
    BY <1>a, <2>2 DEF TaskInterrupts, InterrupterKnown
  <2>3. ASSUME NEW m \in Node, TaskSettles(m)
        PROVE  InterrupterKnown'
    <3>1. /\ pc = "tasks" /\ pc' = "tasks" /\ UNCHANGED interrupter /\ task[m] = Running
          /\ \E r \in {Failed} \cup {Complete(o) : o \in Returns[m]} : task' = [task EXCEPT ![m] = r]
      BY <2>3 DEF TaskSettles
    <3>2. \A n \in Node : n # m => task'[n] = task[n]
      BY <1>a, <3>1
    <3>3. task'[m] # Interrupted
      BY <1>a, <3>1 DEF Failed, Complete, Interrupted
    <3> QED
      BY <3>1, <3>2, <3>3 DEF InterrupterKnown, Running, Interrupted
  <2>4. CASE CatchInterrupt
    <3>1. /\ pc = "tasks" /\ pc' = "interruptWave" /\ UNCHANGED <<interrupter, results>>
          /\ \E n \in Node : task[n] = Interrupted
      BY <2>4 DEF CatchInterrupt
    <3>2. interrupter \in Node /\ task[interrupter] = Interrupted
      BY <3>1 DEF InterrupterKnown
    <3>3. ~HasResult(interrupter)
      BY <3>1, <3>2 DEF FreshInv, TasksAreNew, Interrupted, NoResult
    <3> QED
      BY <3>1, <3>2, <3>3 DEF InterrupterKnown, HasResult
  <2>5. CASE CommitWave \/ SaveWave \/ EnterCycles
    BY <2>5 DEF CommitWave, SaveWave, EnterCycles, InterrupterKnown
  <2>6. CASE UNCHANGED vars
    BY <2>6 DEF vars, control, InterrupterKnown, HasResult
  <2> QED
    BY <1>3, <2>1, <2>2, <2>3, <2>4, <2>5, <2>6, WaveSteps
<1>4. CASE InCycles /\ pc' # "idle"
  <2>1. CASE CycleNodeInterrupts
    <3>1. CycleNode \in Node /\ pc' = "interruptCycle" /\ interrupter' = CycleNode
      BY <2>1, BackEdgeTypes DEF CycleNodeInterrupts, IInv, TypeInv, CycleIsPlaced, CycleNode, CurrentEdge
    <3> QED
      BY <3>1 DEF InterrupterKnown
  <2>2. CASE BeginIteration \/ NextEdge \/ CycleNodeCompletes \/ SaveCycle
    BY <2>2 DEF BeginIteration, NextEdge, CycleNodeCompletes, SaveCycle, InterrupterKnown
  <2>3. CASE UNCHANGED vars
    BY <2>3 DEF vars, control, InterrupterKnown, HasResult
  <2> QED
    BY <1>4, <2>1, <2>2, <2>3, CycleSteps
<1> QED
  BY <1>1, <1>2, <1>3, <1>4, Places DEF IInv

(* How a call comes to return, and with what.                              *)
LEMMA EndSteps ==
  ASSUME IInv, [Next]_vars, pc' = "idle"
  PROVE  \/ UNCHANGED vars
         \/ \E i \in DOMAIN store : ResumeFails(i)
         \/ FailWave \/ CycleNodeFails
         \/ SaveInterruptedWave \/ SaveInterruptedCycle
         \/ SaveInterruptedWaveFails /\ result' = "Interrupted"
         \/ (SaveWaveFails \/ SaveCycleFails) /\ result' = "Failed"
         \/ SaveThenFail \/ Finish \/ Crash
<1>1. CASE UNCHANGED vars
  BY <1>1
<1>2. CASE pc = "idle" /\ ~UNCHANGED vars
  BY <1>2 DEF Next, WaveStep, CycleStep, Execute, ResumeAny, Resume, Enter,
     BeginWave, TaskSettles, TaskInterrupts, CatchInterrupt, CommitWave, FailWave, SaveWave,
     SaveInterruptedWave, SaveWaveFails, SaveInterruptedWaveFails, EnterCycles,
     BeginIteration, NextEdge, CycleNodeCompletes, CycleNodeFails, CycleNodeInterrupts,
     SaveCycle, SaveInterruptedCycle, SaveCycleFails, SaveThenFail, Finish, Crash
<1>3. CASE pc # "idle"
  BY <1>3 DEF Next, vars, WaveStep, CycleStep, Execute, ResumeAny, Resume, ResumeFails, NewCall,
     BeginWave, TaskSettles, TaskInterrupts, CatchInterrupt, CommitWave, SaveWave,
     SaveWaveFails, SaveInterruptedWaveFails, EnterCycles, BeginIteration, NextEdge,
     CycleNodeCompletes, CycleNodeInterrupts, SaveCycle, SaveCycleFails, Return
<1> QED
  BY <1>1, <1>2, <1>3

(* The checkpoint that a call saves when it is interrupted holds its       *)
(* results and the node to continue with.                                  *)
LEMMA InterruptSaved ==
  ASSUME IInv, InterrupterKnown, UNCHANGED results, NEW step \in Nat, NEW cycle \in Nat,
         Save("interrupt", step, cycle), pc \in {"interruptWave", "interruptCycle"},
         cycle = 0 => pc = "interruptWave"
  PROVE  InterruptedIsDurable'
<1> DEFINE cp == NewCheckpoint("interrupt", step, cycle)
<1>1. store' # <<>> /\ store'[Len(store')] = cp
  BY Appended DEF IInv
<1>2. cp.source = "interrupt" /\ cp.results = MapNodeResults(results') /\ cp.node = interrupter
      /\ cp.cycle = cycle
  BY DEF NewCheckpoint
<1>3. interrupter \in Node /\ (cycle = 0 => ~HasResult(interrupter))
  BY DEF InterrupterKnown
<1>4. results \in [Node -> NodeResult]
  BY DEF IInv, TypeInv, TypeOK
<1>5. cycle = 0 => MapNodeResults(results)[interrupter].status = "None"
  BY <1>3, <1>4, MappedResults DEF HasResult
<1> HIDE DEF cp
<1> QED
  BY <1>1, <1>2, <1>3, <1>5 DEF InterruptedIsDurable

LEMMA InterruptedNext ==
  ASSUME OnlyFaultsReject, IInv, Straight => NewestInv, InterrupterKnown,
         InterruptedIsDurable, [Next]_vars
  PROVE  InterruptedIsDurable'
<1>a. faults \in Nat /\ edge \in Nat \ {0} /\ iteration \in Nat /\ wave - 1 \in Nat
  BY DEF IInv, TypeInv, TypeOK
<1>1. CASE pc' # "idle"
  BY <1>1, Inductive DEF IInv, ProgressInv, CallIsRunning, InterruptedIsDurable
<1>2. CASE pc' = "idle"
  <2>1. CASE UNCHANGED vars
    BY <2>1 DEF vars, bounds, InterruptedIsDurable
  <2>2. CASE SaveInterruptedWave
    BY <1>a, <2>2, InterruptSaved DEF SaveInterruptedWave
  <2>3. CASE SaveInterruptedCycle
    BY <1>a, <2>3, InterruptSaved DEF SaveInterruptedCycle
  <2>4. CASE SaveInterruptedWaveFails
    BY <2>4, RejectIsFault DEF SaveInterruptedWaveFails, InterruptedIsDurable
  <2>5. CASE result' # "Interrupted"
    BY <2>5 DEF InterruptedIsDurable
  <2>6. \/ \E i \in DOMAIN store : ResumeFails(i)
        \/ FailWave \/ CycleNodeFails \/ SaveThenFail \/ Finish \/ Crash
        => result' # "Interrupted"
    BY DEF ResumeFails, FailWave, CycleNodeFails, SaveThenFail, Finish, Crash, Return
  <2> QED
    BY <1>2, <2>1, <2>2, <2>3, <2>4, <2>5, <2>6, EndSteps
<1> QED
  BY <1>1, <1>2

(* The invariants that hold of every session, and of one without back      *)
(* edges.                                                                  *)
SessionInv == IInv /\ FreshInv /\ FailureInv /\ InterrupterKnown /\ (Straight => NewestInv)

LEMMA SessionInit == Init => SessionInv
<1> SUFFICES ASSUME Init PROVE SessionInv
  OBVIOUS
<1>1. IInv /\ FreshInv
  BY TypeInit, ProgressInit, FreshInit DEF IInv
<1>2. FailureInv /\ InterrupterKnown
  BY DEF Init, FailureInv, NoFailureRecorded, NoFailureInside, InterrupterKnown
<1>3. NewestInv
  BY DEF Init, NewestInv, LatestIsNewest, StepsGrow, StepsAreCovered, PastLatest, InWaves,
     NothingBeforeFirstCall
<1> QED
  BY <1>1, <1>2, <1>3 DEF SessionInv

LEMMA SessionNext == SessionInv /\ [Next]_vars => SessionInv'
<1> SUFFICES ASSUME SessionInv, [Next]_vars PROVE SessionInv'
  OBVIOUS
<1>1. IInv' /\ FreshInv' /\ FailureInv' /\ InterrupterKnown'
  BY Inductive, FreshNext, FailureNext, InterrupterNext DEF SessionInv, IInv
<1>2. Straight => NewestInv'
  BY NewestNext DEF SessionInv
<1>3. Straight' <=> Straight
  BY DEF Straight
<1> QED
  BY <1>1, <1>2, <1>3 DEF SessionInv

(* A call that reports Interrupted has left a checkpoint of exactly the    *)
(* results it returned, which names the node to continue with, unless the  *)
(* store failed.                                                           *)
THEOREM InterruptsDurable == OnlyFaultsReject => (Spec => []InterruptedIsDurable)
<1> SUFFICES ASSUME OnlyFaultsReject PROVE Spec => []InterruptedIsDurable
  OBVIOUS
<1>1. Init => InterruptedIsDurable
  BY DEF Init, InterruptedIsDurable
<1>2. SessionInv /\ InterruptedIsDurable /\ [Next]_vars => InterruptedIsDurable'
  BY InterruptedNext DEF SessionInv
<1> QED
  BY <1>1, <1>2, SessionInit, SessionNext, PTL DEF Spec

-----------------------------------------------------------------------------
(* Causes of failure.                                                      *)

\* No node can be skipped: each one with incoming edges has one without a
\* condition.
NeverSkips ==
  \A n \in Node : (\E e \in Edge : e.to = n) => \E e \in Edge : e.to = n /\ ~e.conditional

NothingSkipped ==
  /\ \A n \in Node : results[n] # Skipped
  /\ \A i \in DOMAIN store : Restorable(store[i])

LEMMA NothingSkippedNext ==
  ASSUME NeverSkips, IInv, NothingSkipped, [Next]_vars
  PROVE  NothingSkipped'
<1>a. /\ results \in [Node -> NodeResult] /\ task \in [Node -> Task]
      /\ \A i \in DOMAIN store : store[i] \in Checkpoint
  BY DEF IInv, TypeInv, TypeOK
<1>1. \A i \in DOMAIN store' : Restorable(store'[i])
  <2>1. CASE UNCHANGED store
    BY <2>1 DEF NothingSkipped
  <2>2. ASSUME NEW source \in {"loop", "interrupt"}, NEW step \in Nat, NEW cycle \in Nat,
               Save(source, step, cycle)
        PROVE  \A i \in DOMAIN store' : Restorable(store'[i])
    <3>1. Restorable(NewCheckpoint(source, step, cycle))
      BY <1>a, MappedStatus DEF Restorable, NewCheckpoint, NothingSkipped
    <3> QED
      BY <2>2, <3>1, Appended DEF NothingSkipped, IInv
  <2> QED
    BY <2>1, <2>2, StoreSteps DEF IInv
<1>2. \A n \in Node : results'[n] # Skipped
  <2>1. CASE results' = Empty
    BY <2>1 DEF Empty, NoResult, Skipped
  <2>2. ASSUME NEW i \in DOMAIN store, Resume(i) \/ ResumeFails(i)
        PROVE  \A n \in Node : results'[n] # Skipped
    BY <1>a, <2>2, RestoredStatus DEF Resume, ResumeFails, Enter
  <2>3. CASE BeginWave
    <3>1. \A n \in Node : ~ShouldSkip(n)
      BY DEF NeverSkips, ShouldSkip
    <3>2. UNCHANGED results
      <4>1. \A n \in PendingWaveNodes : n \in WaveNodes(wave)
        BY DEF PendingWaveNodes
      <4>2. wave \in DOMAIN Waves
        BY <2>3, WavesAssumption DEF BeginWave, IInv, TypeInv, TypeOK
      <4>3. PendingWaveNodes \subseteq Node
        BY <4>1, <4>2, WavesAssumption DEF WaveNodes
      <4>4. PendingWaveNodes \ {n \in PendingWaveNodes : ~ShouldSkip(n)} = {}
        BY <3>1, <4>3
      <4>5. results' = [n \in Node |-> results[n]]
        BY <2>3, <4>4 DEF BeginWave
      <4> QED
        BY <1>a, <4>5
    <3> QED
      BY <3>2 DEF NothingSkipped
  <2>4. CASE CommitWave \/ FailWave
    <3>1. \A n \in Node : task[n] # Skipped
      BY <1>a DEF Task, Skipped, NoResult, Running, Interrupted, Failed, Complete
    <3>2. \A n \in Node : results'[n] \in {results[n], task[n]}
      BY <2>4 DEF CommitWave, FailWave
    <3> QED
      BY <3>1, <3>2 DEF NothingSkipped
  <2>5. CASE CycleNodeCompletes
    <3>1. \E o \in Returns[CycleNode] : results' = [results EXCEPT ![CycleNode] = Complete(o)]
      BY <2>5 DEF CycleNodeCompletes
    <3> QED
      BY <1>a, <3>1 DEF NothingSkipped, Complete, Skipped
  <2>6. CASE CycleNodeFails
    <3>1. results' = [results EXCEPT ![CycleNode] = Failed]
      BY <2>6 DEF CycleNodeFails
    <3> QED
      BY <1>a, <3>1 DEF NothingSkipped, Failed, Skipped
  <2>7. CASE UNCHANGED results
    BY <2>7 DEF NothingSkipped
  <2>8. CASE pc' # "idle"
    BY <2>1, <2>2, <2>3, <2>4, <2>5, <2>7, <2>8, ResultSteps
  <2>9. CASE pc' = "idle"
    <3>1. SaveInterruptedWave \/ SaveInterruptedCycle \/ SaveInterruptedWaveFails \/ SaveWaveFails
          \/ SaveCycleFails \/ SaveThenFail \/ Finish \/ UNCHANGED vars => UNCHANGED results
      BY DEF SaveInterruptedWave, SaveInterruptedCycle, SaveInterruptedWaveFails, SaveWaveFails,
         SaveCycleFails, SaveThenFail, Finish, vars
    <3>2. Crash => results' = Empty
      BY DEF Crash
    <3> QED
      BY <2>1, <2>2, <2>4, <2>6, <2>7, <2>9, <3>1, <3>2, EndSteps
  <2> QED
    BY <2>8, <2>9
<1> QED
  BY <1>1, <1>2 DEF NothingSkipped

LEMMA FailsForCauseNext ==
  ASSUME OnlyFaultsReject, SessionInv, NothingSkipped, FailsForCause, [Next]_vars
  PROVE  FailsForCause'
<1>a. /\ faults \in Nat /\ results \in [Node -> NodeResult]
  BY DEF SessionInv, IInv, TypeInv, TypeOK
<1>1. CASE pc' # "idle"
  BY <1>1, SessionNext DEF SessionInv, IInv, ProgressInv, CallIsRunning, FailsForCause
<1>2. CASE pc' = "idle"
  <2>1. CASE UNCHANGED vars
    BY <2>1 DEF vars, bounds, FailsForCause
  <2>2. ASSUME NEW i \in DOMAIN store, ResumeFails(i)
        PROVE  FALSE
    BY <2>2 DEF ResumeFails, NothingSkipped, SessionInv, FailureInv, NoFailureRecorded
  <2>3. CASE FailWave
    <3>1. wave \in DOMAIN Waves /\ Waves[wave] \in Seq(Node)
      BY <2>3, WavesAssumption
         DEF FailWave, SessionInv, IInv, ProgressInv, WaveIsAccountedFor, InWaves
    <3>2. PICK i \in DOMAIN Waves[wave] :
            /\ task[Waves[wave][i]] = Failed
            /\ results' = [n \in Node |->
                 IF task[n] # NoResult /\ \E j \in DOMAIN Waves[wave] : j <= i /\ Waves[wave][j] = n
                 THEN task[n] ELSE results[n]]
      BY <2>3 DEF FailWave
    <3>3. Waves[wave][i] \in Node /\ i <= i
      BY <3>1
    <3>4. results'[Waves[wave][i]] = Failed
      BY <3>2, <3>3 DEF Failed, NoResult
    <3> QED
      BY <3>3, <3>4 DEF FailsForCause
  <2>4. CASE CycleNodeFails
    <3>1. CycleNode \in Node
      BY <2>4, BackEdgeTypes DEF CycleNodeFails, SessionInv, IInv, TypeInv, CycleIsPlaced,
         CycleNode, CurrentEdge
    <3>2. results'[CycleNode] = Failed
      BY <1>a, <2>4, <3>1 DEF CycleNodeFails
    <3> QED
      BY <3>1, <3>2 DEF FailsForCause
  <2>5. CASE SaveWaveFails \/ SaveCycleFails
    BY <2>5, RejectIsFault DEF SaveWaveFails, SaveCycleFails, SessionInv, FailsForCause
  <2>6. CASE SaveThenFail
    BY <1>a, <2>6 DEF SaveThenFail, FailsForCause
  <2>7. CASE SaveInterruptedWave \/ SaveInterruptedCycle \/ Finish \/ Crash
             \/ result' = "Interrupted"
    BY <2>7 DEF SaveInterruptedWave, SaveInterruptedCycle, Finish, Crash, Return, FailsForCause
  <2>8. IInv
    BY DEF SessionInv
  <2> QED
    BY <1>2, <2>1, <2>2, <2>3, <2>4, <2>5, <2>6, <2>7, <2>8, EndSteps
<1> QED
  BY <1>1, <1>2

(* A graph without skipped nodes fails only because a node failed or the   *)
(* store did, whatever was interrupted, saved, lost and resumed before.    *)
(* Both hypotheses are needed: see the findings on repeated versions and   *)
(* on checkpoints of skipped nodes.                                        *)
THEOREM FailuresHaveCause == NeverSkips /\ OnlyFaultsReject => (Spec => []FailsForCause)
<1> SUFFICES ASSUME NeverSkips, OnlyFaultsReject PROVE Spec => []FailsForCause
  OBVIOUS
<1>1. Init => FailsForCause /\ NothingSkipped
  BY DEF Init, FailsForCause, NothingSkipped, Empty, NoResult, Skipped
<1>2. SessionInv /\ FailsForCause /\ NothingSkipped /\ [Next]_vars => FailsForCause' /\ NothingSkipped'
  BY FailsForCauseNext, NothingSkippedNext DEF SessionInv
<1> QED
  BY <1>1, <1>2, SessionInit, SessionNext, PTL DEF Spec

-----------------------------------------------------------------------------
(* Branches.                                                               *)

\* ShouldSkip on given results.
SkippedBy(rs, n) ==
  LET incoming == {e \in Edge : e.to = n}
  IN  /\ incoming # {}
      /\ \A e \in incoming :
           /\ e.conditional
           /\ ~(/\ rs[e.from] # NoResult
                /\ rs[e.from].status # "Skipped"
                /\ rs[e.from].output \in e.accepts)

\* Skipped and completed nodes as the conditions on the results say.
Agree(rs) ==
  \A n \in Node :
    /\ rs[n] = Skipped => SkippedBy(rs, n)
    /\ rs[n].status = "Complete" => ~SkippedBy(rs, n)

LEMMA ShouldSkipIs == \A n \in Node : ShouldSkip(n) <=> SkippedBy(results, n)
BY DEF ShouldSkip, SkippedBy, HasResult

(* The decision about a node depends on the results of its dependencies.   *)
LEMMA SameDecision ==
  ASSUME NEW rs, NEW ss, NEW n, \A e \in Edge : e.to = n => rs[e.from] = ss[e.from]
  PROVE  SkippedBy(rs, n) <=> SkippedBy(ss, n)
BY DEF SkippedBy

(* The decisions made so far agree with the results, those about the nodes *)
(* of the current wave that were started too, and so do the decisions a    *)
(* checkpoint records.                                                     *)
BranchesInv ==
  /\ InWaves => Agree(results)
  /\ pc = "tasks" => \A n \in Node : task[n] # NoResult => ~SkippedBy(results, n)
  /\ \A i \in DOMAIN store :
       Restorable(store[i]) => Agree(RestoreNodeResults(store[i]))

(* What is saved without a skipped node is restored as it was.             *)
LEMMA RoundTrip ==
  ASSUME NEW rs \in [Node -> NodeResult], NEW cp, cp.results = MapNodeResults(rs), Restorable(cp)
  PROVE  RestoreNodeResults(cp) = rs
<1>1. \A w \in DOMAIN Waves : WaveNodes(w) \subseteq Node
  BY WavesAssumption DEF WaveNodes
<1>2. RestoreNodeResults(cp) = [n \in Node |-> RestoreNodeResult(cp.results[n])]
  BY <1>1 DEF RestoreNodeResults, Restorable
<1>3. ASSUME NEW n \in Node
      PROVE  RestoreNodeResult(cp.results[n]) = rs[n]
  <2>1. rs[n] \in NodeResult /\ rs[n] # Skipped
    BY MappedStatus DEF Restorable
  <2>2. cp.results[n] = [status |-> CheckpointStatus(rs[n]), output |-> rs[n].output]
    BY DEF MapNodeResults
  <2>3. CASE rs[n] = NoResult
    BY <2>2, <2>3 DEF CheckpointStatus, RestoreNodeResult, NoResult
  <2>4. CASE rs[n] = Failed
    BY <2>2, <2>4 DEF CheckpointStatus, RestoreNodeResult, Failed
  <2>5. ASSUME NEW o \in Output, rs[n] = Complete(o)
        PROVE  RestoreNodeResult(cp.results[n]) = rs[n]
    BY <2>2, <2>5 DEF CheckpointStatus, RestoreNodeResult, Complete
  <2> QED
    BY <2>1, <2>3, <2>4, <2>5 DEF NodeResult
<1> QED
  BY <1>2, <1>3

(* Results that keep those of the dependencies keep the decision, for the  *)
(* nodes that have a result and for those of the current wave.             *)
LEMMA DecisionsStay ==
  ASSUME IInv, InWaves, wave \in DOMAIN Waves,
         \A m \in Node : HasResult(m) => results'[m] = results[m],
         NEW n \in Node, HasResult(n) \/ n \in WaveNodes(wave)
  PROVE  SkippedBy(results', n) <=> SkippedBy(results, n)
<1>1. \A e \in Edge : e.to = n => e.from \in Done
  <2>1. CASE HasResult(n)
    BY <2>1, WavesAssumption DEF IInv, ProgressInv, ResultsClosed, DownClosed, Done
  <2>2. CASE n \in WaveNodes(wave)
    BY <2>2, DependenciesHaveResults DEF IInv, ProgressInv
  <2> QED
    BY <2>1, <2>2
<1>2. \A e \in Edge : e.to = n => results'[e.from] = results[e.from]
  BY <1>1 DEF Done
<1> QED
  BY <1>2, SameDecision

LEMMA BranchesNext ==
  ASSUME BackEdge = <<>>, IInv, FreshInv, BranchesInv, [Next]_vars
  PROVE  BranchesInv'
<1>a. /\ results \in [Node -> NodeResult] /\ task \in [Node -> Task]
      /\ \A i \in DOMAIN store : store[i] \in Checkpoint
      /\ wave \in Nat \ {0}
  BY DEF IInv, TypeInv, TypeOK
<1>1. \A i \in DOMAIN store' : Restorable(store'[i]) => Agree(RestoreNodeResults(store'[i]))
  <2>1. CASE UNCHANGED store
    BY <2>1 DEF BranchesInv
  <2>2. ASSUME pc \in SavePoint, NEW source \in {"loop", "interrupt"}, NEW step \in Nat,
               NEW cycle \in Nat, Save(source, step, cycle)
        PROVE  \A i \in DOMAIN store' : Restorable(store'[i]) => Agree(RestoreNodeResults(store'[i]))
    <3> DEFINE cp == NewCheckpoint(source, step, cycle)
    <3>1. pc \in {"saveWave", "interruptWave"}
      BY <2>2 DEF SavePoint, IInv, TypeInv, CycleIsPlaced
    <3>2. Agree(results)
      BY <3>1 DEF BranchesInv, InWaves
    <3>3. cp.results = MapNodeResults(results)
      BY DEF NewCheckpoint
    <3> HIDE DEF cp
    <3>4. Restorable(cp) => RestoreNodeResults(cp) = results
      BY <1>a, <3>3, RoundTrip
    <3>5. Restorable(cp) => Agree(RestoreNodeResults(cp))
      BY <3>2, <3>4
    <3>6. \A i \in DOMAIN store' : store'[i] = cp \/ (i \in DOMAIN store /\ store'[i] = store[i])
      BY <2>2, Appended DEF IInv, cp
    <3> QED
      BY <3>5, <3>6 DEF BranchesInv
  <2> QED
    BY <2>1, <2>2, StoreSteps DEF IInv
<1>2. CASE pc' = "idle" \/ InCycles'
  BY <1>1, <1>2 DEF BranchesInv, InWaves, InCycles
<1>3. CASE pc = "idle" /\ pc' # "idle"
  <2>1. CASE Execute
    <3>1. pc' = "wave" /\ \A n \in Node : results'[n] = NoResult
      BY <2>1 DEF Execute, Enter, Empty
    <3>2. Agree(results')
      BY <3>1 DEF Agree, NoResult, Skipped
    <3> QED
      BY <1>1, <3>1, <3>2 DEF BranchesInv
  <2>2. ASSUME NEW i \in DOMAIN store, Resume(i)
        PROVE  BranchesInv'
    <3>1. pc' = "wave" /\ results' = RestoreNodeResults(store[i]) /\ Restorable(store[i])
      BY <2>2 DEF Resume, Enter
    <3> QED
      BY <1>1, <3>1 DEF BranchesInv
  <2> QED
    BY <1>3, <2>1, <2>2, StartSteps
<1>4. CASE InWaves /\ pc' # "idle"
  <2>a. Agree(results)
    BY <1>4 DEF BranchesInv
  <2>b. \A m \in Node : HasResult(m) => results'[m] = results[m]
    BY <1>4, WaveKeeps
  <2>1. CASE BeginWave
    <3> DEFINE toRun == {m \in PendingWaveNodes : ~ShouldSkip(m)}
    <3>1. /\ pc = "wave" /\ wave <= Len(Waves)
          /\ results' = [m \in Node |-> IF m \in PendingWaveNodes \ toRun THEN Skipped ELSE results[m]]
          /\ task' = [m \in Node |-> IF m \in toRun THEN Running ELSE NoResult]
      BY <2>1 DEF BeginWave
    <3>2. wave \in DOMAIN Waves
      BY <1>a, <3>1, WavesAssumption
    <3>3. \A n \in PendingWaveNodes : n \in Node /\ n \in WaveNodes(wave)
      BY <3>1, PendingAreNew
    <3>4. ASSUME NEW n \in Node, HasResult(n) \/ n \in WaveNodes(wave)
          PROVE  SkippedBy(results', n) <=> ShouldSkip(n)
      BY <1>4, <2>b, <3>2, <3>4, DecisionsStay, ShouldSkipIs
    <3>5. Agree(results')
      <4> SUFFICES ASSUME NEW n \in Node
                   PROVE  /\ results'[n] = Skipped => SkippedBy(results', n)
                          /\ results'[n].status = "Complete" => ~SkippedBy(results', n)
        BY DEF Agree
      <4>1. CASE n \in PendingWaveNodes \ toRun
        <5>1. results'[n] = Skipped /\ SkippedBy(results', n)
          BY <3>1, <3>3, <3>4, <4>1
        <5> QED
          BY <5>1 DEF Skipped
      <4>2. CASE n \notin PendingWaveNodes \ toRun
        <5>1. results'[n] = results[n]
          BY <3>1, <4>2
        <5>2. HasResult(n) => (SkippedBy(results', n) <=> SkippedBy(results, n))
          BY <3>4, ShouldSkipIs
        <5>3. ~HasResult(n) => results[n] # Skipped /\ results[n].status # "Complete"
          BY DEF HasResult, NoResult, Skipped
        <5> QED
          BY <2>a, <5>1, <5>2, <5>3 DEF Agree
      <4> QED
        BY <4>1, <4>2
    <3>6. ASSUME NEW n \in Node, task'[n] # NoResult
          PROVE  ~SkippedBy(results', n)
      BY <3>1, <3>3, <3>4, <3>6
    <3> QED
      BY <1>1, <3>5, <3>6 DEF BranchesInv
  <2>2. CASE CommitWave
    <3>1. /\ pc = "tasks" /\ pc' = "saveWave"
          /\ results' = [n \in Node |-> IF task[n] = NoResult THEN results[n] ELSE task[n]]
          /\ \A n \in Node : task[n] # Interrupted
      BY <2>2 DEF CommitWave, WaveSettled
    <3>2. wave \in DOMAIN Waves /\ \A n \in Node : task[n] # NoResult => n \in WaveNodes(wave)
      BY <1>4, <3>1 DEF IInv, ProgressInv, WaveIsAccountedFor
    <3>3. Agree(results')
      <4> SUFFICES ASSUME NEW n \in Node
                   PROVE  /\ results'[n] = Skipped => SkippedBy(results', n)
                          /\ results'[n].status = "Complete" => ~SkippedBy(results', n)
        BY DEF Agree
      <4>1. CASE task[n] # NoResult
        <5>1. ~SkippedBy(results, n)
          BY <3>1, <4>1 DEF BranchesInv
        <5>2. ~SkippedBy(results', n)
          BY <1>4, <2>b, <3>2, <4>1, <5>1, DecisionsStay
        <5>3. results'[n] # Skipped
          BY <1>a, <3>1, <4>1 DEF Task, Skipped, NoResult, Running, Interrupted, Failed, Complete
        <5> QED
          BY <5>2, <5>3
      <4>2. CASE task[n] = NoResult
        <5>1. results'[n] = results[n]
          BY <3>1, <4>2
        <5>2. HasResult(n) => (SkippedBy(results', n) <=> SkippedBy(results, n))
          BY <1>4, <2>b, <3>2, DecisionsStay
        <5>3. ~HasResult(n) => results[n] # Skipped /\ results[n].status # "Complete"
          BY DEF HasResult, NoResult, Skipped
        <5> QED
          BY <2>a, <5>1, <5>2, <5>3 DEF Agree
      <4> QED
        BY <4>1, <4>2
    <3> QED
      BY <1>1, <3>1, <3>3 DEF BranchesInv
  <2>3. ASSUME NEW m \in Node, TaskSettles(m) \/ TaskInterrupts(m)
        PROVE  BranchesInv'
    <3>1. UNCHANGED <<results, pc>> /\ pc = "tasks" /\ task[m] = Running
      BY <2>3 DEF TaskSettles, TaskInterrupts
    <3>2. \A n \in Node : n # m => task'[n] = task[n]
      BY <1>a, <2>3 DEF TaskSettles, TaskInterrupts
    <3>3. \A n \in Node : task'[n] # NoResult => task[n] # NoResult
      BY <3>1, <3>2 DEF Running, NoResult
    <3> QED
      BY <1>1, <2>a, <3>1, <3>3 DEF BranchesInv
  <2>4. CASE CatchInterrupt \/ SaveWave
    <3>1. UNCHANGED results /\ pc' # "tasks"
      BY <2>4 DEF CatchInterrupt, SaveWave
    <3> QED
      BY <1>1, <2>a, <3>1 DEF BranchesInv
  <2>5. CASE EnterCycles
    BY <1>2, <2>5 DEF EnterCycles, InCycles
  <2>6. CASE UNCHANGED vars
    BY <1>1, <2>a, <2>6 DEF vars, control, BranchesInv
  <2> QED
    BY <1>4, <2>1, <2>2, <2>3, <2>4, <2>5, <2>6, WaveSteps
<1>5. CASE InCycles /\ pc' # "idle"
  BY <1>2, <1>5, CycleSteps
<1> QED
  BY <1>2, <1>3, <1>4, <1>5, Places DEF IInv

(* Without back edges, a node was skipped exactly when its conditions say  *)
(* so on the results as they stand in any later wave, even when it was     *)
(* decided in an earlier call of the session.                              *)
THEOREM Branches == BackEdge = <<>> => (Spec => []BranchesFollowConditions)
<1> SUFFICES ASSUME BackEdge = <<>> PROVE Spec => []BranchesFollowConditions
  OBVIOUS
<1>1. Init => BranchesInv
  BY DEF Init, BranchesInv, InWaves
<1>2. SessionInv /\ BranchesInv /\ [Next]_vars => BranchesInv'
  BY BranchesNext DEF SessionInv
<1>3. BranchesInv => BranchesFollowConditions
  BY ShouldSkipIs DEF BranchesInv, BranchesFollowConditions, Agree
<1> QED
  BY <1>1, <1>2, <1>3, SessionInit, SessionNext, PTL DEF Spec

=============================================================================
