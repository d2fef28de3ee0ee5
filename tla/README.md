# TLA+ models of obsku

TLA+ modules that model the core of the obsku agent framework
(`src/packages/framework` and the packages around it), TLC configurations that
check them on small instances, and proofs checked by TLAPS. `PROJECT.json`
lists components, runs, hazards, findings and theorems, and maps every modelled
definition to the lines it stands for. Paths below are relative to
`src/packages/` unless they start with `src/`.

Contents: 1 the system · 2 the modules · 3 the runs · 4 findings · 5 proofs ·
6 what is assumed and left out · 7 what could come next.

## 1. The system

obsku runs LLM agents: an agent loops over calls of a model and of tools, and
agents are combined into graphs whose nodes are agents, functions or graphs.

| Part | State it keeps | Operations | Talks to | Modelled in |
|---|---|---|---|---|
| Graph builder (`framework/src/graph/builder.ts`, `toposort.ts`, `graph-traversal.ts`) | none; a `Graph` value | `graph`, `toposort`, reachability | users, multi-agent, the executor | `GraphBuilder` |
| Graph executor (`graph/executor.ts`, `wave-executor.ts`, `cycle-executor.ts`, `checkpoint-*.ts`, `resume.ts`) | results of the nodes of one call; checkpoints in a store | `executeGraph`, `resumeGraph` | node executors, checkpoint store, callbacks | `GraphExecutor`, `GraphRun` |
| Node executors (`graph/node-executor.ts`, `graph/node-execution/`) | none | `executeNode`: function, agent or nested graph | agents, the executor itself | black boxes of `GraphExecutor` |
| Checkpoint stores (`framework/src/checkpoint`, `checkpoint-sqlite`, `checkpoint-postgres`, `checkpoint-redis`) | sessions, messages, checkpoints, facts, entities | create/update/delete session, add/list messages, save/list/latest checkpoint, fork | databases | `RedisStore`; order of checkpoints in `GraphExecutor`, messages in `AgentSession` |
| Background tasks (`framework/src/background`, `agent/background-launch.ts`) | the task table of an agent | `start`, `getResult`, `getCompletedSince`, `cleanup` | tool functions, timers, the agent loop | `TaskManager` |
| Agent loop (`framework/src/agent/agent-loop`, `llm-phase.ts`, `stream-loop.ts`, `tool-dispatch.ts`, `sync-execution*.ts`) | messages, usage, last text, time of the last notification check | one iteration: notifications, context window, model call, tools, handoff | providers, tools, task manager, event bus | `AgentSession` |
| Run program and persistence (`agent/run-program`, `agent/persistence*.ts`) | history of a session | load, run, persist | checkpoint store, memory | `AgentSession` |
| Context window (`agent/context-window.ts`, `prune.ts`, `compaction.ts`) | token usage | prune, compact | the loop | `Conversation` |
| Event bus and its users (`framework/src/services/event-bus.ts`, `agent/index.ts`, `adapters/agent-server`) | a sliding buffer per subscription, a registry by session; the stream of a request | publish, subscribe, destroy, forward, send | loop, `onEvent`, HTTP clients | `EventBus`, `AgentEvents` |
| Code interpreter sessions (`tools/code-interpreter`, `-wasm`, `-agentcore`) | sessions with a process, a WASM context or a remote session | create, execute, destroy | child processes, runtimes, a remote service | `CodeSession` |
| Handoff | the messages at the time of the transfer | transfer | the agent loop | an action of `AgentSession` |
| Agent factory, multi-agent, memory, plugins, guardrails, telemetry, MCP, remote agents, providers, file/search/shell tools, studio, CLI, benchmark | little or none | conversion, I/O, user interface | external services | not, see 6 |

How the parts interact: a run (`agent.run`) takes the bus of its session,
loads the session's messages from the checkpoint store, and enters the loop.
The loop publishes events, starts background tasks in the agent's task manager
and asks it for completed ones, manages its messages through the context
window, and at its end the new messages are stored. A graph runs agents as
nodes and keeps its own checkpoints in the same store. An adapter turns a
request into a run and the run's events into a stream.

What is hard, and what correctness means there:

* **Graph execution.** Nodes of a wave run concurrently, may interrupt, fail or
  never answer; checkpoints are saved between waves and iterations, the process
  may stop anywhere, and a later call resumes from a checkpoint. Correct: no
  node runs before its dependencies have results, no result is recomputed or
  lost in the waves, branches agree with their conditions even when the
  decision was made in an earlier call, Interrupted means resumable, Failed has
  a cause, Complete is total.
* **Checkpoints.** Version and order are derived from what is already stored.
  Correct: the latest checkpoint is the newest one, versions do not repeat.
* **Builder.** Correct: rejected exactly when an order of execution does not
  exist, one connected piece, and cycles that run from target to source.
* **Background tasks.** A race of an answer with a timer, and a table shared by
  the concurrent runs of one agent. Correct: settled once, told to the runs
  that should know, removed only when that is safe, places are freed.
* **Agent loop, persistence, context window.** Tool calls and their results
  must stay paired in what is sent and in what is stored, through timeouts,
  background tasks, handoffs, pruning, compaction, memory snapshots and partly
  failed saves; and what a run stores is what was said.
* **Event bus.** A subscriber is slow, the buffer slides, the run ends and stops
  its forwarder after a fixed delay, buses of one session are destroyed and
  created, clients go away. Correct: the end of a run is heard, the stream of a
  request ends once and last, observers learn that a run has ended.
* **Redis store.** An operation is a sequence of commands without a
  transaction. Correct: an index names only checkpoints that exist, a deleted
  session is gone, a fork has the past of its checkpoint.
* **Interpreter sessions.** One execution at a time on one process that goes on
  after a timeout, while sessions expire and are destroyed. Correct: output and
  options are the call's own, calls return, processes end.

## 2. The modules

```
GraphBuilder ── GraphBuilderProof
   └── MCGraphBuilder

GraphRun ── GraphRunProof
   ▲ implemented by (Run == INSTANCE GraphRun)
GraphExecutor ── GraphExecutorProof
   └── MCGraphDag, MCGraphCycles

TaskManager ── TaskManagerProof          RedisStore ── RedisStoreProof
   └── MCTaskManager                        └── MCRedisStore

Conversation ── AgentSession ── AgentSessionProof
                   └── MCAgentSession

EventBus ══ AgentEvents ── AgentEventsProof      CodeSession ── CodeSessionProof
 (INSTANCE)    └── MCAgentEvents                    └── MCCodeSession
```

A line is EXTENDS. In every module the mutated forms of its operators (see 3)
stand before the originals and say so.

### GraphBuilder

`graph()` and `toposort()`. The input is chosen once; `ValidationFails` throws
the error of the first validation that applies, in the order of the code
(duplicate id, entry, references, self edges, `maxIterations`, orphans).
`Validate` counts the in-degrees, `TakeWave` is one turn of the `while` of
Kahn's algorithm (edges that occur twice count twice), `DetectCycle` its
`GraphCycleError`. A wave is a set: the code lists its ids in the order of the
node map, and everything that is said of the order of execution holds for any
order within a wave (`Earlier` compares waves). `CycleNodes` is
`getCycleNodes`. What the properties
establish about `waves` and cycles is what `GraphExecutor` assumes of its
constants (`WavesAssumption`); `GraphExecutor` assumes nothing about `cycle`
beyond its type.

### GraphRun

The abstract promise of a session: calls begin from nothing or from a durable
set of results, commit batches of results whose dependencies are there, persist
what they have, end, or die. Two invariants: `ResultsDownClosed` and
`CompleteIsTotal`.

### GraphExecutor

One graph in one session and namespace. Correspondence with the code:

| Variable | Code |
|---|---|
| `pc` | where `executeGraphPhases`, `executeWaveNodes`, `executeCycleIteration` wait; `"idle"` between calls |
| `results`, `resumed`, `wave` | `ctx.results`, `options.resumeFrom !== undefined`, `waveIndex + 1` |
| `task`, `interrupter` | the promises of `Promise.all`, `interruptedNodeId` |
| `edge`, `iteration`, `pos` | the loops of `executeBackEdgeCycles` and `executeCycleIteration` |
| `store` | the checkpoints of session and namespace, in the order of `createdAt` |
| `result` | status of the last `GraphResult`; `"Crashed"` if the process died |
| `traversed` | history variable: iterations in the past of the results |

| Action | Code |
|---|---|
| `Execute`, `Resume`, `ResumeFails` | `executeGraph` up to the first wave, with and without a checkpoint to restore |
| `BeginWave` | `executeWave` up to `Promise.all`: pending nodes, skips, the two early returns |
| `TaskSettles`, `TaskInterrupts` | an executor returns or throws; throws an `InterruptError` |
| `CatchInterrupt`, `SaveInterruptedWave`, `SaveInterruptedWaveFails` | `withInterruptCheckpoint` in a wave; save errors are swallowed |
| `CommitWave`, `FailWave` | the loop over `waveResults` |
| `SaveWave`, `SaveWaveFails` | the completion checkpoint |
| `EnterCycles`, `BeginIteration`, `NextEdge` | `executeBackEdgeCycles` |
| `CycleNodeCompletes`, `CycleNodeFails`, `CycleNodeInterrupts` | a node of an iteration |
| `SaveCycle`, `SaveInterruptedCycle`, `SaveCycleFails` | its checkpoints, and `until` |
| `SaveThenFail` | `onCheckpoint` or `onEvent` throws after the save |
| `Finish` | `toGraphResult` of a complete graph |
| `Crash` | the process dies; the store survives |

Data that the properties do not tell apart is gone: an output is a model value,
edge conditions and `until` predicates are the sets of outputs they accept,
durations, error texts, inputs and events are left out. The conversion of
results to checkpoints and back is kept exactly (`CheckpointStatus`,
`RestoreNodeResult`), since it is where skipped nodes are lost.

### TaskManager

The task table, the functions behind the tasks, and the runs that share them.
`Returns` and `TimesOut` are the two sides of `Promise.race`; the function goes
on after a timeout. `BeginRun` is `initializeLoop`, `Notify` is
`applyBackgroundNotifications`, `EndRun` is `finalizeLoop` with `cleanup`,
`LeaveRun` and `StartRefused` are the ends that skip it. Completed and failed
tasks are one state, since nothing treats them differently. `begun`, `checked`
and `told` are history variables.

### Conversation and AgentSession

`Conversation` has the pure operations on lists of messages: `Prune`
(`prune.ts`: which tool results are replaced by `[pruned]`), `Summarize` and
`Slide` (the two strategies of `compaction.ts`), `HardTruncate` (the fallback
of `context-window.ts` when a strategy throws), and `ToStored`/`FromStored`
(which messages a checkpoint store keeps, and as what they come back). A
message is its role, the ids of its calls and results, which of its results
are pruned, and the kind of its text.

`AgentSession` runs an agent several times in one session. Its message
variables are the three arrays whose identity decides what is stored:

| Variable | Code |
|---|---|
| `messages` | `ctx.messages`, which go to the provider |
| `kept`, `shared` | `params.messages` of `executeAndPersist`, and whether the loop still pushes to that very array |
| `start` | `newMessagesStart` |
| `call`, `settled`, `handed` | the calls of the response being worked on, the sync ones that have a result, the handoffs done |
| `store`, `unsaved` | the session's messages in the store, and what `persistMessagesSequential` has yet to add |
| `pending` | whether a background task may complete (the table itself is `TaskManager`) |
| `said`, `began`, `compacted`, `excused` | history: what was added, the store as it was loaded, whether the start compacted, which calls lost their other half for a reason |

| Action | Code |
|---|---|
| `StartRun` | `run-program`: history, memory snapshot, input, first context window |
| `BeginIteration`, `EndLoop` | `runSingleIteration` up to the request: notifications, context window with `updateOwnedCollections` |
| `Answers`, `CallsTools` | the response: text, nothing, or calls of the three kinds |
| `ToolReturns`, `ToolTimesOut` | sync tools with bounded concurrency and `Effect.timeout` |
| `LaunchTasks`, `Handoff`, `HandedOff` | `startBackgroundTasks`, `executeHandoff`, the early return |
| `ApplyToolResults` | results in the order sync, background, handoff; `stopWhen` |
| `Persist`, `SaveMessage`, `Return` | `persistCheckpointMessages`: the messages to store are built once, then one `addMessage` at a time |
| `RunFails`, `Crash` | provider, target, store or a refused task fails; the process dies |

Token counts decide only *whether* a window is pruned or compacted, so either
may happen at every point where the code asks. Where a list is filtered the
modules use `Filter`, a function that goes through the list, and not
`SelectSeq`, of which nothing can be proved here (only `ToolCallPairs`, of
which no proof needs anything, has it).

### EventBus and AgentEvents

`EventBus` is `services/event-bus.ts` as operators: a subscription is a record
of its bus, the state of its async generator, the event a pending take was
given (`hand`) and the sliding buffer (`queue`); `Offered`, `Taking`, `Shut`,
`Publish`, `Destroy`, `GetSessionEventBus` are what the PubSub, its queue, the
generator and the registry do. Mind `Shut`: a pending take ends, an event that
was already taken is still handed out.

`AgentEvents` composes it with its users:

| Action | Code |
|---|---|
| `OpenBus`, `StartForwarder` | `createSessionBus`, `startOnEventForwarder` |
| `Emit`, `Finish` | the program publishes, succeeds or fails |
| `Yielded`, `Stopped`, `DestroyBus` | the `finally` of `executeAgentProgram`: a timer after the microtasks, `return()` raced against a delay, destruction by the owner of the bus |
| `Forward`, `ForwardThrows` | the forwarder's loop calls `onEvent`, which may throw |
| `Send`, `EndRequest`, `AbortRequest` | the server-sent events of the agent server: send, last message and close, client gone |
| `Observe`, `Subscribe`, `AskNext`, `GetNext` | `agent.subscribe()`, which awaits the bus before it subscribes |

`Yielded` requires that the forwarder has handed out what it took: a timer
fires when no microtask is left, and the forwarder only waits for microtasks.

### RedisStore

Every operation of the store on sessions, messages and checkpoints, one Redis
command per action; `call[c].pc` is the command that comes next. `Begin` are
the first commands, `Continue` the others, `CutShort` ends an operation
anywhere (a command failed or its process died). The keys are variables
(`session`, `counted`, `messages`, `recorded`, `index`, `versions`). `Fork` and
its followers are `checkpoint/ops/fork.ts`, which all stores share, on top of
the Redis operations it calls.

### CodeSession

One interpreter session under its manager: `registered`, `init`, `isClosed`,
`isExecuting`, `options` are the record of `base-session-manager.ts`;
`process`, `stdin`, `current`, `stdout` the interpreter; `reader`, `text`
`readUntilDelimiter`. The calls of `execute` and `destroy` go through `pc`.
`started` is the code that was begun. The payload writes the delimiter when the
synchronous part of the code ends and waits for nothing, so any started code
may print later: from timers, promises, threads or children if its call has
returned, or because it never ended. `printed` and `ended` are histories.

| Action | Code |
|---|---|
| `WorkspaceCreated`, `ContextCreated`, `ServiceStarted`, `InitFails` | `initializeSession` of the three managers |
| `Execute`, `Refused`, `Expired`, `Destroy` | the base manager: options stored before `await session.init`, checks after it |
| `Write`, `Staged`, `Drained` | the local manager: files staged, code written, back-pressure of stdin |
| `Take`, `ReadOn`, `PrintText`, `End`, `Exit` | the interpreter process: it takes the next code, the code takes what comes after it from stdin, code that runs or what code has left behind prints, the code ends with its delimiter or without |
| `ReadText`, `ReadDelimiter`, `ReadTimesOut`, `DropText` | `session-stream-reader.ts` |
| `RunInContext`, `EvaluatedInContext`, `ContextDestroyed` | the WASM manager and its runtimes |
| `RunInService`, `ServiceAnswers`, `ServiceStopped`, `ServiceEnds` | the AgentCore manager |
| `Terminate`, `Terminated` | SIGTERM, the grace period, SIGKILL |

The three backends differ in what `execute` does after the shared checks, in
what ends an execution, and in what `destroy` waits for. Only stdout is
modelled; when a session is too old or idle is left open, so it may expire at
every call.

## 3. The runs

Sizes are distinct states; the longest run takes a minute and a half.

| Run | Instance | Checks |
|---|---|---|
| `graph_builder` (55 506) | all inputs with up to two edges of any kind over up to three ids (unknown, duplicate and self references included), three nodes with up to three edges, four nodes with four edges | `WavesAreLevels`, `CyclesRejected`, `BuiltIsConnected`, `CyclesRunFromTargetToSource` |
| `graph_dag` (11 145) | diamond with three conditional edges, two outputs, SQL store, 4 calls from the latest checkpoint, 1 fault | `BranchesFollowConditions`, `ResultsKept`, `InterruptedIsDurable`, `LatestIsNewest`, `NoFailureRecorded`, `RunSpec` |
| `graph_cycles` (128 275) | chain of three waves, two back edges of two iterations, one with a condition, one with `until`; 2 calls from any checkpoint, 1 fault | `TypeOK`, `ProgressInv`, `InterruptedIsDurable`, `FailsForCause`, `UntilStops`, `CallsReturn`, `RunSpec` |
| `task_manager` (412 927) | 2 tasks, 2 runs, 1 place, lifetime 1, retention 1, clock up to 4 | `TypeOK`, `SettledOnce`, `CompletionsAreTold`, `ToldAgainWithinTick`, `RemovalSparesCheckingRuns`, `SlotsAreFreed` |
| `agent_session` (204 134) | 2 runs of 2 iterations, up to 2 tool calls of any kind, both strategies, 1 protected pair, summaries with 2 recent messages, window of 3, tool concurrency 1, 1 fault | `TypeOK`, `OrphansHaveCause`, `SavesWhatWasSaid`, `StoredIsVerbatim`, `RunsReturn` |
| `event_bus` (218 206) | two runs that share the bus of a session, or one with a bus of its own and an observer; buffer of 1, 2 events per run, 1 throwing `onEvent` or aborted request | `TypeOK`, `TailIsTold`, `OneLateEvent`, `StreamsEndOnce`, `ObserversEnd`, `RequestsEnd` |
| `redis_store` (938 147) | 2 clients, 2 sessions (a fork needs the second), 4 calls, 2 ticks, 1 operation cut short; symmetric in clients and sessions | `TypeOK`, `IndexedIsStored`, `LeftoversHaveCause`, `ForkIsPrefix` |
| `code_session` (580 233) | 3 calls of `execute` or `destroy`, one with large code in the form without options, one with files, one with another language; three backends, two languages; one text at a time in the pipe of stdout | `ResultsHaveCause`, `CallsReturn` |
| `graph_sql_versions` | `graph_cycles` with unique versions, no faults | `FailsForCause`, violated |
| `graph_skip_resume` | `graph_dag` without unique versions, no faults | `FailsForCause`, violated |
| `graph_traversals` | `graph_cycles`, 3 calls from the latest checkpoint, no faults | `TraversalsBounded`, violated |
| `agent_session_saves` | `agent_session` | `EveryTurnIsSaved`, violated |

What they show, beyond their names.

* `graph_dag`, `graph_cycles`: through any interrupts, failures, crashes and
  resumptions a session implements `GraphRun`; decisions to skip made in an
  earlier call still agree with the conditions; what Interrupted returns is
  what was stored.
* `agent_session`: a request holds a call without its result, or the reverse,
  for exactly four reasons (handoff, a summary that cut between them,
  compaction at the start, a fault while storing), never because of timeouts,
  background tasks, pruning, the sliding window, snapshots or conversions; the
  stored messages are those said, once and unpruned, as long as the loop's
  array is the persisted one.
* `event_bus`: before a run returns, `onEvent` was called with the newest
  events of its bus, as many as the buffer holds, in order; afterwards at most
  once, with an event of *another* run of the session; a stream gets its last
  message once and nothing after it.
* `redis_store`: the order of the commands of saving and deleting keeps indexes
  sound without transactions; leftovers of a deleted session need an operation
  that was cut short or in progress; a fork has exactly the past of its
  checkpoint except for the order within a millisecond.
* `code_session`: whatever code leaves behind and however long it runs, a
  result with a delimiter is one of the call's own code, which has ended, and
  lacks nothing that the code printed before its end; only code that made stdin
  drain may have printed while nobody listened. Foreign output does occur, after
  a timeout and without one, but only forwards: from code that was run before
  and whose own call had come back, never from a refused call and never in both
  directions. Foreign options are those of a call that is still going on, never
  of one that is over. Every call but one that waits for `drain` returns, and
  nothing outlives `destroy`.

Why the bounds are enough.

* `graph_builder`: four nodes and four edges hold a diamond with a back edge,
  two edges between the same nodes, cycles of length two to four, and back
  edges between nodes that are not connected in their direction. Every wave
  count from one to four occurs.
* `graph_dag`: a diamond is the smallest graph with a wave of two nodes, a join
  with several conditional edges, and a node whose source was skipped. Four
  calls allow an interrupt in each of the three waves and the completing call.
  One fault is one rejected save or one throwing callback at any point.
* `graph_cycles`: the step of a cycle's checkpoint equals a wave's, is smaller
  and repeats only with several iterations and three waves; two back edges are
  needed for a cycle after a cycle. A second call resumes from every checkpoint
  that a first call can leave.
* `task_manager`: with one place the second task must wait; a lifetime and a
  retention of one tick and a clock of four let a task start after a check,
  time out, be told, outlive retention and be removed while the other run is in
  an iteration. `Start` is not enabled when the task's timer would be due after
  the clock has stopped.
* `agent_session`: the second run loads what the first stored; with a protected
  pair, a window of three and two recent messages, pruning takes one of two
  pairs and both strategies cut between a call and its results; a concurrency
  of one makes the second of two tools wait for the first's timeout; one fault
  falls between any two saves.
* `event_bus`: a buffer of one and two events per run let the buffer drop an
  event while the forwarder holds another; two sharing runs let one forwarder
  outlive its run; an observer can be given its bus just before the destruction.
* `redis_store`: a deletion against any other operation needs two clients; a
  fork of two messages and a checkpoint, made in one or two milliseconds, and
  its source's deletion are four calls.
* `code_session`: with three calls one times out, one executes on the busy
  process and one destroys or overwrites the options; or code of one that is
  over prints into the results of two others. More calls add nothing but longer
  queues. `MaxText`, the bound on the texts in the pipe, is one: delimiters are
  not counted, so a text comes before, between or after them and is read for
  whoever reads then; more texts at a time come in the same places.
  `ResultsHaveCause` is proved for any number of both.

`LatestOnly` says that callers resume from `getLatestCheckpoint` as the
documentation shows (`framework/README.md:497`, `:530`) and start each session
once. Without it any checkpoint may be resumed and new executions may start in
the same session.

Fairness, always weak and never of a fault or of a caller:

* `GraphExecutor!FairSpec`: a call's own steps: the event loop runs what is
  ready, the store answers, and node executors settle. The last is an
  assumption about the functions a user supplies, since `nodeTimeout` is never
  enforced.
* `TaskManager`: time passes and due timers fire; functions may never settle,
  runs may never iterate again.
* `AgentSession`: a run goes on (`RunStep`: the provider and a handoff's target
  answer, the store accepts), and `ToolTimesOut` happens; a tool's function
  need not settle. That is what `Effect.timeout` is for.
* `AgentEvents`: a run goes on, the forwarder hands out events (microtasks),
  observers subscribe and ask for the next event.
* `CodeSession`: promises, timers and streams go on, the process reads stdin
  when it has nothing to run and dies of SIGKILL; its code need not end. Code
  in WASM ends (QuickJS is interrupted at its deadline; of Pyodide this is an
  assumption about the code). Requests to the remote service settle, and the
  service ends sessions in time.
* `RedisStore` and `GraphBuilder` state no liveness and no fairness.

Deadlock checking is off in all runs: a session without callers, a built graph,
finished runs and requests, used-up calls and a clock at its bound really stop.

What each property would catch is tested with a mutant of the code's model per
property (`PROJECT.json`, "mutants").

## 4. Findings

1. **Versions repeat in cyclic graphs** (`graph_sql_versions`).
   `nextCheckpointVersion` (`framework/src/graph/checkpoint-utils.ts:15`) adds
   one to the version of the checkpoint with the highest *step*. Cycle
   checkpoints start again at step 1; with three waves the last wave's
   checkpoint (step 2) stays first after iteration 1, and iteration 2 gets the
   version of iteration 1. SQLite and Postgres have
   `UNIQUE (session_id, namespace, version)`, so the save throws and the graph
   fails. For the same reason `getLatestCheckpoint` returns the wave's
   checkpoint and not the newest one; `LatestIsNewest` holds for graphs without
   back edges.
2. **A checkpoint with a skipped node cannot be resumed** (`graph_skip_resume`).
   Skipped is saved as `"pending"` (`checkpoint-utils.ts:41`), which the
   restoration rejects (`checkpoint-restoration.ts:194`) although it accepts
   `"skipped"`.
3. **`maxIterations` counts from 1 again after a resume** (`graph_traversals`).
   `cycleState` is stored and never read; `graph/types.ts:86` promises
   "Max times this back-edge may be traversed."
4. **What is said after the context window acted is not stored**
   (`agent_session_saves`). `executeAndPersist`
   (`framework/src/agent/run-program/index.ts:77`) gives the loop a copy of its
   params. Once pruning, compaction or the sliding window puts a new array in
   place (`agent-loop/state.ts:96`), the loop's messages and the persisted ones
   are different arrays, and tool calls, results and the answer that follow are
   lost to the checkpoint store. The sliding window copies the array even when
   it is short (`compaction.ts:97`).

Met while reading, without a run:

* Graphs. `maxConcurrent` and `nodeTimeout` of `GraphConfig`
  (`graph/types.ts:96`) are read nowhere; the input given to `resumeGraph`
  becomes `interruptInput` (`resume.ts:28`), which is read nowhere; an
  interrupted nested graph counts as a completed node
  (`node-execution/subgraph-node.ts:53`), and a nested graph whose node runs
  again starts from the beginning (`:40`); a back edge whose target does not
  lead to its source is accepted and never runs (`cycle-executor.ts:136`).
* Agent runs. Compaction at the start shortens the messages while
  `newMessagesStart` counts the full history, so new messages are missing from
  what is stored (`compacted` in the model). After a handoff the stored
  assistant message keeps calls without results, and the run has no
  `session.end`; the bus `"handoff-session"` (`handoff.ts:73`) is shared by all
  handoffs and never destroyed. For an unknown session id messages go to a new
  session with a random id (`persistence-checkpoint.ts:71`). Failures of store
  and guardrails, and a refused background task, are defects of the effect: no
  `session.end` tells of them, and `"complete"` is told before anything is
  stored. A tool that timed out runs on, its `AbortSignal` is never aborted. A
  run's notification checks begin at its own start (`lifecycle.ts:49`).
* Events. The forwarder of a run with its caller's session id stays pending
  after the run and delivers exactly one event of the next one
  (`OneLateEvent`). Who subscribes after a run has destroyed its bus waits for
  ever on a new one. Buses of explicit sessions are never destroyed. Studio's
  event bridge, stopped and started, consumes twice.
* Redis. Messages of one millisecond come back ordered by their serialized
  content, checkpoints by their UUID. `updateSession` and `addMessage` rewrite
  the whole record and bring a deleted session back. The `versions` hashes are
  written and never read. Deleting a session leaves its entities (SQL
  cascades); two updates of an entity can leave it in the wrong index sets.
  `ensureConnected` connects twice on two first calls.
* Interpreters. A wait for `drain` has no timeout and does not end with the
  process. The code of an execution that timed out goes on and its output lands
  in a later result; so does what timers, promises, threads and children of code
  print after its delimiter, since nothing waits for them
  (`session-payload.ts:21`). What large code prints while stdin drains is lost:
  the reader is attached after `drain`. An expired session is destroyed even while another call
  executes in it. A failed initialization rejects `execute` instead of giving
  an error result. A process that cannot be spawned has no `error` handler. The
  WASM executor shares one `__temp__` context among concurrent executions with
  files, and creates two states for two first calls; Pyodide's stdout, working
  directory and interrupt buffer are shared by its contexts. A failing
  StopSession of AgentCore rejects `destroy` after the record is gone.
* Multi-agent. The supervisor appends the failure of a worker twice to its
  history (`supervisor-dispatch.ts`).

## 5. Proofs

TLAPS checks, for every value of the constants that satisfies the modules'
`ASSUME`s:

| Theorem | Module | States |
|---|---|---|
| `TypeCorrect` | `GraphExecutorProof` | `Spec => []TypeOK` |
| `Progress` | `GraphExecutorProof` | `Spec => []ProgressInv` |
| `Implements` | `GraphExecutorProof` | `Spec => RunSpec`, that is `Run!Spec` |
| `DownClosedThm`, `CompleteThm` | `GraphRunProof` | `Spec => []ResultsDownClosed`, `Spec => []CompleteIsTotal` |
| `FailuresUnrecorded` | `GraphExecutorProof` | `Spec => []NoFailureRecorded` |
| `Kept`, `Until` | `GraphExecutorProof` | `Spec => ResultsKept`, `Spec => UntilStops` |
| `Newest` | `GraphExecutorProof` | `Straight => (Spec => []LatestIsNewest)` |
| `InterruptsDurable` | `GraphExecutorProof` | `OnlyFaultsReject => (Spec => []InterruptedIsDurable)` |
| `FailuresHaveCause` | `GraphExecutorProof` | `NeverSkips /\ OnlyFaultsReject => (Spec => []FailsForCause)` |
| `Branches` | `GraphExecutorProof` | `BackEdge = <<>> => (Spec => []BranchesFollowConditions)` |
| `TypeCorrect`, `SettledOnceThm`, `Told`, `ToldAgain`, `RemovalSparesThm` | `TaskManagerProof` | `TypeOK`, `SettledOnce`, `CompletionsAreTold`, `ToldAgainWithinTick`, `RemovalSparesCheckingRuns` |
| `TypeCorrect`, `Indexed`, `Leftovers`, `Forks` | `RedisStoreProof` | `TypeOK`, `IndexedIsStored`, `LeftoversHaveCause`, `ForkIsPrefix` |
| `ResultsCause`, `OneAtATime` | `CodeSessionProof` | `Spec => []ResultsHaveCause`, `Spec => [](OneExecutes /\ ReadersRead)` |
| `TypeCorrect`, `StreamsEnd`, `TailTold`, `LateOnce` | `AgentEventsProof` | `TypeOK`, `StreamsEndOnce`, `TailIsTold`, `OneLateEvent` |
| `TypeCorrect`, `Verbatim`, `Saved`, `Causes` | `AgentSessionProof` | `TypeOK`, `StoredIsVerbatim`, `SavesWhatWasSaid`, `OrphansHaveCause` |
| `WavesLevelled`, `CyclesFound`, `OnePiece`, `CyclesRun` | `GraphBuilderProof` | `WavesAreLevels`, `CyclesRejected`, `BuiltIsConnected`, `CyclesRunFromTargetToSource` |

**The executor: types, progress, refinement** (any graph whose edges go to
later waves, any back edges, any number of calls and faults, with and without
unique versions). `TypeOK` alone is not inductive: an iteration is only
well-typed if the current back edge and position exist, and `Latest` is only an
element of the store if a first checkpoint in the order exists. `TypeInv` adds
`CycleIsPlaced` and `LatestExists`; that a finite sequence has a latest element
is preserved by appending one, which avoids an induction. `ProgressInv` then
says how far a call has come: every node of earlier waves has a result
(`EarlierWavesHaveResults`), the tasks and results of the current wave cover it
(`WaveIsAccountedFor`), in the cycles all nodes have results
(`CyclesHaveAllResults`). This is what makes `ResultsClosed` inductive: a batch
committed in wave *w* has its dependencies in earlier waves, which have results
whether they were computed, skipped or restored. `TypeInv /\ ProgressInv` is
the inductive invariant; the proofs have a lemma per group of actions (calls,
waves, cycles, ends), each with a step per action.

`Implements` maps the executor to `GraphRun` by `done <-` the nodes with a
result, `durable <-` the node sets of the stored checkpoints, `outcome <-`
`result`. It uses the invariant: a wave is a `Commit` because its dependencies
are done, `Finish` is an `End` with `Complete` because all nodes have results,
and a refused resume restores a prefix of the waves, which is down-closed.

**The executor: safety.** Each theorem has an invariant on top of these.
`FailuresUnrecorded`: no result is a failed one while a save is possible
(`NoFailureInside`). `Kept`: the tasks of a wave are nodes without a result,
and a fresh call has none (`FreshInv`). `Until`: between two iterations the
`until` predicate has rejected the output as it stands (`UntilInv`). `Newest`:
along a straight history the steps of the store grow, every checkpoint covers
the ones before, and what the call has not yet saved lies past the latest
(`NewestInv`). `InterruptsDurable` and `FailuresHaveCause` build on `Newest`:
a save is only refused by a fault, because versions do not repeat. `Branches`:
skipped and completed nodes of the results and of all checkpoints agree with
their conditions (`BranchesInv`); it needs that the results of a source do not
change after its wave, which fails with back edges.

The hypotheses name what the code lacks. `Straight == LatestOnly /\ BackEdge =
<<>>` and `OnlyFaultsReject == ~UniqueVersions \/ Straight` are needed because
of finding 1, `NeverSkips` (every node with incoming edges has an unconditional
one) because of finding 2.

**Task manager** (any tasks, runs, places, lifetimes and retentions).
`TypeInv` is `TypeOK` with the domains of the functions. `NoticeInv` relates
the three clocks of a run: the time of its last check is not after the time
that its next check will compare with (`LooksBack`), and what was told has
settled (`ToldHaveSettled`); with it the two properties on notifications are
inductive. `SettledOnceThm` and `RemovalSparesThm` are action properties that
follow from `TypeInv`.

**Redis store** (any clients, sessions, calls and faults). `IndexInv`: a
checkpoint whose record may yet be deleted is private to its operation
(`SavingIsPrivate`), indexes hold checkpoints of their session
(`IndexedBySession`), a deletion only collects ids of its own session
(`DeletesOwn`). `LeftInv`: for a session that no operation was cut short on,
every recorded checkpoint is indexed or about to be; for a doomed one, every
kind of key is gone or the deletion stands before the command that deletes it
(`DeletionAt`). The proof is long because nearly each of the 26 actions is one
command of several operations. `ForkInv` carries `Forks`: a message is stored
once per session and at the time it was said, a session descends only from
sessions older than itself, so that a fork never copies into its own origin;
what a fork has copied and what it has still to copy are together what the
checkpoint saw and what was added to the origin in the same millisecond, and
the copied part is at or before the rest, in the origin's order; and whoever
deletes a session has doomed it, so without a doomed one nothing that was
copied disappears again.

**Interpreter sessions** (any calls, three backends, two languages).
`QueueInv` says who waits for the initialization and whose options are stored;
`ExecInv` that one call executes and only its own reader reads, which is
`OneAtATime`; `PipeInv` that code is begun once and only from stdin, that what
runs, is printed, read or ended was begun, and that a delimiter is one of code
that has ended and does not run again; `GivenInv` that a call whose code was
given to the interpreter executes or has come back, unless the process has
exited. The last two make output flow forwards (`OthersCameBack`): when a call
returns with a text of other code, that code was begun, so its call has come
back, since only one call executes. `WholeInv` follows what the code of a call
prints: as long as the call reads, it was read or comes before the code's
delimiter. `SessionInv`, their conjunction with `ResultsHaveCause`, is
inductive.

**Events** (any runs and observers, any capacity, any scenario). `TypeInv`
gives every subscription its shape: within its capacity, waiting only with an
empty buffer, quiet once its bus is destroyed. `EndsInv` follows one run: until
it stops, its session's bus is its own (`OwnsBus`) — only its owner destroys
it —, the events due to it that are newest are told, in its hand or in its
buffer (`Forwards`: the buffer is the end of what is due, so a full buffer
holds all of the newest); when it stops, nothing is in hand or buffer, so all
of the newest are told (`Heard`); and what is told is sent while the stream is
open (`Sent`). `StreamsEndOnce` is then what `Sent` says at the last message.
`TurnInv` adds the order: what a run has been told, what it holds and what its
buffer holds come, in this order, after one another in the events due to it
(`InTurn`), an event's place in the buffer is its place in time (`InOrder`,
`OfItsTime`), and a stopped run holds at most one event, which is of another
run, and only until it was told (`OnceBelated`). `TailTold` and `LateOnce`
follow.

**Agent sessions** (any runs, iterations, calls and faults, any windows, both
strategies). The argument is about lists of messages. `Filter` is proved to
pick the elements of a set in their order (`FilterPicks`), so that every
operation of `Conversation` keeps some messages of a list, unchanged but for
what was pruned, in their order: a list *thins* another (`Thins`). A thinned
list that keeps every message with a call or a result has no orphan that the
other had not (`ThinOrphans`); that is what pruning, `ToStored` and
`FromStored` do. A summary does not, and its orphans are the outcome's `cut`.
The sliding window is the hard one (`SlideOrphans`): a message goes if *one* of
its ids is cut off, and takes its other ids with it.
They are cut off too only because the ids of a turn stay together, so that two
messages with a common id have the same ids (`GroupInv`), and because no id is
called or answered twice in a list (`OnceInv`). `KeptInv` says what of the run
is persisted: the persisted array is what the run began with followed by what
was said, all of it while the loop has the same array, else a first part
without orphans; and that the slice from `newMessagesStart` begins with what
was said, or with the input if a memory snapshot has moved it. `SavedInv` adds
that a run adds nothing to the store before it is over, `TurnInv` that during a
turn the last message is the one with its calls, so that the results follow it,
and `PairInv` that messages, what was said, the loaded store and the store with
what is yet to be stored have no orphans but the excused ones. `IInv` is their
conjunction with `ShapeInv` (types and the position of the loop) and `SaidInv`
(nothing said or stored is pruned).

**Graph builder** (inputs of any size). What the recursive search computes is
proved from its definition: the function of its layers exists (`LayersExist`),
its last layer is closed under the relation because each layer that is not
closed adds an id and there are no more ids than pairs (`ReachesAll`), and it
is in every closed set that holds the start (`ReachesNoMore`). The two facts
together say that it is the set of reachable ids, and no path is ever
mentioned. `SortInv` says of Kahn's algorithm that the waves and the remaining
ids split the nodes (`Split`), that an in-degree is the number of edges from
the ids that remain (`EdgesCounted` makes the subtraction exact for duplicate
edges), that sources are in earlier waves than their targets (`SourcesFirst`)
and that an id had a source in the wave before its own. `CyclesFound` follows in both
directions: at a rejection the remaining ids are a set that waits for itself;
in a built graph the id of such a set that is in the least wave contradicts it.

Only model-checked:

* liveness: `CallsReturn` (graphs and interpreters), `SlotsAreFreed`,
  `RunsReturn`, `ObserversEnd`, `RequestsEnd`; the prover does no fairness;
* which pairs are pruned: the proofs hold for any choice of results
  (`ToolCallPairs` is opaque to the provers), TLC checks with the one the code
  makes.

Every safety property of a passing run is proved, some under the hypotheses
named above.

The induction theorems of the library take an operator as a parameter and
cannot be instantiated. Where an induction is needed (layers of a search,
waves of a graph, sequences), the proofs use that a set of numbers that is not
empty has a least one (`LeastExists`, from the library's theorem that `<` is
well-founded on the naturals) and refute a least counterexample.

## 6. Assumptions and what is left out

* `createdAt` strictly increases in a session for the graph executor. Two saves
  in one millisecond are ordered arbitrarily by the SQL stores and by insertion
  in memory.
* The order of checkpoints is that of the in-memory and SQL stores (step, then
  time). Redis orders by time only and treats the empty namespace as all
  namespaces; the executor is not composed with `RedisStore`.
* One call at a time per graph session and namespace, and one run at a time per
  agent session: concurrent runs of one session interleave their `addMessage`s,
  concurrent calls of one graph session may compute the same version. A nested
  graph uses its node's id as namespace; nested graphs are black boxes here.
* Without a store or session id nothing is saved; that early return is not
  modelled. `GraphNestingError`, missing nodes and predicates that throw end a
  call and are not modelled. A throwing callback is modelled where it matters,
  after a save and in `onEvent`.
* The other nodes of an interrupted wave are forgotten when the call returns,
  as `Promise.all` forgets them.
* Task ids are unique; the code truncates a UUID. The functions an agent starts
  always return a promise, so `start` does not throw after it has registered
  the task.
* Agent sessions exist in their store before the first run. Messages a caller
  passes in, messages that hooks replace or tools inject, streamed responses
  while they are assembled, guardrails, middleware, truncation of results and
  `preserveSystemMessage = false` are left out, and so are memory providers
  other than the checkpoint store.
* Events: what a run does is the events it publishes; a bus that cannot be
  created is left out. Parsing of requests and the formats of the protocols
  are left out of the agent server.
* Redis: contents of records, namespaces, entities and facts are left out. All
  clients read one clock, which never runs back. In the program each process
  has its own: with skew between them messages and checkpoints are ordered by
  what their writers took for the time, and `ForkIsPrefix` holds only of that
  order. `IndexedIsStored` is about the sorted set of checkpoints per session;
  the `versions` hashes, which nothing reads, may name missing checkpoints.
* Interpreters: stderr, exit codes, the limit on the number of sessions, and the
  executors without sessions are left out. So is what sessions share: a WASM
  context, and the stdout of Pyodide, in which output of another session's code
  may land. A delimiter names one execution (it is made from the time), and code
  prints neither its own nor another delimiter. Code may print nothing, or not
  end, or exit, or take from stdin what comes after it; what it leaves behind
  prints until the process exits, after which nobody reads. QuickJS never runs
  the jobs code leaves behind (`executePendingJobs` is not called), Pyodide runs
  them while later code is awaited; which output the remote service takes to be
  that of the code is left open. Nothing is assumed of how soon something is
  printed.
* Components listed `not_modelled` in `PROJECT.json`, with the reason there.
  They are a large share of the repository and either have no control state of
  their own (conversion of messages for providers, protocols and stores; pure
  checks; configuration), wrap a library (MCP, HTTP), compute once and
  sequentially (agent factory, command line), compile to what is modelled
  (`crew` to graphs), or are user interface (studio).

## 7. What could come next

1. Runs of one session at the same time: `AgentSession` composed with itself on
   one store, and with the atomicity of `RedisStore` instead of one step per
   message.
2. Two calls of one graph session at once, with the version read and the save
   as two steps; nested graphs that share a store by namespaces.
3. The supervisor's loop of rounds and dispatches, and the agent factory's
   limits, as small modules.
4. The hazards without a property in `PROJECT.json`, which are those of 1 and 2
   and the siblings of an interrupted node.
