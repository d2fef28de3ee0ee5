---------------------------- MODULE AgentSession ----------------------------
(***************************************************************************)
(* The runs of an agent in one session, one after the other: the history   *)
(* is loaded from the checkpoint store, the loop sends messages to the     *)
(* provider and runs the tools it calls, the context window is managed     *)
(* before every request, and the new messages are stored one by one at the *)
(* end.                                                                    *)
(*                                                                         *)
(* The session exists in the store.  The provider, the tools and the       *)
(* agents a run hands off to are black boxes: the provider answers with    *)
(* text, with nothing or with calls, or fails; a tool's function settles   *)
(* at any time or never.  Messages that the caller passes in, that tools   *)
(* inject or that hooks replace are left out.                              *)
(***************************************************************************)
EXTENDS Conversation, FiniteSets

CONSTANTS
  Strategy,         \* compaction strategies an agent may be defined with:
                    \*   subset of {"none", "default", "sliding"}
  ToolConcurrency,  \* config.toolConcurrency
  MaxIterations,    \* config.maxIterations
  MaxRuns,          \* bound: runs of the session
  MaxTurnCalls,     \* bound: tool calls of one response
  MaxIds,           \* bound: tool calls of the session
  MaxFaults         \* bound: failures of provider, store or target, crashes

ASSUME SessionAssumption ==
  /\ Strategy \subseteq {"none", "default", "sliding"}
  /\ ToolConcurrency \in Nat \ {0} /\ MaxIterations \in Nat \ {0}
  /\ {MaxRuns, MaxTurnCalls, MaxIds, MaxFaults} \subseteq Nat

Id == 1..MaxIds
Kind == {"sync", "background", "handoff"}

VARIABLES
  strategy,   \* contextWindow.compactionStrategy of the agent
  store,      \* the messages of the session in the checkpoint store
  pc,         \* what the run does; "idle" between runs
  iteration,  \* i of the loop
  messages,   \* ctx.messages
  kept,       \* the messages of the execution context, which are persisted
  shared,     \* whether ctx.messages is still the same array
  start,      \* newMessagesStart
  call,       \* the calls of the response in order: records [id, kind]
  settled,    \* the sync calls of call that have a result
  handed,     \* handoffs done: the number executed, and whether one found
              \*   its target: a record [count, final]
  pending,    \* whether a background task may yet complete
  unsaved,    \* the messages yet to be stored
  said,       \* history: the messages this run has added
  began,      \* history: the store as this run loaded it
  compacted,  \* history: whether messages were compacted as the run started
  excused,    \* history: the calls that lost their other half for a reason
  runs, lastId, faults \* bounds

loop == <<iteration, messages, kept, shared, start, call, settled, handed>>
history == <<said, began, compacted, excused>>
vars == <<strategy, store, pc, loop, pending, unsaved, history, runs, lastId, faults>>

Prompt == TextMessage("system", "prompt")
Input == TextMessage("user", "input")
NotHanded == [count |-> 0, final |-> FALSE]

Init ==
  /\ strategy \in Strategy
  /\ store = <<>> /\ pc = "idle" /\ iteration = 0
  /\ messages = <<>> /\ kept = <<>> /\ shared = TRUE /\ start = 0
  /\ call = <<>> /\ settled = {} /\ handed = NotHanded
  /\ pending = FALSE /\ unsaved = <<>>
  /\ said = <<>> /\ began = <<>> /\ compacted = FALSE /\ excused = {}
  /\ runs = 0 /\ lastId = 0 /\ faults = 0

\* The locals of the run go.
Leave ==
  /\ pc' = "idle" /\ iteration' = 0
  /\ messages' = <<>> /\ kept' = <<>> /\ shared' = TRUE /\ start' = 0
  /\ call' = <<>> /\ settled' = {} /\ handed' = NotHanded
  /\ unsaved' = <<>> /\ said' = <<>> /\ began' = <<>> /\ compacted' = FALSE

Fault == faults < MaxFaults /\ faults' = faults + 1

-----------------------------------------------------------------------------
(* The context window.                                                     *)

\* An outcome of applyContextWindow: the messages, whether they are in a new
\* array, and the calls that a summary separated from their results.
Outcome(ms, replaced, cut) == [messages |-> ms, replaced |-> replaced, cut |-> cut]

Pruned(ms) == Outcome(Prune(ms), PrunableIds(ms) # {}, {})

\* ContextWindowManager.compact: the strategy, or the fallback.
Compactions(ms) ==
  CASE strategy = "none"    -> {}
    [] strategy = "sliding" -> {Outcome(Slide(ms), TRUE, {})}
    [] strategy = "default" ->
         {Outcome(c, c # ms, Orphans(c)) : c \in {Summarize(ms), HardTruncate(ms)}}

\* Both steps are taken or not depending on the sizes of the contents.
ApplyContextWindow(ms) ==
  LET untouched == Outcome(ms, FALSE, {})
      pruned == IF strategy = "none" THEN {untouched} ELSE {untouched, Pruned(ms)}
  IN  pruned \cup
      UNION {{Outcome(c.messages, p.replaced \/ c.replaced, c.cut) :
                c \in Compactions(p.messages)} : p \in pruned}

-----------------------------------------------------------------------------
(* A run.                                                                  *)

\* createProgram up to the loop.  A memory snapshot goes before the input.
StartRun(memory) ==
  /\ pc = "idle" /\ runs < MaxRuns
  /\ LET past == FromStored(store)
         snapshot == IF memory THEN <<TextMessage("user", "memory")>> ELSE <<>>
     IN  \E cw \in ApplyContextWindow(<<Prompt>> \o past \o snapshot \o <<Input>>) :
           /\ messages' = cw.messages /\ kept' = cw.messages
           /\ start' = Len(past) + 2
           /\ compacted' = (Len(cw.messages) # Len(past) + Len(snapshot) + 2)
           /\ excused' = excused \cup cw.cut
  /\ pc' = "iterate" /\ runs' = runs + 1 /\ began' = store
  /\ UNCHANGED <<strategy, store, iteration, shared, call, settled, handed,
                 pending, unsaved, said, lastId, faults>>

\* The loop adds messages to ctx.messages, and so to the persisted ones while
\* both are the same array.
Push(ms) ==
  /\ messages' = messages \o ms
  /\ kept' = IF shared THEN kept \o ms ELSE kept
  /\ said' = said \o ms

\* Mutant of BeginIteration: the persisted messages are replaced as well.
BeginIterationReplacesKept ==
  /\ pc = "iterate" /\ iteration < MaxIterations
  /\ \E notes \in {<<>>} \cup (IF pending THEN {<<TextMessage("user", "note")>>} ELSE {}) :
       /\ pending' = (pending /\ notes = <<>>)
       /\ said' = said \o notes
       /\ \E cw \in ApplyContextWindow(messages \o notes) :
            /\ messages' = cw.messages /\ kept' = cw.messages
            /\ excused' = excused \cup cw.cut
  /\ iteration' = iteration + 1
  /\ pc' = "llm"
  /\ UNCHANGED <<strategy, store, shared, start, call, settled, handed, unsaved, began,
                 compacted, runs, lastId, faults>>

\* runSingleIteration up to the request: a notification if a background task
\* has completed, then the context window.
BeginIteration ==
  /\ pc = "iterate" /\ iteration < MaxIterations
  /\ \E notes \in {<<>>} \cup (IF pending THEN {<<TextMessage("user", "note")>>} ELSE {}) :
       /\ pending' = (pending /\ notes = <<>>)
       /\ said' = said \o notes
       /\ kept' = IF shared THEN kept \o notes ELSE kept
       /\ \E cw \in ApplyContextWindow(messages \o notes) :
            /\ messages' = cw.messages
            /\ shared' = (shared /\ ~cw.replaced)
            /\ excused' = excused \cup cw.cut
  /\ iteration' = iteration + 1
  /\ pc' = "llm"
  /\ UNCHANGED <<strategy, store, start, call, settled, handed, unsaved, began,
                 compacted, runs, lastId, faults>>

EndLoop ==
  /\ pc = "iterate" /\ iteration = MaxIterations
  /\ pc' = "ended"
  /\ UNCHANGED <<strategy, store, loop, pending, unsaved, history, runs, lastId, faults>>

\* The provider answers without calls: the loop ends.
Answers ==
  /\ pc = "llm"
  /\ \E text \in {"answer", "none"} : Push(<<TextMessage("assistant", text)>>)
  /\ pc' = "ended"
  /\ UNCHANGED <<strategy, store, iteration, shared, start, call, settled, handed,
                 pending, unsaved, began, compacted, excused, runs, lastId, faults>>

\* The provider calls tools with new ids.
CallsTools ==
  /\ pc = "llm"
  /\ \E n \in 1..MaxTurnCalls :
       /\ lastId + n <= MaxIds
       /\ \E kind \in [1..n -> Kind] :
            call' = [i \in 1..n |-> [id |-> lastId + i, kind |-> kind[i]]]
       /\ Push(<<CallMessage([i \in 1..n |-> lastId + i])>>)
       /\ lastId' = lastId + n
  /\ pc' = "tools"
  /\ UNCHANGED <<strategy, store, iteration, shared, start, settled, handed, pending,
                 unsaved, began, compacted, excused, runs, faults>>

\* The calls of a kind in their order.
OfKind(kind) == Filter(call, [id : Id, kind : {kind}])
Ids(cs) == [i \in DOMAIN cs |-> cs[i].id]

\* Effect.all with a concurrency: the first calls that have not settled run.
RunningCalls ==
  LET waiting == Filter(Ids(OfKind("sync")), Id \ settled)
  IN  ToSet(SubSeq(waiting, 1, IF Len(waiting) < ToolConcurrency THEN Len(waiting) ELSE ToolConcurrency))

\* A tool's function returns or throws.
ToolReturns(c) ==
  /\ pc = "tools" /\ c \in RunningCalls
  /\ settled' = settled \cup {c}
  /\ UNCHANGED <<strategy, store, pc, iteration, messages, kept, shared, start, call,
                 handed, pending, unsaved, history, runs, lastId, faults>>

\* Mutant of ToolTimesOut: there is no timeout for the last call.
ToolTimesOutNotLast(c) ==
  /\ pc = "tools" /\ c \in RunningCalls /\ Cardinality(RunningCalls) > 1
  /\ settled' = settled \cup {c}
  /\ UNCHANGED <<strategy, store, pc, iteration, messages, kept, shared, start, call,
                 handed, pending, unsaved, history, runs, lastId, faults>>

\* Effect.timeout: an error is the result; what the function still returns is
\* dropped.
ToolTimesOut(c) ==
  /\ pc = "tools" /\ c \in RunningCalls
  /\ settled' = settled \cup {c}
  /\ UNCHANGED <<strategy, store, pc, iteration, messages, kept, shared, start, call,
                 handed, pending, unsaved, history, runs, lastId, faults>>

SyncSettled == ToSet(Ids(OfKind("sync"))) \subseteq settled

\* startBackgroundTasks, once the sync tools have settled.
LaunchTasks ==
  /\ pc = "tools" /\ SyncSettled
  /\ pending' = (pending \/ OfKind("background") # <<>>)
  /\ pc' = "handoff"
  /\ UNCHANGED <<strategy, store, loop, unsaved, history, runs, lastId, faults>>

\* executeHandoff runs the target on the messages, or the name is no target's
\* and the result is an error.
Handoff(found) ==
  /\ pc = "handoff" /\ handed.count < Len(OfKind("handoff"))
  /\ handed' = [count |-> handed.count + 1, final |-> handed.final \/ found]
  /\ UNCHANGED <<strategy, store, pc, iteration, messages, kept, shared, start, call,
                 settled, pending, unsaved, history, runs, lastId, faults>>

\* Results come in the order sync, background, handoff.
AllResults == Ids(OfKind("sync") \o OfKind("background") \o OfKind("handoff"))

\* Mutant of NextTurn: what has settled is not forgotten.
NextTurnKeepsSettled == call' = <<>> /\ UNCHANGED settled /\ handed' = NotHanded

NextTurn == call' = <<>> /\ settled' = {} /\ handed' = NotHanded

\* applyToolResults; stopWhen may end the loop.
ApplyToolResults ==
  /\ pc = "handoff" /\ handed.count = Len(OfKind("handoff")) /\ ~handed.final
  /\ Push(<<ResultMessage(AllResults)>>)
  /\ pc' \in {"iterate", "ended"}
  /\ NextTurn
  /\ UNCHANGED <<strategy, store, iteration, shared, start, pending, unsaved, began,
                 compacted, excused, runs, lastId, faults>>

\* A handoff found its target: the loop ends with its result, and the results
\* of this turn are not added to the messages.
HandedOff ==
  /\ pc = "handoff" /\ handed.count = Len(OfKind("handoff")) /\ handed.final
  /\ excused' = excused \cup ToSet(AllResults)
  /\ pc' = "ended"
  /\ NextTurn
  /\ UNCHANGED <<strategy, store, iteration, messages, kept, shared, start, pending,
                 unsaved, said, began, compacted, runs, lastId, faults>>

-----------------------------------------------------------------------------
(* Persistence.                                                            *)

\* Mutant of NewMessages: the slice does not allow for the memory snapshot.
NewMessagesUnfiltered == SubSeq(kept, start + 1, Len(kept))

\* buildDurableMessageSlice: what follows the initial messages, without memory
\* snapshots and without the input, which a snapshot shifts into the slice.
NewMessages ==
  LET slice == Filter(SubSeq(kept, start + 1, Len(kept)), {m \in Message : m.text # "memory"})
  IN  IF slice # <<>> /\ slice[1] = Input THEN Tail(slice) ELSE slice

\* buildCheckpointMessages.
ToSave == <<Input>> \o ToStored(NewMessages)

\* persistCheckpointMessages, once getSession has answered.
Persist ==
  /\ pc = "ended"
  /\ unsaved' = ToSave
  /\ pc' = "persist"
  /\ UNCHANGED <<strategy, store, loop, pending, history, runs, lastId, faults>>

\* persistMessagesSequential: one addMessage.
SaveMessage ==
  /\ pc = "persist" /\ unsaved # <<>>
  /\ store' = Append(store, Head(unsaved))
  /\ unsaved' = Tail(unsaved)
  /\ UNCHANGED <<strategy, pc, loop, pending, history, runs, lastId, faults>>

Return ==
  /\ pc = "persist" /\ unsaved = <<>>
  /\ excused' = IF compacted THEN excused \cup Orphans(FromStored(store)) ELSE excused
  /\ Leave
  /\ UNCHANGED <<strategy, store, pending, runs, lastId, faults>>

\* The run fails: the provider or a target fails, a background task is refused,
\* or the store rejects a request.  Nothing more is persisted; tasks that were
\* started before the refused one go on.
RunFails ==
  /\ pc \in {"llm", "tools", "handoff", "ended", "persist"} /\ Fault
  /\ pc = "tools" => OfKind("background") # <<>> /\ SyncSettled
  /\ pending' \in {pending} \cup (IF pc = "tools" THEN {TRUE} ELSE {})
  /\ excused' = excused \cup Orphans(FromStored(store))
  /\ Leave
  /\ UNCHANGED <<strategy, store, runs, lastId>>

\* The process dies, and with it the background tasks.
Crash ==
  /\ pc # "idle" /\ Fault
  /\ excused' = excused \cup Orphans(FromStored(store))
  /\ Leave
  /\ pending' = FALSE
  /\ UNCHANGED <<strategy, store, runs, lastId>>

Next ==
  \/ \E memory \in BOOLEAN : StartRun(memory)
  \/ BeginIteration \/ EndLoop \/ Answers \/ CallsTools
  \/ \E c \in Id : ToolReturns(c) \/ ToolTimesOut(c)
  \/ LaunchTasks
  \/ \E found \in BOOLEAN : Handoff(found)
  \/ ApplyToolResults \/ HandedOff
  \/ Persist \/ SaveMessage \/ Return \/ RunFails \/ Crash

\* The run goes on as long as it can: the provider and the agents handed off
\* to answer, the store accepts messages, and tools time out.
RunStep ==
  \/ BeginIteration \/ EndLoop \/ Answers \/ CallsTools \/ LaunchTasks
  \/ (\E found \in BOOLEAN : Handoff(found))
  \/ ApplyToolResults \/ HandedOff \/ Persist \/ SaveMessage \/ Return

Fairness == WF_vars(RunStep) /\ \A c \in Id : WF_vars(ToolTimesOut(c))

Spec == Init /\ [][Next]_vars /\ Fairness

-----------------------------------------------------------------------------
(* The loop's position agrees with the turn it is in.                      *)
TypeOK ==
  /\ strategy \in Strategy
  /\ pc \in {"idle", "iterate", "llm", "tools", "handoff", "ended", "persist"}
  /\ iteration \in 0..MaxIterations
  /\ \A ms \in {store, unsaved, messages, kept, said} :
       /\ ms \in Seq(Message)
       /\ \A i \in DOMAIN ms :
            /\ ToSet(ms[i].uses) \cup ToSet(ms[i].results) \subseteq 1..lastId
            /\ ms[i].pruned \subseteq ToSet(ms[i].results)
  /\ shared => messages = kept
  /\ call # <<>> <=> pc \in {"tools", "handoff"}
  /\ settled \subseteq ToSet(Ids(call))
  /\ handed.count <= Len(OfKind("handoff"))
  /\ unsaved # <<>> => pc = "persist"

\* The messages of the request that the provider, or a target, answers.
Request == IF pc \in {"llm", "handoff"} THEN messages ELSE <<>>

(* A request holds a call without its results, or results without their    *)
(* call, only for one of four reasons: the turn was handed off, a summary  *)
(* cut between the two, messages were compacted as a run started (which    *)
(* moves the slice that is stored), or a fault stopped a run while it was  *)
(* storing its messages.  Timeouts, background tasks, pruning, the sliding *)
(* window, memory snapshots and the conversions of messages never cause it. *)
OrphansHaveCause ==
  Orphans(Request) \subseteq excused \cup (IF pc = "handoff" THEN ToSet(Ids(call)) ELSE {})

\* The run's input and all that was said, and nothing else, is added to the
\* store, once the rest is stored.
AllIsStored == store \o unsaved = began \o (<<Input>> \o ToStored(said))

(* A run whose messages were neither compacted at its start nor replaced   *)
(* in its loop stores its input and all that was said, once.               *)
SavesWhatWasSaid == pc = "persist" /\ shared /\ ~compacted => AllIsStored

(* What the tests of persistence expect: a run stores its input and all    *)
(* that was said, whatever the context window did to the requests.  The    *)
(* loop's messages are another array after it did something, which is not  *)
(* the one that is persisted.                                              *)
EveryTurnIsSaved == pc = "persist" /\ ~compacted => AllIsStored

(* However a context was pruned, the store keeps results as they were.     *)
StoredIsVerbatim == \A i \in DOMAIN store : store[i].pruned = {}

(* Runs come back, also when no tool's function ever settles.              *)
RunsReturn == pc # "idle" ~> pc = "idle"

=============================================================================
