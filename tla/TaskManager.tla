----------------------------- MODULE TaskManager -----------------------------
(***************************************************************************)
(* The background tasks of one agent: its TaskManager, the functions the   *)
(* tasks race against their lifetime, and the runs of the agent, which     *)
(* share the manager, start tasks, are told of completed ones at the start *)
(* of every iteration and clean up when they end.                          *)
(*                                                                         *)
(* Time is Date.now() and the timers' clock.  The functions that agents    *)
(* start return promises: they may settle at any time or never, and settle *)
(* after their task has timed out.  Results and events are left out.       *)
(***************************************************************************)
EXTENDS Naturals, FiniteSets

CONSTANTS
  TaskId,         \* ids that crypto.randomUUID may give, all different
  Run,            \* calls of agent.run
  MaxConcurrent,  \* config.maxConcurrent
  MaxLifetime,    \* config.maxLifetimeMs
  Retention,      \* config.retentionMs
  MaxTime         \* bound: the clock

ASSUME ConfigAssumption ==
  /\ MaxConcurrent \in Nat /\ MaxLifetime \in Nat /\ Retention \in Nat
  /\ MaxTime \in Nat

VARIABLES
  now,          \* the clock
  state,        \* state of the task in tasks; "absent" when it is not there yet
                \* and "deleted" when it was removed
  startedAt, completedAt,   \* times of a task
  function,     \* whether the task's function is "running" or "settled"
  run,          \* whether a run of the agent is "new", "active" or "over"
  lastCheck,    \* ctx.lastNotificationCheck of a run
  begun,        \* history: when the run entered its loop
  checked,      \* history: when the run last started an iteration
  told          \* history: the tasks the run was told of

tasks == <<state, startedAt, completedAt, function>>
runs == <<run, lastCheck, begun, checked, told>>
vars == <<now, tasks, runs>>

\* "answered" stands for completed and failed, which are treated alike.
Settled == {"answered", "timeout"}

Init ==
  /\ now = 0
  /\ state = [t \in TaskId |-> "absent"]
  /\ startedAt = [t \in TaskId |-> 0] /\ completedAt = [t \in TaskId |-> 0]
  /\ function = [t \in TaskId |-> "none"]
  /\ run = [r \in Run |-> "new"]
  /\ lastCheck = [r \in Run |-> 0]
  /\ begun = [r \in Run |-> 0] /\ checked = [r \in Run |-> 0]
  /\ told = [r \in Run |-> {}]

Tick ==
  /\ now < MaxTime
  /\ now' = now + 1
  /\ UNCHANGED <<tasks, runs>>

-----------------------------------------------------------------------------
(* Tasks.                                                                  *)

RunningCount == Cardinality({t \in TaskId : state[t] = "running"})

\* A run starts a task for a background tool call.  No task starts whose
\* timer would be due after MaxTime.
Start(r, t) ==
  /\ run[r] = "active"
  /\ now + MaxLifetime < MaxTime
  /\ RunningCount < MaxConcurrent
  /\ state[t] = "absent"
  /\ state' = [state EXCEPT ![t] = "running"]
  /\ startedAt' = [startedAt EXCEPT ![t] = now]
  /\ function' = [function EXCEPT ![t] = "running"]
  /\ UNCHANGED <<now, completedAt, runs>>

\* The context of a run goes with it.
Leave(r) ==
  /\ run' = [run EXCEPT ![r] = "over"]
  /\ lastCheck' = [lastCheck EXCEPT ![r] = 0]
  /\ begun' = [begun EXCEPT ![r] = 0] /\ checked' = [checked EXCEPT ![r] = 0]
  /\ told' = [told EXCEPT ![r] = {}]

\* TaskConcurrencyError: nothing catches it, and it ends the run.
StartRefused(r) ==
  /\ run[r] = "active"
  /\ RunningCount >= MaxConcurrent
  /\ Leave(r)
  /\ UNCHANGED <<now, tasks>>

Settle(t, s) ==
  /\ state' = [state EXCEPT ![t] = s]
  /\ completedAt' = [completedAt EXCEPT ![t] = now]

\* Mutant of Returns: a function that answers after the timeout settles the
\* task again.
ReturnsLate(t) ==
  /\ function[t] = "running"
  /\ function' = [function EXCEPT ![t] = "settled"]
  /\ state[t] # "deleted" /\ \E s \in Settled : Settle(t, s)
  /\ UNCHANGED <<now, startedAt, runs>>

\* The function fulfils or rejects.  It settles the task if it wins the race;
\* an error whose message is "Task timeout" counts as a timeout.
Returns(t) ==
  /\ function[t] = "running"
  /\ function' = [function EXCEPT ![t] = "settled"]
  /\ IF state[t] = "running" THEN \E s \in Settled : Settle(t, s)
                             ELSE UNCHANGED <<state, completedAt>>
  /\ UNCHANGED <<now, startedAt, runs>>

\* Mutant of TimesOut: the time of completion is forgotten.
TimesOutUndated(t) ==
  /\ state[t] = "running"
  /\ now >= startedAt[t] + MaxLifetime
  /\ state' = [state EXCEPT ![t] = "timeout"]
  /\ UNCHANGED <<now, startedAt, completedAt, function, runs>>

\* Mutant of TimesOut: the timer only fires for functions that have settled.
TimesOutWhenSettled(t) ==
  /\ state[t] = "running" /\ function[t] = "settled"
  /\ now >= startedAt[t] + MaxLifetime
  /\ Settle(t, "timeout")
  /\ UNCHANGED <<now, startedAt, function, runs>>

\* The timer wins the race; the function goes on.
TimesOut(t) ==
  /\ state[t] = "running"
  /\ now >= startedAt[t] + MaxLifetime
  /\ Settle(t, "timeout")
  /\ UNCHANGED <<now, startedAt, function, runs>>

-----------------------------------------------------------------------------
(* Runs.                                                                   *)

\* initializeLoop.
BeginRun(r) ==
  /\ run[r] = "new"
  /\ run' = [run EXCEPT ![r] = "active"]
  /\ lastCheck' = [lastCheck EXCEPT ![r] = now]
  /\ begun' = [begun EXCEPT ![r] = now]
  /\ checked' = [checked EXCEPT ![r] = now]
  /\ UNCHANGED <<now, tasks, told>>

\* Mutant of CompletedSince: completions at the time itself are left out.
CompletedAfter(time) == {t \in TaskId : state[t] \in Settled /\ completedAt[t] > time}

CompletedSince(time) == {t \in TaskId : state[t] \in Settled /\ completedAt[t] >= time}

\* Mutant of Notify: the time of the check is not kept.
NotifyAgain(r) ==
  /\ run[r] = "active"
  /\ told' = [told EXCEPT ![r] = @ \cup CompletedSince(lastCheck[r])]
  /\ checked' = [checked EXCEPT ![r] = now]
  /\ UNCHANGED <<now, tasks, run, lastCheck, begun>>

\* applyBackgroundNotifications at the start of an iteration: the time of
\* the check is kept when there is something to tell.
Notify(r) ==
  /\ run[r] = "active"
  /\ told' = [told EXCEPT ![r] = @ \cup CompletedSince(lastCheck[r])]
  /\ checked' = [checked EXCEPT ![r] = now]
  /\ lastCheck' = [lastCheck EXCEPT ![r] = IF CompletedSince(@) = {} THEN @ ELSE now]
  /\ UNCHANGED <<now, tasks, run, begun>>

\* Mutant of Expired: whatever has settled is removed.
ExpiredAtOnce(t) == state[t] \in Settled /\ completedAt[t] < now

\* completedAt < now - retentionMs, where the difference may be negative.
Expired(t) == state[t] \in Settled /\ completedAt[t] + Retention < now

\* finalizeLoop: the run ends and cleanup removes what is expired.
EndRun(r) ==
  /\ run[r] = "active"
  /\ Leave(r)
  /\ state' = [t \in TaskId |-> IF Expired(t) THEN "deleted" ELSE state[t]]
  /\ startedAt' = [t \in TaskId |-> IF Expired(t) THEN 0 ELSE startedAt[t]]
  /\ completedAt' = [t \in TaskId |-> IF Expired(t) THEN 0 ELSE completedAt[t]]
  /\ UNCHANGED <<now, function>>

\* The run fails or hands off to another agent: finalizeLoop is not reached.
LeaveRun(r) ==
  /\ run[r] = "active"
  /\ Leave(r)
  /\ UNCHANGED <<now, tasks>>

Next ==
  \/ Tick
  \/ \E t \in TaskId : Returns(t) \/ TimesOut(t)
  \/ \E r \in Run, t \in TaskId : Start(r, t)
  \/ \E r \in Run : \/ StartRefused(r) \/ BeginRun(r) \/ Notify(r)
                    \/ EndRun(r) \/ LeaveRun(r)

\* Time passes and timers that are due fire.  Functions need not settle and
\* runs need not go on.
Fairness == WF_vars(Tick) /\ \A t \in TaskId : WF_vars(TimesOut(t))

Spec == Init /\ [][Next]_vars /\ Fairness

-----------------------------------------------------------------------------
(* A task in the manager has the times its state calls for.                *)
TypeOK ==
  /\ now \in 0..MaxTime
  /\ state \in [TaskId -> {"absent", "running", "deleted"} \cup Settled]
  /\ function \in [TaskId -> {"none", "running", "settled"}]
  /\ run \in [Run -> {"new", "active", "over"}]
  /\ \A t \in TaskId :
       /\ startedAt[t] \in 0..now
       /\ state[t] \in Settled => completedAt[t] \in startedAt[t]..now
       /\ state[t] \in Settled /\ function[t] = "running" =>
            completedAt[t] - startedAt[t] >= MaxLifetime
  /\ \A r \in Run :
       /\ lastCheck[r] \in begun[r]..now
       /\ checked[r] \in begun[r]..now
       /\ told[r] \subseteq TaskId

(* The race settles a task once: an answer that arrives after the timeout  *)
(* changes neither its state nor the time it is announced under.           *)
SettledOnce ==
  [][\A t \in TaskId : state[t] \in Settled =>
       \/ state'[t] = "deleted"
       \/ state'[t] = state[t] /\ completedAt'[t] = completedAt[t]]_vars

(* What settled during a run, however close to one of its checks, the run  *)
(* has been told of by its first later check if it is still there.         *)
CompletionsAreTold ==
  \A r \in Run, t \in TaskId :
    state[t] \in Settled /\ begun[r] <= completedAt[t] /\ completedAt[t] < checked[r]
      => t \in told[r]

(* A run is told of a task again only when the task settled in the         *)
(* millisecond of the check that told it last.                             *)
ToldAgainWithinTick ==
  \A r \in Run : \A t \in told[r] \cap CompletedSince(lastCheck[r]) :
    completedAt[t] = lastCheck[r]

Unaware(r, t) == run[r] = "active" /\ begun[r] <= completedAt[t] /\ t \notin told[r]

(* The end of one run removes a task that another run has not been told of *)
(* only if that run has been in one iteration for longer than the          *)
(* retention time.                                                         *)
RemovalSparesCheckingRuns ==
  [][\A r \in Run, t \in TaskId :
       state[t] # "deleted" /\ state'[t] = "deleted" /\ Unaware(r, t) =>
         checked[r] + Retention < now]_vars

(* A task does not hold its place for ever, even if its function never     *)
(* settles.                                                                *)
SlotsAreFreed == \A t \in TaskId : state[t] = "running" ~> state[t] # "running"

=============================================================================
