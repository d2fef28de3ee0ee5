-------------------------- MODULE TaskManagerProof --------------------------
(***************************************************************************)
(* What the runs of an agent are told of their background tasks, for any   *)
(* number of tasks and runs and any configuration.                         *)
(***************************************************************************)
EXTENDS TaskManager, TLAPS

(* TypeOK says nothing of the domains of the functions it looks into.      *)
Domains ==
  /\ startedAt \in [TaskId -> Nat] /\ completedAt \in [TaskId -> Nat]
  /\ lastCheck \in [Run -> Nat] /\ begun \in [Run -> Nat] /\ checked \in [Run -> Nat]
  /\ told \in [Run -> SUBSET TaskId]

TypeInv == TypeOK /\ Domains

LEMMA TypeInit == Init => TypeInv
<1> SUFFICES ASSUME Init PROVE TypeInv
  OBVIOUS
<1>1. Domains
  BY DEF Init, Domains
<1>2. TypeOK
  BY ConfigAssumption DEF Init, TypeOK, Settled
<1> QED
  BY <1>1, <1>2 DEF TypeInv

(* A task settles at the current time, not before it has started.          *)
LEMMA SettleType ==
  ASSUME TypeInv, NEW t \in TaskId, state[t] = "running", NEW s \in Settled, Settle(t, s),
         UNCHANGED <<now, startedAt, runs>>,
         \/ function' = [function EXCEPT ![t] = "settled"]
         \/ UNCHANGED function /\ now >= startedAt[t] + MaxLifetime
  PROVE  TypeInv'
<1>1. Domains'
  BY DEF TypeInv, TypeOK, Domains, Settle, runs
<1>2. state' \in [TaskId -> {"absent", "running", "deleted"} \cup Settled]
  BY DEF TypeInv, TypeOK, Settle
<1>3. function' \in [TaskId -> {"none", "running", "settled"}]
  BY DEF TypeInv, TypeOK
<1>4. ASSUME NEW u \in TaskId
      PROVE  /\ startedAt'[u] \in 0..now'
             /\ state'[u] \in Settled => completedAt'[u] \in startedAt'[u]..now'
             /\ state'[u] \in Settled /\ function'[u] = "running" =>
                  completedAt'[u] - startedAt'[u] >= MaxLifetime
  BY ConfigAssumption DEF TypeInv, TypeOK, Domains, Settle
<1> QED
  BY <1>1, <1>2, <1>3, <1>4 DEF TypeInv, TypeOK, runs

(* Whatever happens to a run, its times stay between its start and now.    *)
LEMMA RunType ==
  ASSUME TypeInv, NEW r \in Run, UNCHANGED <<now, tasks>>,
         Leave(r) \/ BeginRun(r) \/ Notify(r)
  PROVE  TypeInv'
<1>1. Domains' /\ run' \in [Run -> {"new", "active", "over"}]
  BY ConfigAssumption DEF TypeInv, TypeOK, Domains, Leave, BeginRun, Notify, CompletedSince, tasks
<1>2. ASSUME NEW q \in Run
      PROVE  /\ lastCheck'[q] \in begun'[q]..now'
             /\ checked'[q] \in begun'[q]..now'
             /\ told'[q] \subseteq TaskId
  BY ConfigAssumption DEF TypeInv, TypeOK, Domains, Leave, BeginRun, Notify, CompletedSince, tasks
<1> QED
  BY <1>1, <1>2 DEF TypeInv, TypeOK, tasks

LEMMA TypeNext == TypeInv /\ [Next]_vars => TypeInv'
<1> SUFFICES ASSUME TypeInv, [Next]_vars PROVE TypeInv'
  OBVIOUS
<1>1. CASE UNCHANGED vars
  BY <1>1 DEF vars, tasks, runs, TypeInv, TypeOK, Domains
<1>2. CASE Tick
  <2>1. now' \in 0..MaxTime /\ now' = now + 1 /\ now \in Nat
    BY <1>2, ConfigAssumption DEF Tick, TypeInv, TypeOK
  <2> QED
    BY <1>2, <2>1, ConfigAssumption DEF Tick, tasks, runs, TypeInv, TypeOK, Domains
<1>3. ASSUME NEW t \in TaskId, Returns(t) PROVE TypeInv'
  <2>1. CASE state[t] = "running"
    BY <1>3, <2>1, SettleType DEF Returns
  <2>2. CASE state[t] # "running"
    BY <1>3, <2>2 DEF Returns, runs, TypeInv, TypeOK, Domains
  <2> QED
    BY <2>1, <2>2
<1>4. ASSUME NEW t \in TaskId, TimesOut(t) PROVE TypeInv'
  BY <1>4, SettleType DEF TimesOut, Settled
<1>5. ASSUME NEW r \in Run, NEW t \in TaskId, Start(r, t) PROVE TypeInv'
  <2>1. now \in Nat
    BY ConfigAssumption DEF TypeInv, TypeOK
  <2> QED
    BY <1>5, <2>1 DEF Start, runs, Settled, TypeInv, TypeOK, Domains
<1>6. ASSUME NEW r \in Run, StartRefused(r) \/ BeginRun(r) \/ Notify(r) \/ LeaveRun(r)
      PROVE  TypeInv'
  <2>1. UNCHANGED <<now, tasks>> /\ (Leave(r) \/ BeginRun(r) \/ Notify(r))
    BY <1>6 DEF StartRefused, LeaveRun, BeginRun, Notify
  <2> QED
    BY <2>1, RunType
<1>7. ASSUME NEW r \in Run, EndRun(r) PROVE TypeInv'
  <2>1. Domains' /\ run' \in [Run -> {"new", "active", "over"}]
    BY <1>7 DEF EndRun, Leave, TypeInv, TypeOK, Domains
  <2>2. state' \in [TaskId -> {"absent", "running", "deleted"} \cup Settled]
    BY <1>7 DEF EndRun, TypeInv, TypeOK
  <2>3. now \in Nat
    BY ConfigAssumption DEF TypeInv, TypeOK
  <2>4. ASSUME NEW u \in TaskId
        PROVE  /\ startedAt'[u] \in 0..now'
               /\ state'[u] \in Settled => completedAt'[u] \in startedAt'[u]..now'
               /\ state'[u] \in Settled /\ function'[u] = "running" =>
                    completedAt'[u] - startedAt'[u] >= MaxLifetime
    BY <1>7, <2>3 DEF EndRun, TypeInv, TypeOK, Domains, Settled, Expired
  <2>5. ASSUME NEW q \in Run
        PROVE  /\ lastCheck'[q] \in begun'[q]..now'
               /\ checked'[q] \in begun'[q]..now'
               /\ told'[q] \subseteq TaskId
    BY <1>7, <2>3 DEF EndRun, Leave, TypeInv, TypeOK, Domains
  <2> QED
    BY <1>7, <2>1, <2>2, <2>4, <2>5 DEF EndRun, TypeInv, TypeOK
<1> QED
  BY <1>1, <1>2, <1>3, <1>4, <1>5, <1>6, <1>7 DEF Next

(* A settled task has the times of its life, and one whose function is     *)
(* still running has had its whole lifetime.                               *)
THEOREM TypeCorrect == Spec => []TypeOK
<1>1. TypeInv => TypeOK
  BY DEF TypeInv
<1> QED
  BY <1>1, TypeInit, TypeNext, PTL DEF Spec

-----------------------------------------------------------------------------
(* An answer after the timeout, and a timer after the answer, change       *)
(* nothing: of the two sides of the race only the first settles the task.  *)
THEOREM SettledOnceThm == Spec => SettledOnce
<1>1. ASSUME TypeInv, [Next]_vars, NEW t \in TaskId, state[t] \in Settled
      PROVE  \/ state'[t] = "deleted"
             \/ state'[t] = state[t] /\ completedAt'[t] = completedAt[t]
  <2>1. CASE UNCHANGED vars \/ Tick
    BY <2>1 DEF vars, tasks, Tick
  <2>2. ASSUME NEW u \in TaskId, Returns(u) \/ TimesOut(u) \/ \E r \in Run : Start(r, u)
        PROVE  state'[t] = state[t] /\ completedAt'[t] = completedAt[t]
    BY <1>1, <2>2 DEF Returns, TimesOut, Start, Settle, Settled, TypeInv, TypeOK, Domains
  <2>3. ASSUME NEW r \in Run, StartRefused(r) \/ BeginRun(r) \/ Notify(r) \/ LeaveRun(r)
        PROVE  state'[t] = state[t] /\ completedAt'[t] = completedAt[t]
    BY <2>3 DEF StartRefused, BeginRun, Notify, LeaveRun, tasks
  <2>4. ASSUME NEW r \in Run, EndRun(r)
        PROVE  \/ state'[t] = "deleted"
               \/ state'[t] = state[t] /\ completedAt'[t] = completedAt[t]
    BY <2>4 DEF EndRun
  <2> QED
    BY <1>1, <2>1, <2>2, <2>3, <2>4 DEF Next
<1>2. TypeInv /\ [Next]_vars =>
        [\A t \in TaskId : state[t] \in Settled =>
           \/ state'[t] = "deleted"
           \/ state'[t] = state[t] /\ completedAt'[t] = completedAt[t]]_vars
  BY <1>1
<1> QED
  BY <1>2, TypeInit, TypeNext, PTL DEF Spec, SettledOnce

-----------------------------------------------------------------------------
(* What a run knows.  A check looks back to the last one that had          *)
(* something to tell, hence at least to the last check.                    *)
LooksBack == \A r \in Run : lastCheck[r] <= checked[r]

(* Only tasks that have settled are told of.                               *)
ToldHaveSettled == \A r \in Run : \A t \in told[r] : state[t] \in Settled \cup {"deleted"}

NoticeInv == LooksBack /\ ToldHaveSettled /\ CompletionsAreTold /\ ToldAgainWithinTick

LEMMA NoticeInit == Init => NoticeInv
BY DEF Init, NoticeInv, LooksBack, ToldHaveSettled, CompletionsAreTold, ToldAgainWithinTick,
       Settled, CompletedSince

(* Tasks start, settle and are removed without a run noticing.             *)
LEMMA TasksNotice ==
  ASSUME TypeInv, NoticeInv, UNCHANGED runs,
         \A t \in TaskId :
           \/ state'[t] = state[t] /\ completedAt'[t] = completedAt[t]
           \/ state[t] \notin Settled \cup {"deleted"} /\ state'[t] \notin Settled
           \/ state[t] \notin Settled \cup {"deleted"} /\ completedAt'[t] = now
  PROVE  NoticeInv'
<1> USE DEF NoticeInv
<1>1. LooksBack'
  BY DEF LooksBack, runs
<1>2. ToldHaveSettled' /\ ToldAgainWithinTick'
  <2> SUFFICES ASSUME NEW r \in Run, NEW t \in told'[r]
               PROVE  /\ state'[t] \in Settled \cup {"deleted"}
                      /\ t \in CompletedSince(lastCheck[r])' => completedAt'[t] = lastCheck'[r]
    BY DEF ToldHaveSettled, ToldAgainWithinTick
  <2>1. t \in told[r] /\ t \in TaskId /\ state[t] \in Settled \cup {"deleted"}
    BY DEF runs, ToldHaveSettled, TypeInv, TypeOK
  <2>2. state'[t] = state[t] /\ completedAt'[t] = completedAt[t]
    BY <2>1
  <2> QED
    BY <2>1, <2>2 DEF runs, CompletedSince, ToldAgainWithinTick
<1>3. CompletionsAreTold'
  <2> SUFFICES ASSUME NEW r \in Run, NEW t \in TaskId, state'[t] \in Settled,
                      begun[r] <= completedAt'[t], completedAt'[t] < checked[r]
               PROVE  t \in told[r]
    BY DEF CompletionsAreTold, runs
  <2>1. checked[r] <= now /\ now \in Nat /\ checked[r] \in Nat
    BY ConfigAssumption DEF TypeInv, TypeOK, Domains
  <2>2. state'[t] = state[t] /\ completedAt'[t] = completedAt[t]
    BY <2>1
  <2> QED
    BY <2>2 DEF CompletionsAreTold
<1> QED
  BY <1>1, <1>2, <1>3

(* A run that checks is told of all that settled since the check before.   *)
LEMMA NotifyNotices ==
  ASSUME TypeInv, NoticeInv, NEW r \in Run, Notify(r)
  PROVE  NoticeInv'
<1> USE DEF NoticeInv
<1>1. UNCHANGED <<now, tasks, run, begun>>
  BY DEF Notify
<1>2. ASSUME NEW q \in Run, q # r
      PROVE  lastCheck'[q] = lastCheck[q] /\ checked'[q] = checked[q] /\ told'[q] = told[q]
  BY <1>2 DEF Notify, TypeInv, Domains
<1>3. /\ checked'[r] = now /\ told'[r] = told[r] \cup CompletedSince(lastCheck[r])
      /\ lastCheck'[r] = IF CompletedSince(lastCheck[r]) = {} THEN lastCheck[r] ELSE now
  BY DEF Notify, TypeInv, Domains
<1>4. now \in Nat /\ lastCheck[r] \in Nat /\ lastCheck[r] <= now /\ begun[r] \in Nat
  BY ConfigAssumption DEF TypeInv, TypeOK, Domains
<1>5. LooksBack'
  BY <1>2, <1>3, <1>4 DEF LooksBack
<1>6. ToldHaveSettled'
  BY <1>1, <1>2, <1>3 DEF ToldHaveSettled, CompletedSince, tasks
<1>7. CompletionsAreTold'
  <2> SUFFICES ASSUME NEW q \in Run, NEW t \in TaskId, state[t] \in Settled,
                      begun[q] <= completedAt[t], completedAt[t] < checked'[q]
               PROVE  t \in told'[q]
    BY <1>1 DEF CompletionsAreTold, tasks
  <2>1. CASE q # r
    BY <1>2, <2>1 DEF CompletionsAreTold
  <2>2. CASE q = r /\ completedAt[t] >= lastCheck[r]
    BY <1>3, <2>2 DEF CompletedSince
  <2>3. CASE q = r /\ completedAt[t] < lastCheck[r]
    <3>1. completedAt[t] < checked[r]
      BY <2>3 DEF LooksBack, TypeInv, Domains
    <3> QED
      BY <1>3, <2>3, <3>1 DEF CompletionsAreTold
  <2> QED
    BY <1>4, <2>1, <2>2, <2>3 DEF TypeInv, Domains
<1>8. ToldAgainWithinTick'
  <2> SUFFICES ASSUME NEW q \in Run, NEW t \in told'[q], t \in CompletedSince(lastCheck'[q])
               PROVE  completedAt[t] = lastCheck'[q]
    BY <1>1 DEF ToldAgainWithinTick, CompletedSince, tasks
  <2>1. t \in TaskId /\ completedAt[t] \in Nat /\ completedAt[t] <= now
        /\ completedAt[t] >= lastCheck'[q]
    BY <1>4 DEF CompletedSince, TypeInv, TypeOK, Domains
  <2>2. CASE q # r
    BY <1>2, <2>2 DEF ToldAgainWithinTick
  <2>3. CASE q = r /\ CompletedSince(lastCheck[r]) = {}
    BY <1>3, <2>3 DEF ToldAgainWithinTick
  <2>4. CASE q = r /\ CompletedSince(lastCheck[r]) # {}
    BY <1>3, <1>4, <2>1, <2>4
  <2> QED
    BY <2>2, <2>3, <2>4
<1> QED
  BY <1>5, <1>6, <1>7, <1>8

(* A run that leaves forgets what it was told of.                          *)
LEMMA LeaveNotices ==
  ASSUME TypeInv, NoticeInv, NEW r \in Run, Leave(r),
         \A t \in TaskId : \/ state'[t] = state[t] /\ completedAt'[t] = completedAt[t]
                           \/ state'[t] = "deleted"
  PROVE  NoticeInv'
<1> USE DEF NoticeInv
<1>1. ASSUME NEW q \in Run, q # r
      PROVE  /\ lastCheck'[q] = lastCheck[q] /\ checked'[q] = checked[q]
             /\ told'[q] = told[q] /\ begun'[q] = begun[q]
  BY <1>1 DEF Leave, TypeInv, Domains
<1>2. lastCheck'[r] = 0 /\ checked'[r] = 0 /\ told'[r] = {} /\ begun'[r] = 0
  BY DEF Leave, TypeInv, Domains
<1>3. LooksBack'
  BY <1>1, <1>2 DEF LooksBack
<1>4. ToldHaveSettled'
  BY <1>1, <1>2 DEF ToldHaveSettled, TypeInv, Domains
<1>5. CompletionsAreTold'
  <2> SUFFICES ASSUME NEW q \in Run, NEW t \in TaskId, state'[t] \in Settled,
                      begun'[q] <= completedAt'[t], completedAt'[t] < checked'[q]
               PROVE  t \in told'[q]
    BY DEF CompletionsAreTold
  <2>1. state[t] \in Settled /\ completedAt'[t] = completedAt[t] /\ completedAt[t] \in Nat
    BY DEF Settled, TypeInv, Domains
  <2> QED
    BY <1>1, <1>2, <2>1 DEF CompletionsAreTold
<1>6. ToldAgainWithinTick'
  BY <1>1, <1>2 DEF ToldAgainWithinTick, CompletedSince, Settled
<1> QED
  BY <1>3, <1>4, <1>5, <1>6

LEMMA NoticeNext == TypeInv /\ NoticeInv /\ [Next]_vars => NoticeInv'
<1> SUFFICES ASSUME TypeInv, NoticeInv, [Next]_vars PROVE NoticeInv'
  OBVIOUS
<1>1. CASE UNCHANGED vars \/ Tick
  <2>1. UNCHANGED <<tasks, runs>>
    BY <1>1 DEF vars, Tick
  <2> QED
    BY <2>1, TasksNotice DEF tasks
<1>2. ASSUME NEW t \in TaskId, Returns(t) \/ TimesOut(t) \/ \E r \in Run : Start(r, t)
      PROVE  NoticeInv'
  <2>1. UNCHANGED runs
    BY <1>2 DEF Returns, TimesOut, Start
  <2>2. \A u \in TaskId :
          \/ state'[u] = state[u] /\ completedAt'[u] = completedAt[u]
          \/ state[u] \notin Settled \cup {"deleted"} /\ state'[u] \notin Settled
          \/ state[u] \notin Settled \cup {"deleted"} /\ completedAt'[u] = now
    BY <1>2 DEF Returns, TimesOut, Start, Settle, Settled, TypeInv, TypeOK, Domains
  <2> QED
    BY <2>1, <2>2, TasksNotice
<1>3. ASSUME NEW r \in Run, BeginRun(r)
      PROVE  NoticeInv'
  <2>1. /\ UNCHANGED <<now, tasks, told>> /\ now \in Nat
        /\ lastCheck' = [lastCheck EXCEPT ![r] = now]
        /\ begun' = [begun EXCEPT ![r] = now] /\ checked' = [checked EXCEPT ![r] = now]
    BY <1>3, ConfigAssumption DEF BeginRun, TypeInv, TypeOK
  <2>2. LooksBack' /\ ToldHaveSettled' /\ CompletionsAreTold'
    BY <2>1 DEF NoticeInv, LooksBack, ToldHaveSettled, CompletionsAreTold, tasks, TypeInv, Domains
  <2>3. ToldAgainWithinTick'
    <3> SUFFICES ASSUME NEW q \in Run, NEW t \in told[q], t \in CompletedSince(lastCheck'[q])
                 PROVE  completedAt[t] = lastCheck'[q]
      BY <2>1 DEF ToldAgainWithinTick, CompletedSince, tasks
    <3>1. CASE q # r
      BY <2>1, <3>1 DEF NoticeInv, ToldAgainWithinTick, TypeInv, Domains
    <3>2. CASE q = r
      BY <2>1, <3>2 DEF CompletedSince, TypeInv, TypeOK, Domains
    <3> QED
      BY <3>1, <3>2
  <2> QED
    BY <2>2, <2>3 DEF NoticeInv
<1>4. ASSUME NEW r \in Run, Notify(r)
      PROVE  NoticeInv'
  BY <1>4, NotifyNotices
<1>5. ASSUME NEW r \in Run, StartRefused(r) \/ EndRun(r) \/ LeaveRun(r)
      PROVE  NoticeInv'
  <2>1. Leave(r)
    BY <1>5 DEF StartRefused, EndRun, LeaveRun
  <2>2. \A t \in TaskId : \/ state'[t] = state[t] /\ completedAt'[t] = completedAt[t]
                          \/ state'[t] = "deleted"
    BY <1>5 DEF StartRefused, EndRun, LeaveRun, tasks
  <2> QED
    BY <2>1, <2>2, LeaveNotices
<1> QED
  BY <1>1, <1>2, <1>3, <1>4, <1>5 DEF Next

IInv == TypeInv /\ NoticeInv

LEMMA Inductive == Spec => []IInv
<1>1. Init => IInv
  BY TypeInit, NoticeInit DEF IInv
<1>2. IInv /\ [Next]_vars => IInv'
  BY TypeNext, NoticeNext DEF IInv
<1> QED
  BY <1>1, <1>2, PTL DEF Spec

(* No completion falls between two checks of a run: whatever settled since *)
(* the run began and before a check is among what that check, or an        *)
(* earlier one, told.                                                      *)
THEOREM Told == Spec => []CompletionsAreTold
<1>1. IInv => CompletionsAreTold
  BY DEF IInv, NoticeInv
<1> QED
  BY <1>1, Inductive, PTL

(* A run is told twice of a task only if the task settled in the           *)
(* millisecond of the check.                                               *)
THEOREM ToldAgain == Spec => []ToldAgainWithinTick
<1>1. IInv => ToldAgainWithinTick
  BY DEF IInv, NoticeInv
<1> QED
  BY <1>1, Inductive, PTL

(* cleanup at the end of one run takes a task away from another run that   *)
(* has not been told of it only if that run has not checked for longer     *)
(* than the retention time.                                                *)
THEOREM RemovalSparesThm == Spec => RemovalSparesCheckingRuns
<1> DEFINE Spares == \A r \in Run, t \in TaskId :
             state[t] # "deleted" /\ state'[t] = "deleted" /\ Unaware(r, t) =>
               checked[r] + Retention < now
<1>1. ASSUME IInv, [Next]_vars, NEW r \in Run, NEW t \in TaskId,
             state[t] # "deleted", state'[t] = "deleted", Unaware(r, t)
      PROVE  checked[r] + Retention < now
  <2>1. PICK q \in Run : EndRun(q)
    <3>1. ~ (UNCHANGED vars \/ Tick)
      BY <1>1 DEF vars, tasks, Tick
    <3>2. ASSUME NEW u \in TaskId PROVE ~ (Returns(u) \/ TimesOut(u) \/ \E p \in Run : Start(p, u))
      BY <1>1 DEF Returns, TimesOut, Start, Settle, Settled, IInv, TypeInv, TypeOK
    <3>3. ASSUME NEW p \in Run PROVE ~ (StartRefused(p) \/ BeginRun(p) \/ Notify(p) \/ LeaveRun(p))
      BY <1>1 DEF StartRefused, BeginRun, Notify, LeaveRun, tasks
    <3> QED
      BY <1>1, <3>1, <3>2, <3>3 DEF Next
  <2>2. Expired(t)
    BY <1>1, <2>1 DEF EndRun
  <2>3. checked[r] <= completedAt[t]
    BY <1>1, <2>2 DEF Expired, Unaware, IInv, NoticeInv, CompletionsAreTold, TypeInv, Domains
  <2>4. now \in Nat /\ checked[r] \in Nat /\ completedAt[t] \in Nat
    BY <1>1, ConfigAssumption DEF IInv, TypeInv, TypeOK, Domains
  <2> QED
    BY <2>2, <2>3, <2>4, ConfigAssumption DEF Expired
<1>2. IInv /\ [Next]_vars => [Spares]_vars
  BY <1>1
<1> QED
  BY <1>2, Inductive, PTL DEF Spec, RemovalSparesCheckingRuns

=============================================================================
