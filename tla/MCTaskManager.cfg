SPECIFICATION Spec
CONSTANTS
  t1 = t1  t2 = t2
  r1 = r1  r2 = r2
  TaskId <- MCTaskId
  Run <- MCRun
  MaxConcurrent = 1
  MaxLifetime = 1
  Retention = 1
  MaxTime = 4
INVARIANTS TypeOK CompletionsAreTold ToldAgainWithinTick
PROPERTIES SettledOnce RemovalSparesCheckingRuns SlotsAreFreed
\* The model ends when the clock does.
CHECK_DEADLOCK FALSE
