SPECIFICATION Spec
CONSTANTS
  ProtectedPairs = 1
  RecentBuffer = 2
  WindowSize = 3
  Strategy <- MCStrategy
  ToolConcurrency = 1
  MaxIterations = 2
  MaxRuns = 2
  MaxTurnCalls = 2
  MaxIds = 2
  MaxFaults = 1
INVARIANT EveryTurnIsSaved
CHECK_DEADLOCK FALSE
