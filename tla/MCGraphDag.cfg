SPECIFICATION Spec
CONSTANTS
  a = a  b = b  c = c  d = d
  yes = yes  no = no
  Undefined = Undefined
  NoNode = NoNode
  Node = {a, b, c, d}
  Output = {yes, no}
  Returns <- MCReturns
  Edge <- MCEdge
  Waves <- MCWaves
  BackEdge <- MCBackEdge
  UniqueVersions = TRUE
  LatestOnly = TRUE
  MaxCalls = 4
  MaxFaults = 1
INVARIANTS BranchesFollowConditions InterruptedIsDurable LatestIsNewest NoFailureRecorded
PROPERTIES RunSpec ResultsKept
\* A session is idle for ever when its caller starts no further call.
CHECK_DEADLOCK FALSE
