SPECIFICATION FairSpec
CONSTANTS
  a = a  b = b  c = c
  yes = yes  no = no
  Undefined = Undefined
  NoNode = NoNode
  Node = {a, b, c}
  Output = {yes, no}
  Returns <- MCReturns
  Edge <- MCEdge
  Waves <- MCWaves
  BackEdge <- MCBackEdge
  UniqueVersions = FALSE
  LatestOnly = FALSE
  MaxCalls = 2
  MaxFaults = 1
INVARIANTS TypeOK ProgressInv InterruptedIsDurable FailsForCause
PROPERTIES RunSpec UntilStops CallsReturn
\* A session is idle for ever when its caller starts no further call.
CHECK_DEADLOCK FALSE
