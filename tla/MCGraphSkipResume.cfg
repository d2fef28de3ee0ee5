SPECIFICATION Spec
INVARIANT FailsForCause
CONSTANTS
  a = a  b = b  c = c  d = d
  yes = yes  no = no
  Undefined = Undefined
  NoNode = NoNode
  Node = {a, b, c, d}
  Output = {yes, no}
  Returns <- MCReturns
  Edge <- MCEdge
  Waves <- MCWaves
  BackEdge <- MCBackEdge
  UniqueVersions = FALSE
  LatestOnly = TRUE
  MaxCalls = 2
  MaxFaults = 0
\* A session is idle for ever when its caller starts no further call.
CHECK_DEADLOCK FALSE
