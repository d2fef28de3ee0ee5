SPECIFICATION Spec
INVARIANT TraversalsBounded
CONSTANTS
  a = a  b = b  c = c
  yes = yes  no = no
  Undefined = Undefined
  NoNode = NoNode
  Node = {a, b, c}
  Output = {yes, no}
  Returns <- MCReturns
  Edge <- MCEdge
  Waves <- MCWaves
  BackEdge <- MCBackEdge
  UniqueVersions = FALSE
  LatestOnly = TRUE
  MaxCalls = 3
  MaxFaults = 0
\* A session is idle for ever when its caller starts no further call.
CHECK_DEADLOCK FALSE
