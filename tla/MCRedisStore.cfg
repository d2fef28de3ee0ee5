SPECIFICATION Spec
CONSTANTS
  s1 = s1  s2 = s2
  c1 = c1  c2 = c2
  NoSession = NoSession
  Session = {s1, s2}
  Client = {c1, c2}
  MaxTime = 1
  MaxCalls = 4
  MaxFaults = 1
SYMMETRY MCSymmetry
INVARIANTS TypeOK IndexedIsStored LeftoversHaveCause ForkIsPrefix
\* The calls are used up.
CHECK_DEADLOCK FALSE
