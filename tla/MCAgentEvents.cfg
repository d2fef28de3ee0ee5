SPECIFICATION Spec
CONSTANTS
  r1 = r1
  r2 = r2
  o1 = o1
  Run <- MCRun
  Scenario <- MCScenario
  Observer <- MCObserver
  Capacity = 1
  MaxEvents = 2
  MaxFaults = 1
INVARIANTS TypeOK TailIsTold OneLateEvent StreamsEndOnce
PROPERTIES ObserversEnd RequestsEnd
\* The runs are over.
CHECK_DEADLOCK FALSE
