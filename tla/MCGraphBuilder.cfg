SPECIFICATION Spec
CONSTANTS
  Id <- MCId
  Inputs <- MCInputs
INVARIANTS WavesAreLevels CyclesRejected BuiltIsConnected CyclesRunFromTargetToSource
\* A graph that is built or rejected stays so.
CHECK_DEADLOCK FALSE
