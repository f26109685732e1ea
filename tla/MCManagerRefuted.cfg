\* Each exception that the properties make is needed: OneProcess, LiveIsTracked,
\* NoneLeftBehind and LastModelRuns without lost, and LastModelRuns without passed,
\* are refuted with MaxModels = 3.
SPECIFICATION FairSpec
CONSTANTS
  Comps = {a}
  MaxModels = 2
  MaxCrashes = 1
PROPERTY ShutdownAlwaysEnds
CHECK_DEADLOCK FALSE
