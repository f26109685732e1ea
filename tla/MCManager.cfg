SPECIFICATION FairSpec
CONSTANTS
  Comps = {a}
  MaxModels = 3
  MaxCrashes = 2
INVARIANT OneProcess
PROPERTIES LastModelRuns ShutdownEnds
CHECK_DEADLOCK FALSE
