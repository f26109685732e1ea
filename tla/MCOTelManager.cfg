CONSTANTS
  c1 = c1
  c2 = c2
  c3 = c3
  Configs = {c1, c2, c3}
  Verbose = {c3}
  None = None
  Empty = Empty
  MaxUpdates = 2
  MaxFaults = 2
SPECIFICATION Spec
INVARIANT OneCollector
PROPERTIES RunsLatest StatusConverges ShutdownEnds
CHECK_DEADLOCK FALSE
