CONSTANTS
  None = None
  MaxMisses = 2
  MaxFails = 2
SPECIFICATION Spec
INVARIANT TornDown
PROPERTIES StopEnds EventuallyServed
CHECK_DEADLOCK FALSE
