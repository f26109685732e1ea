\* Refuted as well: INVARIANTs LoopIsFree and AlwaysTornDown.
CONSTANTS
  None = None
  MaxMisses = 2
  MaxFails = 1
SPECIFICATION Spec
INVARIANT NeverReused
CHECK_DEADLOCK FALSE
