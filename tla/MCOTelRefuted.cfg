\* Refuted as well: PROPERTYs StoppedIsShown, StatusIsRight and WriteIsRetried.
CONSTANTS
  c1 = c1
  c2 = c2
  c3 = c3
  Configs = {c1, c2, c3}
  Verbose = {c3}
  None = None
  Empty = Empty
  MaxUpdates = 2
  MaxFaults = 2
SPECIFICATION Spec
INVARIANT RecoveryIsArmed
CHECK_DEADLOCK FALSE
