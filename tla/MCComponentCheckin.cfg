CONSTANTS
  Units = {u}
  Configs = {c1, c2}
  First = c1
  None = None
  Off = Off
  Bad = Bad
  MaxUpdates = 2
  MaxStreams = 2
  MaxCrashes = 1
SPECIFICATION Spec
INVARIANTS ConfigNeverMissing
PROPERTIES Converges RuntimeReturns
CHECK_DEADLOCK FALSE
CONSTRAINT Ordinary
