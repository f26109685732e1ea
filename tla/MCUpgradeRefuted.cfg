\* Refuted as well: INVARIANT AckedHasLanded.
CONSTANTS
  Homes = {1, 2}
  None = None
  MaxRequests = 2
  MaxRollbacks = 1
  MaxEvents = 1
SPECIFICATION Spec
INVARIANT FailsOwnUpgrade
CHECK_DEADLOCK FALSE
