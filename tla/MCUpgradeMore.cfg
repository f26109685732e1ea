CONSTANTS
  Homes = {1, 2}
  None = None
  MaxRequests = 2
  MaxRollbacks = 1
  MaxEvents = 2
SPECIFICATION Spec
INVARIANTS LiveHomeComplete RollbackTargetKept RollbackIsReal
PROPERTY EventuallySettled
CONSTRAINT Undisturbed
CHECK_DEADLOCK FALSE
