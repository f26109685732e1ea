CONSTANTS
  None = None
  MaxMisses = 2
  MaxFails = 2
SPECIFICATION Spec
INVARIANTS TimerFindsRunning HealthyCheckedIn
PROPERTY StoppedStays
CHECK_DEADLOCK FALSE
