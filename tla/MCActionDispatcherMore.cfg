\* INVARIANTs RetriedHasNoExpiration and ScheduledIsShown are refuted.
SPECIFICATION Spec
CONSTANTS
  Inputs <- MCInputs
  Width = 2
  Wait <- MCWait
  MaxTime = 2
  MaxCheckins = 2
  MaxStops = 1
  MaxSaveErrors = 1
INVARIANTS TypeOK EndedStaysEnded RetryBudget SavedWhenIdle
CHECK_DEADLOCK FALSE
