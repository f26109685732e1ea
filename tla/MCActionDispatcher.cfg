SPECIFICATION FairSpec
CONSTANTS
  Inputs <- MCInputs
  Width = 2
  Wait <- MCWait
  MaxTime = 2
  MaxCheckins = 2
  MaxStops = 1
  MaxSaveErrors = 1
INVARIANTS OneUpgradePending NoActionLost DetailsFollowQueue
PROPERTY EventuallyDispatched
CHECK_DEADLOCK FALSE
