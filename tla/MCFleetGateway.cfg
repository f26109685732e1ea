CONSTANTS
  Hosts = {h1, h2}
  FirstHost = h1
  None = None
  UnauthLimit = 0
  MaxChanges = 1
  MaxActions = 1
  MaxPolicies = 2
  MaxFaults = 2
SPECIFICATION Spec
INVARIANTS TokenCoversHeld NoStaleCheckin ConfigBeforeAction
PROPERTY PolicyConverges
CHECK_DEADLOCK FALSE
