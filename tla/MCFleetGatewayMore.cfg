\* PROPERTY ClientConverges is refuted; with MaxFaults = 2, so is PolicyRestored.
CONSTANTS
  Hosts = {h1, h2}
  FirstHost = h1
  None = None
  UnauthLimit = 1
  MaxChanges = 1
  MaxActions = 1
  MaxPolicies = 2
  MaxFaults = 1
SPECIFICATION Spec
INVARIANT TypeOK
PROPERTY CheckinConverges
CHECK_DEADLOCK FALSE
