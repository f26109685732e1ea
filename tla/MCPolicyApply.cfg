SPECIFICATION FairSpec
CONSTANTS
  p1 = p1
  p2 = p2
  Providers = {p1, p2}
  Fetch = {p2}
  Kinds <- KindsAll
  MaxActions = 3
  MaxChanges = 1
  MaxFaults = 1
INVARIANT FailureIsShown
PROPERTIES VarsNeverGoBack LastPolicyRuns
CHECK_DEADLOCK FALSE
