SPECIFICATION FairSpec
CONSTANTS
  p1 = p1
  p2 = p2
  Providers = {p1, p2}
  Fetch = {p2}
  Kinds <- KindsFew
  MaxActions = 3
  MaxChanges = 2
  MaxFaults = 1
INVARIANTS TypeOK FailureIsShown
PROPERTIES VarsNeverGoBack LastPolicyRuns
CHECK_DEADLOCK FALSE
