\* Refuted as well: INVARIANTs RejectedNeverRuns and OneConfiguration; under FairSpec
\* PROPERTYs ControllerStops, FetchIsLive, LockEnds and LockedOut (Kinds <- KindsTwo and
\* MaxActions = 2 are enough for ControllerStops and LockEnds).
SPECIFICATION Spec
CONSTANTS
  p1 = p1
  p2 = p2
  Providers = {p1, p2}
  Fetch = {p2}
  Kinds <- KindsAll
  MaxActions = 3
  MaxChanges = 1
  MaxFaults = 1
INVARIANT RejectionIsShown
CHECK_DEADLOCK FALSE
