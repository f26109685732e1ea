SPECIFICATION Spec
CONSTANTS
  Comps = {a, b}
  MaxModels = 2
  MaxCrashes = 1
INVARIANTS TypeOK LiveIsTracked NoneLeftBehind
PROPERTY StopBeforeStart
CHECK_DEADLOCK FALSE
