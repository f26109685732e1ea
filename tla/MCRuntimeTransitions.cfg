SPECIFICATION FairSpec
CONSTANTS
  Comps = {c1, c2}
  Alone = c1
  Models <- MCModels
  MaxModels = 3
  MaxHealth = 1
  Arrivals = "any"
CONSTRAINT RushedAlone
INVARIANTS NeverInBothWhileCalm ViewIsRight
PROPERTY LastModelRuns
CHECK_DEADLOCK FALSE
