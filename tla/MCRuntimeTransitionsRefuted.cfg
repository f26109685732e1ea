\* Refuted as well: with Arrivals = "pending"; with Arrivals = "settled" and MaxHealth = 2.
SPECIFICATION Spec
CONSTANTS
  Comps = {c1}
  Alone = c1
  Models <- MCModels
  MaxModels = 3
  MaxHealth = 0
  Arrivals = "any"
INVARIANT NeverInBothRuntimes
CHECK_DEADLOCK FALSE
