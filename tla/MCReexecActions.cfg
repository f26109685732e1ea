SPECIFICATION FairSpec
CONSTANTS
  a1 = a1
  a2 = a2
  a3 = a3
  v1 = v1
  v2 = v2
  Restarts = {r1, r2}
  None = None
  MaxRestarts = 2
  MaxFaults = 1
  Upgrades <- MCUpgrades
  Target <- MCTarget
  MaxUpgrades = 2
  MaxPolls = 1
  MaxActions = 3
INVARIANTS PersistedUntilConfirmed NoActionForgotten
PROPERTIES RestartIsReported EventuallyAcked
CHECK_DEADLOCK FALSE
