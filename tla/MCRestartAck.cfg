\* INVARIANT SlotKept is refuted.
SPECIFICATION FairSpec
CONSTANTS
  Actions = {r1, r2}
  None = None
  MaxDeliveries = 3
  MaxFaults = 3
INVARIANTS TypeOK PersistedUntilConfirmed
PROPERTY RestartIsReported
CHECK_DEADLOCK FALSE
