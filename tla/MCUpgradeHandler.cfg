\* INVARIANT ReplacementNotAcked and INVARIANT StateShowsUpgrade are refuted.
SPECIFICATION FairSpec
CONSTANTS
  a1 = a1
  a2 = a2
  a3 = a3
  v1 = v1
  v2 = v2
  Actions <- MCActions
  Target <- MCTarget
  MaxDeliveries = 3
  MaxPolls = 2
INVARIANTS TypeOK NoActionForgotten ClearedWhenOver
PROPERTY EventuallyAcked
CHECK_DEADLOCK FALSE
