SPECIFICATION FairSpec
CONSTANTS
  a1 = a1
  a2 = a2
  dispatcher = dispatcher
  upgrade = upgrade
  Actions <- MCActions
  Callers <- MCCallers
  Retrier = retrier
  MaxRetries = 2
  AckedBy <- MCAckedBy
  MaxAcks <- MCMaxAcks
INVARIANTS NoLostWakeup NoAckLost
PROPERTY EventuallySettled
CHECK_DEADLOCK FALSE
