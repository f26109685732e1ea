\* CloseEndsLoop holds under FairSpec with Lens = {1}, MaxBuffer = 1 and MaxWrites = 2;
\* SoftShutdownEnds is refuted under FairSpec.
SPECIFICATION Spec
CONSTANTS
  Subs = {s1, s2}
  Lens = {0, 1, 3}
  MaxBuffer = 2
  InputBuffer = 1
  MaxWrites = 4
INVARIANTS TypeOK OfferIsRight OnlyReachableKept
PROPERTY TopicSpec
CHECK_DEADLOCK FALSE
