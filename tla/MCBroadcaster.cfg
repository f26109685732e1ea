SPECIFICATION FairSpec
CONSTANTS
  Subs = {s1, s2}
  Lens = {0, 2}
  MaxBuffer = 1
  InputBuffer = 1
  MaxWrites = 3
PROPERTIES TopicSpec CaughtUpAgain
CHECK_DEADLOCK FALSE
