\* Refuted as well, without the CONSTRAINT and with MaxUpdates = 2 and MaxCrashes = 1:
\* INVARIANTs ExpectedIsWanted and AnswersInOrder.
CONSTANTS
  Units = {u}
  Configs = {c1, c2}
  First = c1
  None = None
  Off = Off
  Bad = Bad
  MaxUpdates = 1
  MaxStreams = 2
  MaxCrashes = 0
SPECIFICATION Spec
PROPERTY FirstIsAnswered
CHECK_DEADLOCK FALSE
CONSTRAINT Ordinary
