SPECIFICATION FairSpec
CONSTANTS
  zero = zero
  RawIds = {zero}
  MaxAttempts = 2
  Buffer = 2
  MaxSession = 2
  MaxRestarts = 1
PROPERTY
  NoticeSurvivesRestarts
CHECK_DEADLOCK FALSE
