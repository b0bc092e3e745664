SPECIFICATION BothSpec
CONSTANTS
  zero = zero
  RawIds = {zero}
  MaxAttempts = 2
  Buffer = 2
  MaxSession = 2
  MaxRestarts = 1
  Scripts <- MCScripts
INVARIANTS
  BothTypeOK
  AnswersMeetTheirRequest
  
  TurnsAreReadRight
PROPERTIES
  Approvals
  NoticeEnds
  TurnSettles
CHECK_DEADLOCK FALSE
