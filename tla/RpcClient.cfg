SPECIFICATION FairSpec
CONSTANTS
  u1 = u1
  boot = boot
  Users = {u1}
  Boot = boot
  MaxGeneration = 3
  MaxID = 2
INVARIANTS
  TypeOK
  TableIsRight
PROPERTIES
  PinnedStaysInItsSession
  StartMuIsReleased
  Calls
CHECK_DEADLOCK FALSE
