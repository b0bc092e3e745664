SPECIFICATION FairSpec
CONSTANTS
  poller = poller
  Scheduler = Scheduler
  Nobody = Nobody
  Observers = {poller}
  Keys <- RunKeys
  Callers <- MCCallers
  Outcomes = {"silent"}
  MaxSlot = 2
  MaxThread = 2
  MaxCrashes = 1
INVARIANTS
  TypeOK
  OncePerKey
  StartedOnce
  SilentStaysSilent
  StraysAreEmpty
PROPERTIES
  ImplementsPush
  DueIsClaimed
CHECK_DEADLOCK FALSE
