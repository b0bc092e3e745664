SPECIFICATION Spec
CONSTANTS
  poller = poller
  Scheduler = Scheduler
  Nobody = Nobody
  Observers = {poller}
  Keys <- RunKeys
  Callers <- MCCallers
  Outcomes = {"completed"}
  MaxSlot = 2
  MaxThread = 1
  MaxCrashes = 0
INVARIANT
  OneTerminalPush
CHECK_DEADLOCK FALSE
