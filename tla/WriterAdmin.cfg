SPECIFICATION FairSpec
CONSTANTS
  chat = chat
  cron = cron
  fresh = fresh
  bot = bot
  timer = timer
  Threads = {chat}
  Scheduled = {}
  NewChats = {}
  Workers = {bot, timer}
  Jobs <- AdminJobs
  MaxInstance = 2
  MaxCrashes = 1
  MaxRepairs = 0
  IdleTimeout = 1
  IdleRetry = 1
  RequestTimeout = 0
PROPERTIES
  
  
  SessionLockIsReleased
  CrashIsRepaired
CHECK_DEADLOCK FALSE
