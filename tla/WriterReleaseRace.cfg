SPECIFICATION Spec
CONSTANTS
  chat = chat
  cron = cron
  fresh = fresh
  bot = bot
  timer = timer
  Threads = {chat}
  Scheduled = {}
  NewChats = {}
  Workers = {bot, timer}
  Jobs <- RaceJobs
  MaxInstance = 2
  MaxCrashes = 0
  MaxRepairs = 0
  IdleTimeout = 2
  IdleRetry = 1
  RequestTimeout = 1
INVARIANT
  ReleaseSparesTurns
CHECK_DEADLOCK FALSE
