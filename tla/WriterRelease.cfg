SPECIFICATION Spec
CONSTANTS
  chat = chat
  cron = cron
  fresh = fresh
  bot = bot
  timer = timer
  Threads = {chat, cron, fresh}
  Scheduled = {cron}
  NewChats = {fresh}
  Workers = {bot, timer}
  Jobs <- ReleaseJobs
  MaxInstance = 2
  MaxCrashes = 0
  MaxRepairs = 1
  IdleTimeout = 2
  IdleRetry = 1
  RequestTimeout = 1
INVARIANTS
  TypeOK
  TurnsOnLiveAreOwned
  AutoReleaseSparesTurns
  OneAppServer
CHECK_DEADLOCK FALSE
