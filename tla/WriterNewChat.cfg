SPECIFICATION Spec
CONSTANTS
  chat = chat
  cron = cron
  fresh = fresh
  bot = bot
  timer = timer
  Threads = {chat, fresh}
  Scheduled = {}
  NewChats = {fresh}
  Workers = {bot, timer}
  Jobs <- NewChatJobs
  MaxInstance = 2
  MaxCrashes = 0
  MaxRepairs = 0
  IdleTimeout = 2
  IdleRetry = 1
  RequestTimeout = 1
INVARIANT
  AutoReleaseSparesNewChats
CHECK_DEADLOCK FALSE
