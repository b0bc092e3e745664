SPECIFICATION Spec
CONSTANTS
    t1 = t1
    NoToken = NoToken
    Tokens = {t1}
    MaxSessions = 2
    MaxChanges = 2
    MaxBundle = 3
    MaxCommands = 1
    MaxStarts = 2
    Overlap = FALSE
    Questions <- MCQuestions
    Callers = {"daemon", "tool"}
    Names = {"task", "task-1f"}
    MaxCalls = 3
    MaxTries = 2
    MaxFailures = 1
    Chats <- MCChats
    MaxLives = 2
    Threads = {"a"}
    NoThread = "none"
    MaxTurns = 2
    MaxRequests = 2
    Talks <- MCTalks
    PageSize = 2
    MaxRuns = 2
    Works <- MCWorks
    MaxSetups = 2
INVARIANTS
    PartsTypeOK
    
    RuntimeIsUsable
    
    TasksAreKept
    MessagesAreServed
    
    DetailsAreOwn
    
CHECK_DEADLOCK FALSE
