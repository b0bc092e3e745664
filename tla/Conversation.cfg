SPECIFICATION FairSpec
CONSTANTS
    a = a
    b = b
    poll = poll
    live = live
    bot = bot
    none = none
    Threads <- MCThreads
    NoThread = none
    Jobs <- MCJobs
    Observers <- MCObservers
    Plays <- MCPlays
    MaxFaults = 1
INVARIANTS
    TypeOK
    OnlyForegroundWorks
    ToldOnce

    
CHECK_DEADLOCK FALSE
