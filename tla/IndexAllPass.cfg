CONSTANTS
    NFiles = 3
    WindowSize = 2
    Workers <- MCWorkers
    Calls <- MCCalls
    Results <- MCResults
    Yields <- MCYields
    Unread <- MCUnread
    MayAbort = TRUE
    MaxTroubles = 2
    MaxLate = 2
    NoCall = NoCall
    MaxSize = 2
    MaxConcurrentSpawn = 1
    CrashBudget = 2
    RecycleInterval = 2
SPECIFICATION FairSpec
INVARIANTS
    PoolAccounted
    CommittedInOrder
    NoFileDropped
PROPERTIES
    KeepsPromise
    IndexEnds
CHECK_DEADLOCK FALSE
