CONSTANTS
    w1 = w1
    w2 = w2
    c1 = c1
    c2 = c2
    c3 = c3
    Workers <- MCWorkers
    Calls <- MCCalls
    NoCall = NoCall
    MaxSize = 2
    MaxConcurrentSpawn = 1
    CrashBudget = 3
    MaxRetries = 1
SPECIFICATION FairSpec
INVARIANTS PoolAccounted NoStrandedCall
PROPERTIES KeepsPromise Served
CHECK_DEADLOCK FALSE
