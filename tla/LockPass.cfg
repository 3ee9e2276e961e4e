CONSTANTS
    Instances <- MCInstances
    Pids <- MCPids
    PidOf <- MCPidOf
    NaN = NaN
    NoLock = NoLock
    MaxCrashes = 1
    MaxExpiries = 1
SPECIFICATION FairSpec
INVARIANTS UncontendedExclusion NoOrphanedLock
PROPERTY AbandonedLockBroken
