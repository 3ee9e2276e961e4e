CONSTANTS
    Dirs <- TreeDirs
    Root = "root"
    ParentOf <- TreeParentOf
    Files <- TreeFiles
    DirOf <- TreeDirOf
    NoDir = "none"
    MaxDirWatches = 3
    MaxLockRetries = 1
    MaxSyncFailureRetries = 1
    MaxWrites = 3
    MaxFaults = 1
    MaxCreations = 1
SPECIFICATION Spec
INVARIANTS TypeOK StalenessAnnounced SubtreesAnnounced NoLostWakeup SettledIsFresh Coverage
PROPERTIES ClearedMeansIndexed StopIsFinal
