CONSTANTS
    Dirs <- TreeDirs
    Root = "root"
    ParentOf <- TreeParentOf
    Files <- TreeFiles
    DirOf <- TreeDirOf
    NoDir = "none"
    MaxDirWatches = 3
    MaxLockRetries = 1
    MaxSyncFailureRetries = 1
    MaxWrites = 2
    MaxFaults = 0
    MaxCreations = 2
SPECIFICATION Spec
INVARIANT SettledIsFresh
