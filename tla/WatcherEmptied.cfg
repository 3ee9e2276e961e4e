CONSTANTS
    Dirs <- FlatDirs
    Root = "root"
    ParentOf <- FlatParentOf
    Files <- FlatFiles
    DirOf <- FlatDirOf
    NoDir = "none"
    MaxDirWatches = 3
    MaxLockRetries = 1
    MaxSyncFailureRetries = 1
    MaxWrites = 2
    MaxFaults = 0
    MaxCreations = 1
SPECIFICATION Spec
PROPERTY LockDegradeMeansContention
