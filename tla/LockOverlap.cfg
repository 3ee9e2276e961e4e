CONSTANTS
    Instances <- MCInstances
    Pids <- MCPids
    PidOf <- MCPidOf
    NaN = NaN
    NoLock = NoLock
    MaxCrashes = 0
    MaxExpiries = 0
SPECIFICATION Spec
INVARIANT LockExcludes
