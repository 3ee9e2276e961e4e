CONSTANTS
    hello = hello
    c1 = c1
    c2 = c2
    ping = ping
    note = note
    Lines <- MCLines
    Kind <- MCKind
SPECIFICATION FairSpec
INVARIANTS
    DaemonHearsInOrder
PROPERTIES
    KeepsPromise
    EveryRequestAnswered
\* The process has exited.
CHECK_DEADLOCK FALSE
