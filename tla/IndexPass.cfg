SPECIFICATION Spec
CONSTANTS
  None = None
  caller = caller
  callee = callee
  one = one
  both = both
  first = first
  moved = moved
  huge = huge
  g = g
  h = h
  Files <- TwoFiles
  Contents <- Held
  Holds <- MayHold
  Indexable <- Stored
  Defs <- DefsOf
  Refs <- RefsOf
  Chained <- NameH
  BatchSize = 1
  MaxEdits = 2
  MaxCrashes = 1
INVARIANTS
  SyncedIsFresh
  NodesMatchRows
  RefsDrained
  EdgesMatchReferences
