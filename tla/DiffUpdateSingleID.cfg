SPECIFICATION FairSpec
CONSTANTS
  Nil = Nil
  Empty = Empty
  Tables <- MCTables
  Broken = {}
  Inside = {1, 2, 3}
  Buffer = {1, 2, 3, 4}
  SingleIDSpace = TRUE
  Histories <- MCImported
  Published <- MCPublished
  MaxDiffs = 1
  MaxFaults = 0
  FailIn = {}
  CrashIn = {}
INVARIANT Synced
