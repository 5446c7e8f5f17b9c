SPECIFICATION FairSpec
CONSTANTS
  Nil = Nil
  Empty = Empty
  Tables <- MCTables
  Broken = {}
  Inside = {1, 2, 3}
  Buffer = {1, 2, 3, 4}
  SingleIDSpace = FALSE
  Histories <- MCImported
  Published <- MCPublished
  MaxDiffs = 1
  MaxFaults = 1
  FailIn = {"delete", "cache", "insert"}
  CrashIn = {}
INVARIANT Synced
