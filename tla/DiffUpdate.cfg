SPECIFICATION FairSpec
CONSTANTS
  Nil = Nil
  Empty = Empty
  Tables <- MCTables
  Broken = {}
  Inside = {1, 2, 3}
  Buffer = {1, 2, 3, 4}
  SingleIDSpace = FALSE
  Histories <- MCHistories
  Published <- MCPublished
  MaxDiffs = 2
  MaxFaults = 1
  FailIn = {"update"}
  CrashIn = {"update", "state"}
INVARIANT TypeOK
INVARIANT Synced
INVARIANT IndexCovers
INVARIANT CachesCurrent
PROPERTY ExpireUnlessPartGone
PROPERTY AppliedEventually
