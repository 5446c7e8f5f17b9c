CONSTANTS
  t1 = t1
  t2 = t2
  v1 = v1
  v2 = v2
  NotFound = NotFound
  NoObj = NoObj
  NoThread = NoThread
  SKIP = SKIP
  MaxId = 10
  Val = {v1, v2}
  BunchSize = 2
  Capacity = 2
  Thread = {t1, t2}
  Obj = {o1, o2, o3, o4, o5, o6, o7, o8}
  Phases <- ImportAndDiff
  Stored <- NothingStored
  MaxErrors = 1
SPECIFICATION FairSpec
INVARIANTS TypeOK TableBounded
PROPERTIES Coherent EventuallyDone
CHECK_DEADLOCK FALSE
