CONSTANTS
  w1 = w1
  w2 = w2
  Writer = {w1, w2}
  Id <- MCId
  Ref <- MCRef
  Bunch <- MCBunch
  BunchOf <- MCBunchOf
  Jobs <- MCJobs
  Stored <- MCStored
  AddCap = 2
  WriteCap = 1
  BufferSize = 2
  DbErrors = TRUE
SPECIFICATION FairSpec
INVARIANTS TypeOK NothingLost IndexComplete
PROPERTIES RefsOnlyGrow EventuallyClosed
