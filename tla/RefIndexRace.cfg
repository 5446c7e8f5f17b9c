CONSTANTS
  w1 = w1
  w2 = w2
  Writer = {w1, w2}
  Id <- MCId
  Ref <- MCRef
  Bunch <- MCBunch
  BunchOf <- MCBunchOf
  Jobs <- MCRace
  Stored <- MCStored
  AddCap = 2
  WriteCap = 1
  BufferSize = 2
  DbErrors = FALSE
SPECIFICATION FairSpec
INVARIANT IndexComplete
