CONSTANTS
  n1 = n1
  n2 = n2
  n3 = n3
  w1 = w1
  w2 = w2
  w3 = w3
  r1 = r1
  r2 = r2
  r3 = r3
  r4 = r4
  C1 = C1
  C2 = C2
  N1 = N1
  W1 = W1
  W2 = W2
  R1 = R1
  NoRef = NoRef
  Parser = {p1, p2}
  Worker = {C1, C2, N1, W1, W2, R1}
  Reads <- MCReads
  ChanCap = 1
  Elem = {n1, n2, n3, w1, w2, w3, r1, r2, r3, r4}
  Files <- MCFiles
  Inside = {n1, n3}
  Raw = {n1, n2, n3}
  Tagged = {n1, n2, r1, r2, r3}
  FirstRef <- MCFirstRef
  FirstMember <- MCFirstMember
  ErrorKinds = {"lookup", "put"}
SPECIFICATION FairSpec
INVARIANTS TypeOK PhasesInOrder OneNilEach LimitExact
PROPERTY Termination
CHECK_DEADLOCK FALSE
