SPECIFICATION FairSpec
CONSTANTS
  n1 = n1
  n2 = n2
  n3 = n3
  Nil = Nil
  Node = {n1, n2, n3}
  Views <- FullView
  Caller = {"monitor", "client"}
  Candidate = {n1, n2}
  MaxId = 2
  MaxLate = 0
  MaxRestarts = 0
PROPERTIES
  ElectionReturns
  DemotedFallsQuiet
CHECK_DEADLOCK FALSE
