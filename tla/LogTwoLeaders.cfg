SPECIFICATION Spec
CONSTANTS
  n1 = n1
  n2 = n2
  n3 = n3
  k1 = k1
  v1 = v1
  p1 = p1
  p2 = p2
  Nil = Nil
  Node = {n1, n2, n3}
  MaxId = 2
  Key = {k1}
  Value = {v1}
  Proposal = {p1, p2}
  CommandOf <- TwoCommands
  Views <- FullView
  SerialClients = TRUE
  Syncer = {}
  MaxSlot = 1
  MaxRestarts = 1
SYMMETRY NodeSymmetry
INVARIANTS
  OneCommandPerBallot
  
PROPERTY BallotLogSpec
CHECK_DEADLOCK FALSE
