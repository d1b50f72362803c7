SPECIFICATION FairSpec
CONSTANTS
  n1 = n1
  n2 = n2
  n3 = n3
  k1 = k1
  v1 = v1
  p1 = p1
  p2 = p2
  Nil = Nil
  Node = {n1, n2, n3}
  MaxId = 1
  Key = {k1}
  Value = {v1}
  Proposal = {p1, p2}
  CommandOf <- TwoCommands
  Views <- AnyView
  SerialClients = TRUE
  Syncer = {}
  MaxSlot = 1
  MaxRestarts = 1
INVARIANTS
  TypeOK
  DecidedByQuorum
 
CHECK_DEADLOCK FALSE
