SPECIFICATION Spec
CONSTANTS
  n1 = n1
  n2 = n2
  n3 = n3
  Nil = Nil
  Node = {n1, n2, n3}
  Views <- NearlyFullView
  Caller = {"monitor", "client"}
  Candidate = {n1, n2, n3}
  MaxId = 2
  MaxLate = 0
  MaxRestarts = 1
SYMMETRY NodeSymmetry
INVARIANTS
  LeaderNamesItself
  FollowedWereElected
  LeaderBeats
CHECK_DEADLOCK FALSE
