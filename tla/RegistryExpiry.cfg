SPECIFICATION Spec
CONSTANTS
  n1 = n1
  c1 = c1
  a1 = a1
  a2 = a2
  Nil = Nil
  Node = {n1}
  Client = {c1}
  NameOf <- OwnName
  AddressOf <- OwnAddress
  MaxDelay = 6
  MaxTime = 40
INVARIANTS
  TypeOK
  
  EntriesAreRecent
CHECK_DEADLOCK FALSE
