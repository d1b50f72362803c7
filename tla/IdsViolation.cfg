SPECIFICATION Spec
CONSTANTS
  n1 = n1
  n2 = n2
  n3 = n3
  Node = {n1, n2, n3}
  LastByte <- Digits
  Era = 6
  MaxTime = 8
PROPERTIES
  OwnIdsRise
CHECK_DEADLOCK FALSE
