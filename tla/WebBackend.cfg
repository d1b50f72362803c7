SPECIFICATION Spec
CONSTANTS
  v1 = v1
  v2 = v2
  Node = {1, 2}
  Viewer = {v1, v2}
  MaxId = 2
SYMMETRY Viewers
INVARIANTS
  TypeOK
  ShownLeaderLeads
  PagesAreConsistent
