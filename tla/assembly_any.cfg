SPECIFICATION Spec
CONSTANTS
  c1 = c1
  c2 = c2
  Connections = {c1, c2}
  MaxMessages = 2
  Cuts <- Joining
  Pipelining = TRUE
SYMMETRY Symmetry
INVARIANTS
  InOrder
  ReturnedWhole
PROPERTIES
  DeafnessIsPermanent
CHECK_DEADLOCK FALSE
