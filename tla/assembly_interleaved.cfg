SPECIFICATION Spec
CONSTANTS
  c1 = c1
  c2 = c2
  Connections = {c1, c2}
  MaxMessages = 1
  Cuts <- OneCut
  Pipelining = FALSE
SYMMETRY Symmetry
INVARIANTS
  ReadMessageIsReturned
CHECK_DEADLOCK FALSE
