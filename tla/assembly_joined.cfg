SPECIFICATION Spec
CONSTANTS
  c1 = c1
  c2 = c2
  Connections = {c1, c2}
  MaxMessages = 2
  Cuts <- Mixing
  Pipelining = FALSE
SYMMETRY Symmetry
INVARIANTS
  OnlyOwnWords
CHECK_DEADLOCK FALSE
