SPECIFICATION Spec
CONSTANTS
  c1 = c1
  WorkersNumber = 1
  Connections = {c1}
  MaxStarts = 1
  MaxStops = 0
  Orderly = TRUE
  Patient = TRUE
  Destruction = TRUE
INVARIANTS
  FreedOnce
CHECK_DEADLOCK FALSE
