SPECIFICATION Spec
CONSTANTS
  c1 = c1
  WorkersNumber = 1
  Connections = {c1}
  MaxStarts = 1
  MaxStops = 1
  Orderly = TRUE
  Patient = FALSE
  Destruction = FALSE
INVARIANTS
  IdleOnceStopped
CHECK_DEADLOCK FALSE
