SPECIFICATION Spec
CONSTANTS
  c1 = c1
  c2 = c2
  WorkersNumber = 2
  Connections = {c1, c2}
  MaxStarts = 2
  MaxStops = 2
  Orderly = FALSE
  Patient = FALSE
  Destruction = TRUE
SYMMETRY Symmetry
INVARIANTS
  TypeOK
  ServingWorkerHasDatabase
  CounterExact
  Balanced
CHECK_DEADLOCK FALSE
