SPECIFICATION Spec
CONSTANTS
  c1 = c1
  c2 = c2
  Connections = {c1, c2}
  WorkerOf <- OnTwoWorkers
  Hanging = {}
  Queries <- AllQueries
  StaleIds = {0, 1}
  MaxQueries = 2
  MaxFailures = 2
INVARIANTS
  TypeOK
  EmailUnique
  IdentityIsProven
  RepliesAreReal
PROPERTIES
  ImplementsService
CHECK_DEADLOCK FALSE
