SPECIFICATION FairSpec
CONSTANTS
  c1 = c1
  c2 = c2
  Connections = {c1, c2}
  WorkerOf <- OnTwoWorkers
  Hanging = {"w2"}
  Queries <- FewQueries
  StaleIds = {1}
  MaxQueries = 3
  MaxFailures = 1
PROPERTIES
  QueriesAnswered
  HangingStopsAll
  SyncIsSnapshot
CHECK_DEADLOCK FALSE
