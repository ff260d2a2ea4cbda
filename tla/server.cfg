SPECIFICATION FairSpec
CONSTANTS
  NoOne = NoOne
  WorkersNumber = 2
  Connections = {c1, c2}
  MaxStarts = 2
  MaxStops = 1
  MaxMessages = 1
  Cuts <- OneCut
  MaxUnruly = 0
INVARIANTS
  TypeOK
  AnswersGoToOpenConnections
  NoFault
  ReadMessageIsReturned
PROPERTIES
  EveryMessageProcessed
  StopClosesConnections
  StartRunsWorkers
  ServesAsChannel
CHECK_DEADLOCK FALSE
