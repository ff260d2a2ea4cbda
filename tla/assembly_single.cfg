SPECIFICATION FairSpec
CONSTANTS
  c1 = c1
  Connections = {c1}
  MaxMessages = 3
  Cuts <- BetweenCharacters
  Pipelining = FALSE
INVARIANTS
  ReadMessageIsReturned
PROPERTIES
  ImplementsChannel
CHECK_DEADLOCK FALSE
