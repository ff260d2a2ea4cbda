SPECIFICATION Spec
CONSTANTS
  Clients = {c1, c2}
  Chats = {k1, k2}
  TicksPerSecond = 2
  MaxTime = 4
  MaxMessages = 3
  MaxChanges = 1
  MaxFailures = 1
INVARIANTS
  TypeOK
  NothingMissed
PROPERTIES
  RepeatsAreOfTheLastSecond
CHECK_DEADLOCK FALSE
