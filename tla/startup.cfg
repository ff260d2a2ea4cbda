SPECIFICATION FairSpec
CONSTANTS
  Workers = {w1, w2}
  Pairs = 2
  MaxEdits = 3
INVARIANTS
  TypeOK
  UndisturbedStart
  SettingsAreOneVersion
  TlsIsOnDisk
PROPERTIES
  OwnerEditsKept
  ComesToRest
CHECK_DEADLOCK FALSE
