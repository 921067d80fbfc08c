SPECIFICATION Spec
CONSTANTS
  MaxClients = 2
  MaxConfig = 3
  MaxStarts = 3
  MaxBreaks = 3
INVARIANTS
  TypeOK
  NewestConfigServed
  ConnectedMeansOpen
PROPERTIES
  ReconnectsDoNotMultiply
  EventuallyConnected
CHECK_DEADLOCK FALSE
