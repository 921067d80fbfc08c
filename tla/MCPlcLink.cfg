SPECIFICATION Spec
CONSTANTS
  Tag = {"a", "b"}
  Loads = {{}, {"a", "b"}}
  Call = {1, 2}
  Cycles = 2
  MaxAsks = 3
  MaxTurns = 3
INVARIANTS
  TypeOK
  HandlesAreHeld
  ConnectedIsRead
PROPERTIES
  LossIsNoticed
  Reconnects
CHECK_DEADLOCK FALSE
