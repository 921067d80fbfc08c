SPECIFICATION Spec
CONSTANTS
  Actors = {{"pull"}, {"event"}, {"recon"}, {"manual"}}
  Cap = 2
  MaxEdits = 2
  MaxRows = 2
  Budget = 1
  Asks = 1
INVARIANTS
  TypeOK
  KeptUnlessRaced
PROPERTIES
  EditsStand
  QueueDrains
  NothingMissing
CHECK_DEADLOCK FALSE
