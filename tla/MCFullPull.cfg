SPECIFICATION Spec
CONSTANTS
  Puller = {1, 2}
  Modes = {"manual", "background", "global"}
  MaxEdits = 3
  Budget = 1
INVARIANTS
  TypeOK
  NothingErased
  NoOpIsTruthful
PROPERTIES
  PullsCatchUp
CHECK_DEADLOCK FALSE
