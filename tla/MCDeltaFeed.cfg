SPECIFICATION Spec
CONSTANTS
  Pullers = {{"hint", "sweep"}, {"hint", "catchup"}}
  Section = {"config", "l2"}
  Quick = TRUE
  MaxSeq = 2
  MaxBusy = 2
  Budget = 1
INVARIANTS
  TypeOK
  CursorCoversIos
  CursorCoversSections
PROPERTIES
  LostHintsHeal
CHECK_DEADLOCK FALSE
