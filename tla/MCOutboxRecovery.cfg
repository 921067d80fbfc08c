SPECIFICATION Spec
CONSTANTS
  i1 = i1
  Background = Background
  Io = {i1}
  Ops = {"Passed", "Cleared"}
  Puts = {"Cleared"}
  Spare = {}
  GoneAs = "status"
  B7Strikes = 1
  Cap = 2
  Tolerance = 1
  Reconciling = TRUE
  MaxOps = 2
  MaxRows = 3
  Networks = 0
  Crashes = 1
  Losses = 1
  Moves = 0
  Changes = 0
  Budget <- MCBudget
INVARIANTS
  TypeOK
PROPERTIES
  EventuallySyncedOrParked
