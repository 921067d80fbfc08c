SPECIFICATION Spec
CONSTANTS
  i1 = i1
  Background = Background
  Io = {i1}
  Ops = {"Passed", "Punchlist"}
  Puts = {}
  Spare = {}
  GoneAs = "status"
  B7Strikes = 3
  Cap = 10
  Tolerance = 3
  Reconciling = FALSE
  MaxOps = 2
  MaxRows = 2
  Networks = 0
  Crashes = 0
  Losses = 0
  Moves = 0
  Changes = 1
  Budget <- MCBudget
PROPERTIES
  StuckResultsAreCarried
