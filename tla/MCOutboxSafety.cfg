SPECIFICATION Spec
CONSTANTS
  i1 = i1
  Background = Background
  Io = {i1}
  Ops = {"Passed", "Failed", "Comment"}
  Puts = {"Passed"}
  Spare = {i1}
  GoneAs = "status"
  B7Strikes = 1
  Cap = 1
  Tolerance = 1
  Reconciling = FALSE
  MaxOps = 2
  MaxRows = 2
  Networks = 0
  Crashes = 1
  Losses = 0
  Moves = 1
  Changes = 1
  Budget <- MCBudget
INVARIANTS
  RowsHaveTheirIo
  HiddenMeansAway
PROPERTIES
  NoSilentLoss
