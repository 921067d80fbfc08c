SPECIFICATION Spec
CONSTANTS
  i1 = i1
  Background = Background
  Io = {i1}
  Ops = {"Passed", "Cleared", "Punchlist"}
  Puts = {}
  Spare = {i1}
  GoneAs = "code"
  B7Strikes = 1
  Cap = 1
  Tolerance = 1
  Reconciling = FALSE
  MaxOps = 2
  MaxRows = 2
  Networks = 1
  Crashes = 0
  Losses = 0
  Moves = 0
  Changes = 1
  Budget <- MCBudget
INVARIANTS
  ParkedMeansRuled
PROPERTIES
  EventuallyQuiet
  DrainsEnd
