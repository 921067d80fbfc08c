SPECIFICATION Spec
CONSTANTS
  k1 = k1
  k2 = k2
  k3 = k3
  m1 = m1
  m2 = m2
  Key = {k2}
  Mcm = {m1, m2}
  McmOf <- MCMcmOf
  Broken = {}
  Spare = {}
  Kind = "guided"
  Cap = 10
  Limit = 50
  MaxEdits = 2
  Networks = 0
  Crashes = 0
  Losses = 0
  Moves = 0
  Budget <- MCBudget
INVARIANTS
  RapidEditsArrive
CHECK_DEADLOCK FALSE
