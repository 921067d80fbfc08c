SPECIFICATION Spec
CONSTANTS
  k1 = k1
  k2 = k2
  k3 = k3
  m1 = m1
  m2 = m2
  Key = {k1, k2, k3}
  Mcm = {m1, m2}
  McmOf <- MCMcmOf
  Broken = {m1}
  Spare = {k3}
  Kind = "estop"
  Cap = 2
  Limit = 2
  MaxEdits = 2
  Networks = 2
  Crashes = 1
  Losses = 1
  Moves = 1
  Budget <- MCBudget
INVARIANTS
  TypeOK
  ParkedMeansRefused
  KeptUnlessRaced
PROPERTIES
  HealthyEditsArrive
CHECK_DEADLOCK FALSE
