SPECIFICATION GateSpec
CONSTANTS
  Addrs = {a1}
  Enabled = TRUE
  Budget = 2
  Window = 3
  Skew = 1
  SweepThreshold = 0
  Kids = 2
  Cooldown = 2
  Outages = 1
  Requests = {r1, r2}
INVARIANTS AtMostTwiceBudget RefetchesLimited
PROPERTIES RotationPickedUp BudgetComesBack
