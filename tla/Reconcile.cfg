SPECIFICATION FairSpec
CONSTANTS
  Keys = {k1, k2}
  ForeignKeys = {f1}
  Managed = {a1, a2}
  Outside = {x1}
  MaxChanges = 3
  MaxExpiries = 1
  MaxFailures = 1
  MaxReadFailures = 1
  MaxRestarts = 1
INVARIANTS RevokedLeavesWire DesiredOnWire
PROPERTIES ForeignUntouched Converges
