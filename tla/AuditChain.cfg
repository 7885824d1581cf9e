SPECIFICATION FairSpec
CONSTANTS
  NoUser = NoUser
  NoWriter = NoWriter
  Genesis = Genesis
  Writers = {w1, w2}
  Users = {u1, u2}
  MaxRows = 4
  MaxLegacy = 2
  MaxFaults = 2
INVARIANTS UntouchedVerifies ChangeIsReported
PROPERTIES ImplementsLog RecordCompletes
