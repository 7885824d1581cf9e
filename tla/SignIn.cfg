SPECIFICATION Spec
CONSTANTS
  None = None
  Clients = {c1, c2}
  Ports = {p1, p2}
  States = {s1, s2}
  People = {alice, bob}
INVARIANTS SignedInAsOwnPerson OneTokenPerHandshake ExpiredIsWorthless AbandonedIsWorthless
CHECK_DEADLOCK FALSE
