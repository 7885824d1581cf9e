SPECIFICATION Spec
CONSTANTS
  NoSession = NoSession
  Users = {u1}
  Devices = {d1}
  Owner <- OneOwner
  Gateways = {g1, g2}
  Sids = {s1}
  Tasks = {t1, t2}
  Cidr <- Slash30
  Lifetimes <- Medium
  MaxTime = 3
  MaxAborts = 0
SYMMETRY Symmetry
INVARIANT VersionCoversPeers
