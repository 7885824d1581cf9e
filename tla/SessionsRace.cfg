SPECIFICATION Spec
CONSTANTS
  NoSession = NoSession
  Users = {u1}
  Devices = {d1}
  Owner <- OneOwner
  Gateways = {g1}
  Sids = {s1, s2}
  Tasks = {t1, t2}
  Cidr <- LastSlash31
  Lifetimes <- Short
  MaxTime = 1
  MaxAborts = 1
SYMMETRY Symmetry
INVARIANTS LiveSessionOwnsAddress VersionCoversPeers
PROPERTY AddressHandover
