SPECIFICATION Spec
CONSTANTS
  NoSession = NoSession
  Users = {u1}
  Devices = {d1}
  Owner <- OneOwner
  Gateways = {g1}
  Sids = {s1, s2}
  Tasks = {t1, t2}
  Cidr <- Slash30
  Lifetimes <- Short
  MaxTime = 0
  MaxAborts = 0
SYMMETRY Symmetry
INVARIANT DisabledUserUnserved
