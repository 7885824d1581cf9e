SPECIFICATION Spec
CONSTANTS
  None = None
  UserIds = {1, 2, 3, 4, 5}
  Admins = {1}
  Addresses = {m1, m2}
  Capital = {m1}
  Accounts = {a1, a2}
  Jit = TRUE
  DevLogin = TRUE
  Tasks = {t1, t2}
  MaxSignIns = 2
  MaxRequests = 2
SYMMETRY Symmetry
INVARIANTS TokensNameTheirSubject OneSubjectPerIssuer OpsapiLinksById
CHECK_DEADLOCK FALSE
