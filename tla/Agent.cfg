SPECIFICATION Spec
CONSTANTS
  None = None
  Torn = Torn
  Procs = {p1, p2}
  Urls = {a, b}
  Profiles = {x, y}
  MaxCommands = 4
  MaxSessions = 2
  MaxKeys = 3
SYMMETRY Symmetry
INVARIANTS CredentialsStayHome StateHasItsFiles ReportsAreTrue NoTunnelOnReleased
CHECK_DEADLOCK FALSE
