SPECIFICATION AttendedSpec
CONSTANTS
  NoToken = NoToken
  NoKey = NoKey
  Hosts = {h1, h2}
  Tokens = {c1, c2, c3, c4, c5, c6, c7, c8, c9}
  KeyPairs = {k1, k2, k3, k4}
  GeneratesKey = TRUE
  MaxFaults = 2
INVARIANTS ServedSurvivesRestart OneHostServed
PROPERTY AttendedGatewayReturns
