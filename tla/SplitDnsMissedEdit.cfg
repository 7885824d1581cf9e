SPECIFICATION DnsSpec
CONSTANTS
  Nothing = Nothing
  Typo = Typo
  Commands = {c1}
  Handlers = {h1}
  Labels <- MCLabels
  Questions <- MCQuestions
  Edits <- MCEdits
  HandEdits <- MCHandEdits
  Foreign <- MCForeign
  MaxVersions = 2
  MaxFailures = 0
INVARIANT NextQuerySeesEdits
