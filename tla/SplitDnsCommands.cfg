SPECIFICATION DnsSpec
CONSTANTS
  Nothing = Nothing
  Typo = Typo
  Commands = {c1, c2}
  Handlers = {}
  Labels <- MCLabels
  Questions <- MCQuestions
  Edits <- MCEdits
  HandEdits <- MCHandEdits
  Foreign <- MCForeign
  MaxVersions = 3
  MaxFailures = 1
SYMMETRY Symmetry
INVARIANTS RoutesHaveAResolver RoutesFollowTable
