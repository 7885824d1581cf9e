SPECIFICATION DnsSpec
CONSTANTS
  Nothing = Nothing
  Typo = Typo
  Commands = {c1, c2}
  Handlers = {}
  Labels <- MCLabels
  Questions <- MCQuestions
  Edits <- MCEdits
  HandEdits <- MCHandEdits
  Foreign <- MCForeign
  MaxVersions = 2
  MaxFailures = 0
INVARIANT RoutedMeansInstalled
