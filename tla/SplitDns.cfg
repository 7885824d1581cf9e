SPECIFICATION DnsSpec
CONSTANTS
  Nothing = Nothing
  Typo = Typo
  Commands = {c1}
  Handlers = {h1, h2}
  Labels <- MCLabels
  Questions <- MCQuestions
  Edits <- MCEdits
  HandEdits <- MCHandEdits
  Foreign <- MCForeign
  MaxVersions = 3
  MaxFailures = 1
INVARIANTS AnswersFollowTable EditsTakeEffect RoutesHaveAResolver RoutesFollowTable
PROPERTY ResolverComesBack
