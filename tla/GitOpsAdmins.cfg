SPECIFICATION FairSpec
CONSTANTS
  Replicas = {r1, r2}
  Editors = {e1}
  Requests <- ExampleRequests
  Emails = {"ann"}
  People = {"ann", "bob"}
  Networks = {"development", "zerotrust"}
  Items <- ExampleItems
  Seed = "development"
  SeedRoute = "overlay"
  Policies <- ExamplePolicies
  Edits <- ExampleEdits
  MaxFaults = 1
PROPERTIES AdministratorRemains
