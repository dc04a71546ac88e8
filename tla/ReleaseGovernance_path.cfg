SPECIFICATION MCSpec
CONSTANTS
  agent = agent
  toStaging = toStaging
  toProduction = toProduction
  author = author
  h1 = h1
  h2 = h2
  Artifact = {agent}
  NoArtifact = NoArtifact
  Content = {good, new}
  Clean = {good, new}
  Declared = {"staging"}
  Human = {author, h1, h2}
  Release = {toStaging, toProduction}
  Request <- MCRequest
  Required <- MCRequired
  Signing = {"production"}
  Caller = {c1, c2}
  MaxEdits = 1
  MaxEvaluations = 2
  MaxAccidents = 1
INVARIANTS
  TypeOK
  ApprovalIsEarned
  AppliedInOrder
PROPERTIES
  DeployedAsApproved
  RollbackIsExact
  FollowsLifecycle
SYMMETRY Interchangeable
