SPECIFICATION Spec
CONSTANTS
  agent = agent
  toStaging = toStaging
  toProduction = toProduction
  author = author
  h1 = h1
  h2 = h2
  Artifact = {agent}
  NoArtifact = NoArtifact
  Content = {good, bad}
  Clean = {good}
  Declared = {"development", "staging"}
  Human = {author, h1, h2}
  Release = {toStaging, toProduction}
  Request <- MCRequest
  Required <- MCRequired
  Signing = {"production"}
  Caller = {c1}
  MaxEdits = 1
  MaxEvaluations = 1
  MaxAccidents = 0
INVARIANT DeployedWasClean
