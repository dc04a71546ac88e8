SPECIFICATION Spec
CONSTANTS
  s1 = s1
  s2 = s2
  c1 = c1
  c2 = c2
  Caller = {c1, c2}
  Step <- MCStep
  NoStep = NoStep
  Plans <- OnePlan
  MaxSteps = 2
  Policies <- MCPolicies
  AutoApprove = FALSE
  Redecide = TRUE
  MaxCalls = 3
  MaxCrashes = 1
  MaxReloads = 1
INVARIANTS
  TypeOK
  GatedEffectsAreDecided
  RecordsAreReal
