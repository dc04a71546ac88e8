SPECIFICATION FairSpec
CONSTANTS
  s1 = s1
  s2 = s2
  c1 = c1
  c2 = c2
  Caller = {c1}
  Step <- MCStep
  NoStep = NoStep
  Plans <- MorePlans
  MaxSteps = 2
  Policies <- MCPolicies
  AutoApprove = FALSE
  Redecide = FALSE
  MaxCalls = 6
  MaxCrashes = 2
  MaxReloads = 0
INVARIANTS
  RunFollowsPlan
  ApprovalCoversEffect
PROPERTIES
  CallsReturn
