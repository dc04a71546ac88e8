SPECIFICATION Spec
CONSTANTS
  a = a
  b = b
  Caller = {u1}
  Step = {a, b}
  NoStep = NoStep
  Workflows <- MCWorkflows
  MaxCalls = 2
  MaxCrashes = 0
INVARIANT StepDoneOnce
