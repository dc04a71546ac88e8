SPECIFICATION Spec
CONSTANTS
  a = a
  b = b
  Caller = {u1, u2}
  Step = {a, b}
  NoStep = NoStep
  Workflows <- MCWorkflows
  MaxCalls = 2
  MaxCrashes = 1
INVARIANTS
  DependenciesFirst
  TriesAreCounted
  RowIsTrue
  EndIsEarned
SYMMETRY Interchangeable
