SPECIFICATION MCSpec
CONSTANTS
  Caller = {c1, c2}
  Proposal = {"p1", "p2", "p3"}
  Path = {"f", "g"}
  Target <- MCTarget
  Tool = {"p1", "p2"}
  Sound = {"p1", "p3"}
  MaxCalls = 4
  MaxMishaps = 1
  MaxOverlaps = 1
  Agent = {a1, a2}
  Task = {t1}
  MAX_DELEGATE_DEPTH = 2
  MAX_ROUNDS_CAP = 1
  MaxHandoffs = 1
  MaxSteps = 1
  MaxRoots = 1
  MaxTasks = 4
  MaxByHand = 0
  MaxTaskMishaps = 0
  MaxTaskOverlaps = 1
  Order <- MCOrder
  External = {"cloud"}
  ContextWindow <- MCWindow
  Conversations <- MCConversations
  PerTask = 2
  PerDay = 3
  MinTokens = 2
  Reserve = 1
  MaxCallCost = 2
  MaxModelCalls = 3
  MaxModelCrashes = 1
  Namespace = {"a"}
  Alike <- MCAlike
  MaxScan = 3
  MaxRecords = 3
  MaxMemoryCalls = 5
  MaxUses = 1
  PackProposal = {"p1", "p2"}
  PackPath = {"a", "b", "n"}
  PackVersion = {1, 2}
  PackFiles <- MCPackFiles
  MaxPackCalls = 5
  MaxPackEdits = 2
  MaxPackCrashes = 1
  Bidder = {"a", "b", "c"}
  ByName <- MCByName
  Profiles <- MCProfiles
  OwnEnvironment = "dev"
  Offered <- MCOffered
  UnitCost <- MCUnitCost
  DefaultBidder = "a"
  WantedBidders <- MCWanted
  QueueWindow = 2
  MaxQueued = 2
  MaxNegotiations = 1
  MaxOff = 1
  Suite <- MCSuite
  SuiteKind = {"agent", "policy"}
  Answers <- MCAnswers
  ModelProvider = {"own", "other"}
  DeclaredProvider = "own"
  MinPassed = 1
  MaxRunCost = 2
  MaxP95 = 5
  MaxRegressions = 0
  MaxDrift = 25
  Comparisons <- MCComparisons
  BaselineWindow = 2
  Loads <- MCLoads
  MaxEvaluations = 2
  MaxSaves = 2
  MaxAccidents = 1
INVARIANTS WorkIsShared ModelsAreGoverned RecordsAreKept ProposalsAreDecided PacksKeepEdits EvaluationsAreHonest
SYMMETRY Similar
CHECK_DEADLOCK FALSE
