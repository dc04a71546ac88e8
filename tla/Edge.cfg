SPECIFICATION MCSpec
CONSTANTS
  SecretName = {"n1", "n2"}
  MaxDeletes = 1
  MaxMishaps = 1
  MaxOverlaps = 1
  Principal = {"p1", "p2"}
  Token = {"t1"}
  Holder <- MCHolder
  FromIdP = {"p1"}
  AllowAgents = FALSE
  Correspondent = {"s1"}
  RequirePairing = TRUE
  MaxMinutes = 1
  FileName = {"txt", "exe", "note"}
  Extension <- MCExtension
  Offers <- MCOffers
  MaxOffered = 3
  MaxReceived = 2
  MaxDeaths = 1
  MaxFailures = 2
  MaxLoopDeaths = 2
  Process = {"p", "q"}
  Thread = {"t1", "t2", "t3"}
  Home <- MCHome
  Connector = {"rest", "sql", "ql"}
  Declaration <- MCDeclaration
  Asked <- MCAsked
  Settings <- MCSettings
  Planned <- MCPlanned
  MaxConfigs = 1
  TaskOf <- MCTaskOf
  Names <- MCNames
  Configured = {"auto", "container"}
  MaxWrites = 2
  AuditKind = {"a", "b"}
  Chunk = 2
  MaxTampering = 2
  Sender = {"s1", "s2"}
  DeskFile = {"f", "g"}
  OutboundRoots = {"f"}
  Area = {"", "rh", "fin"}
  Required = {"operator", "security_officer"}
  Folk <- MCFolk
  MaxShifts = 1
  MaxApprovals = 2
  Caller = {c1, c2}
  MaxKeys = 3
  MaxPuts = 3
  MaxCalls = 4
  MaxGroups = 1
  Limit = 1
  MaxCommands = 2
  MaxMessages = 3
  MaxFiles = 2
  MaxUpdates = 4
  MaxEdits = 2
  MaxSyncs = 2
  MaxRequests = 2
  MaxSteps = 2
  MaxScripts = 2
  MaxRows = 5
SYMMETRY Callers
INVARIANTS SecretsAreKept AccessIsDecided SendersAreHeld NothingIsDropped PoliciesDecide ToolsStayInside
CHECK_DEADLOCK FALSE
