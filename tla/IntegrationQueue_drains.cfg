SPECIFICATION FairSpec
CONSTANTS
  Worker = {w1, w2}
  Human = {h}
  Key = {k}
  NoKey = NoKey
  MaxAttempts = 2
  Batch = 2
  Base = 1
  Cap = 2
  MaxJobs = 2
  MaxCalls = 2
  MaxCrashes = 1
  MaxLost = 1
INVARIANTS
  TypeOK
  GivenUpAfterAttempts
  JobsAreHonest
  CalledOnce
PROPERTIES
  EveryJobEnds
