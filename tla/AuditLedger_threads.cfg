SPECIFICATION Spec
CONSTANTS
  t1 = t1
  t2 = t2
  t3 = t3
  api = api
  cli = cli
  Thread = {t1, t2, t3}
  Process = {api, cli}
  ProcessOf <- Together
  NoThread = NoThread
  Body = {a, b}
  MaxEvents = 4
  MaxCrashes = 1
  MaxTampers = 2
INVARIANTS
  TypeOK
  VerifyIsExact
PROPERTIES
  RecordIsAtomic
