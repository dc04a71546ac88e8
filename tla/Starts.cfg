SPECIFICATION MCSpec
CONSTANTS
  Ext = {e1, e2}
  NoExt = NoExt
  HasSecret = TRUE
  Bound = TRUE
  MaxDeliveries = 3
  MaxCrashes = 1
  MaxToggles = 1
  Ticker = {t1, t2}
  Loaded <- MCLoaded
  Startable = {"daily", "every"}
  Trigger <- MCTrigger
  FieldRanges <- MCRanges
  Calendar <- MCCalendar
  MaxTicks = 3
  MaxManual = 1
  Caller = {c1, c2}
  DbTrigger = {g1, g2}
  Limit = 2
  MaxChanges = 3
  MaxCalls = 4
  MaxDeaths = 1
SYMMETRY Similar
INVARIANTS EventsAreWorkOnce NothingIsMissed ChangesAreDrained
PROPERTY StartedOnce
CHECK_DEADLOCK FALSE
