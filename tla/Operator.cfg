CONSTANTS
  Readers = {a, b}
  Changes = 1
  Channels = {1, 2}
  Paths = {1, 2}
  Events = 3
  ClassAgents = {a1, a2, a3}
  Percent = 25
  ReserveTTL = 1
  SlotTroubles = 1
  Ids = {1, 2, 3}
  Size = 2
  Values0 = {1, 2}
  Writes = 3
  Faults = 2
  Crashes0 = 1
  Swaps = 2
  Requests = {q1, q2}
  Edits = 2
  Findings = {1, 2, 3}
  MaxListed = 1
  NoteTroubles = 3
  Viewers = {v1, v2}
  Arrivals = 2
  ReviewTTL = 2
  FailedTTL = 1
  AccessTTL = 1
  SessionAge = 3
  Horizon = 4
  ReviewErrors = 1
SPECIFICATION Spec
CHECK_DEADLOCK FALSE
VIEW PartView
INVARIANTS WatchesSound PathsFollow DriftSound StoreSurvives CertsFresh NotesTold 
