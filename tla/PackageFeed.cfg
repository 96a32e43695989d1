SPECIFICATION Spec
CONSTANTS
  b1 = b1  b2 = b2
  t1 = t1  t2 = t2  t3 = t3
  o1 = o1  o2 = o2  o3 = o3
  Clients = {b1, b2}
  Taskhashes = {t1, t2, t3}
  Checksums = {t1, t2, t3}
  Outhashes = {o1, o2, o3}
  NoHash = NoHash
  NoOuthash = NoOuthash
  Retries = 1
  MaxLosses = 2
  MaxHashStops = 1
  ClockGoesBack = FALSE
  Outputs <- Makes
  Remaps <- Migrations
  Builds <- Menu
  MaxBuilds <- Times
  MaxPR = 5
  MaxSignals = 2
  MaxQuits = 1
  MaxCrashes = 1
  MaxPRLosses = 1
  MaxFaults = 1
INVARIANTS
  OneUnihashPerOutput UnihashesSound
PROPERTIES
  FirstReportWins PRFollowsChecksum OnlyLastAtRisk WaitingEnds
CHECK_DEADLOCK FALSE
