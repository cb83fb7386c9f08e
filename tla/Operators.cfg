SPECIFICATION MCSpec
CONSTANTS
  r1 = r1
  r2 = r2
  s1 = s1
  s2 = s2
  Nobody = Nobody
  Runs = {r1, r2}
  Sweepers = {s1, s2}
  Operators = {s2}
  Used = {"timer"}
  MaxDamage = 1
  MaxFaults = 1
  Names <- MCNames
  Walks <- MCWalks
  Contents <- MCContents
  Objects <- MCObjects
  Malformed <- MCMalformed
  CorruptRuns = {2}
  Children <- MCChildren
  Quarantined = 1
  Limits <- MCLimits
  MaxChanges = 1
  MaxFailures = 1
  Timers = {1, 2}
  KindOf <- MCKindOf
  FireAt <- MCFireAt
  ListClaims = TRUE
  OverdueGrace = 0
  Lease = 0
  RunLimits = {1, 2}
  MaxInvocations = 2
  MaxNow = 1
INVARIANTS NoOrphans PagesAreComplete WalksAdvance NoFalseAlarm
PROPERTIES SweepSparesLiveRuns ExpiredRunsGo
CHECK_DEADLOCK FALSE
