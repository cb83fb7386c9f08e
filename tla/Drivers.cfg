CONSTANTS
  c1 = c1
  c2 = c2
  Callers = {c1, c2}
  MaxAttempts = 3
  UseClaims = TRUE
  Scenarios <- RetryScenarios
  r1 = r1
  r2 = r2
  r3 = r3
  o1 = o1
  Runs <- MCRuns
  Others <- MCOthers
  Limit = 1
  Backfills <- MCBackfills
  a1 = a1
  a2 = a2
  p1 = p1
  p2 = p2
  t1 = t1
  t2 = t2
  t3 = t3
  Starters <- MCStarters
  Stoppers <- MCStoppers
  Configs <- MCConfigs
  Wakes <- MCWakes
  Bad <- MCBad
  MaxErrors = 2
SPECIFICATION MCSpec
INVARIANTS RetryKeepsWake NeverConflicts 
INVARIANTS SlotsBounded BackfillBounded ReportIsTrue StopIsClean
PROPERTIES NoEarlyAttempt RecordNeverRegresses RetryFinishes
PROPERTIES BackfillReturns WorkersServe
CHECK_DEADLOCK FALSE
