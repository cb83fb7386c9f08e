CONSTANTS
  Timers = {t1}
  Writers = {w1}
  Scanners = {s1}
  Readers = {r1}
  Deadlines = {1}
  MaxTime = 1
  MaxCalls = 3
  MaxFaults = 1
  NoTimer = NoTimer
SPECIFICATION FairSpec
PROPERTIES ReturnedWasVisible RegisterSpec CopiesConverge DueWakeReturned
