CONSTANTS
  Timers = {t1}
  Writers = {w1}
  Scanners = {s1}
  Readers = {}
  Deadlines = {1}
  MaxTime = 1
  MaxCalls = 2
  MaxFaults = 0
  NoTimer = NoTimer
SPECIFICATION Spec
PROPERTY DeletedStaysDeleted
CHECK_DEADLOCK FALSE
