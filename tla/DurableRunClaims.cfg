CONSTANTS
  Invocations = {i1, i2}
  N = 4
  Kind <- SleepPollManualSleep
  Delay <- ZeroLast
  UseClaims = TRUE
  MaxFaults = 2
SPECIFICATION FairSpec
INVARIANTS SingleFlight SleepElapsed
PROPERTIES TerminalIsFinal ArmedRunFinishes
