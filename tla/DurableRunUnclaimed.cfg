CONSTANTS
  Invocations = {i1, i2}
  N = 2
  Kind <- SleepPoll
  Delay <- OneEach
  UseClaims = FALSE
  MaxFaults = 1
SYMMETRY InvocationSymmetry
SPECIFICATION Spec
INVARIANTS FiredBehindSuccessor WakeKept
