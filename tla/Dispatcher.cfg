SPECIFICATION FairSpec
CONSTANTS
  s1 = s1
  s2 = s2
  c1 = c1
  c2 = c2
  Subs <- MCSubs
  Callers <- MCCallers
  MaxInflight = 1
  Queues <- MCQueues
INVARIANTS CountersSafe CleanShutdown
PROPERTIES OutcomeIsFinal ShutdownReturns
CHECK_DEADLOCK FALSE
