CONSTANTS
  c1 = c1
  c2 = c2
  Callers = {c1, c2}
  MaxAttempts = 3
  UseClaims = TRUE
  Scenarios <- DurableFanout
SPECIFICATION Spec
PROPERTY RecordNeverRegresses
CHECK_DEADLOCK FALSE
