SPECIFICATION MCSpec
CONSTANTS
  Workflows = {"w1"}
  RunIds = {"r1", "r2"}
  Ids = {"a", "b"}
  Payloads = {"p1", "p2"}
  Times = {1, 2}
  RunOrder <- Order
  Clients = {c1, c2}
  Workloads <- Loads
  Branches = {c1, c2}
  Entries = {"run", "timer"}
  KindOfEntry <- Kind
  Values = {"x"}
  NoRecord = NoRecord
  Unknown = Unknown
  MaxMishaps = 1
 
INVARIANT DeliveredOnce
INVARIANT ClaimHeldOnce
INVARIANT CacheCoherent
SYMMETRY Interchangeable
