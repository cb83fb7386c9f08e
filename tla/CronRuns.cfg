SPECIFICATION CronFairSpec
CONSTANTS
  s1 = s1
  s2 = s2
  w = w
  Schedulers = {s1, s2}
  Workers = {w}
  Stores <- MCStores
  Layouts <- MCLayouts
  Fires = 2
  MaxAge = 1
  TimeLimit = 2
  MaxSetbacks = 1
INVARIANTS NoFireSkipped
PROPERTIES PointerKeptByInstance EndedRunsKept EveryFireRuns
CHECK_DEADLOCK FALSE
