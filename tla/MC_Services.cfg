SPECIFICATION MCSpec
CONSTANTS
  j1 = j1
  j2 = j2
  d1 = d1
  Ids = {j1, j2}
  Deleters = {d1}
  MaxConcurrent = 1
  MaxRestarts = 1
  Faults = {"mkdir_fails"}
  Puts = {"a", "b"}
  MaxMoves = 2
  Plans <- DaemonPlans
INVARIANTS JobsOwned ClientOwned
PROPERTIES JobsSettle ServesThenEnds
CHECK_DEADLOCK FALSE
