SPECIFICATION Spec
CONSTANTS
  Ids = {j1}
  Deleters = {d1, d2}
  MaxConcurrent = 1
  MaxRestarts = 0
  Faults = {}
INVARIANT RunningIsNotDeleted
CHECK_DEADLOCK FALSE
