SPECIFICATION Spec
CONSTANTS
  Callers <- MCCallers
  Plans <- MCTwoLocks
  Timeout = 2
  Retries = 3
  MaxOps = 2
INVARIANTS
  OwnVerdict
CHECK_DEADLOCK FALSE
