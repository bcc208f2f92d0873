SPECIFICATION FairSpec
CONSTANTS
  Callers <- MCCallers
  Plans <- MCPlans
  Timeout = 2
  Retries = 3
  MaxOps = 3
INVARIANT VerdictsStand
PROPERTY EveryRequestEnds
CHECK_DEADLOCK FALSE
