SPECIFICATION MCSpec
CONSTANTS
  Topics = {"raw", "fix"}
  Subs = {"logger", "state"}
  Unbounded = {"logger"}
  MaxSize = 2
  HighWater = 2
  Matches <- BusMatches
  MaxPublish = 4
  Rovers = {"r1", "r2"}  V2 = {"r1"}  QMax = 2  Grace = 1  Plans <- CasterPlans
INVARIANTS DeliveredExactly RoversServed
PROPERTIES CloseEndsConsumer StreamsEnd
CHECK_DEADLOCK FALSE
