SPECIFICATION MCSpec
CONSTANTS
  Reasons = {"absent", "busy"}
  MaxBackoff = 2
  Plans <- ResetPlans
  Sinks = {"tcp", "serial"}  TcpClients = {"x", "y"}  MaxTcp = 1  Backlog = 1  Retry = 1
  MaxFaults = 2  MaxJoins = 2
  Sockets = {"x", "y"}  Wants <- BrowserWants  BusQueue = 1  Outbox = 1  MaxSockets = 1
  MaxUpdates = 2
INVARIANTS
  ProfileKept
CHECK_DEADLOCK FALSE
