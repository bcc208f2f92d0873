SPECIFICATION PpkSpec
CONSTANTS
  SlotsPerHour = 2
  LastHour = 2
  PendingCap = 1
  Plans <- LogPlans
  Units = {"u", "v"}  Writers = {"w"}  MaxCancels = 2  MaxErrors = 1
  MaxTs = 4  Minute = 2  Keep1s = 2  Keep1m = 3  MaxBacks = 1  MaxFails = 1  MaxStarts = 2
  Collects <- CollectCalls  SkipFactor = 1  QueueSize = 1  MaxEpochs = 2  MaxSessions = 1
  MaxTime = 1  MaxFaults = 1
  MaxRows = 2  MaxRestores = 2  MaxDeaths = 2
  Exports <- ExportPlans  Window <- OneHour  MaxStepFaults = 1  MaxKills = 1
  PpkPlans <- PpkRuns  LoggedAt <- MovedBase  Sites = {"A", "B"}  MaxRunFaults = 1
INVARIANT PlacedWhereLogged
CHECK_DEADLOCK FALSE
