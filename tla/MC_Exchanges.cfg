SPECIFICATION MCSpec
CONSTANTS
  MaxBackoff = 3
  MaxEvents = 5
  Gga = TRUE
  Core <- MCCore  Signals <- MCSignals  Features <- MCFeatures  ChunkSize = 3
  CfgPlans <- ConfigPlans
  SbgUnits <- Ellipses  VnUnits <- Vns
  MaxFaults = 1  MaxRestarts = 1  MaxCuts = 1  Retries = 2
  MaxFrames = 3  MaxTime = 5  MaxCrashes = 1  Hour = 2  PendingCap = 2  BackstepHold = 1
  SidecarEvery = 2
INVARIANTS ClientHonest ConfigureHonest AppliedIsKept NeverMute CaptureCounts ChunksDoNotMatter EpochsWhole
  ActiveIsTruth
PROPERTIES RetriesEarned FeatureKept
CHECK_DEADLOCK FALSE
