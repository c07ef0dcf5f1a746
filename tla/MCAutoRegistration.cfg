CONSTANTS
  Configs <- MCConfigs
  Patches <- MCPatches
  MaxPool = 2
  MaxAttempts = 3
  NoConfig = NoConfig
  MaxPerCycle = 2
  MaxUsable = 2
  MaxTarget = 2
SPECIFICATION FairSpec
INVARIANTS IdleIsQuiet
PROPERTIES LaunchesLeaveRoom ManualRunLeftAlone StoppedRunEnds TurnedOffMeansOff
