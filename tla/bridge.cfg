SPECIFICATION BridgeSpec
CONSTANTS
  Configs <- MCConfigs
  MIN_MLAT_RECEIVERS = 2
  TickModulus = 8
  Mark = 2
  ModeAC = 3
  Short = 4
  Long = 5
  TYPE_TO_MESSAGE_LEN <- MCLengths
  IncludeShortFrames = FALSE
  Bodies <- MCBodies
  PowerOn <- MCPowerOn
  None = None
  MaxTime = 4
  MaxFrames = 2
  MaxCalls = 2
INVARIANTS LinesAreFrames TimestampsAreTrue ReadyNeverEnds
CHECK_DEADLOCK FALSE
