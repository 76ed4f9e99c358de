SPECIFICATION Spec
CONSTANTS
  Files <- MCFiles
  StaleSeconds = 1
  TelemetrySeconds = 2
  RecentSeconds = 1
  ExportSeconds = 2
  None = None
  MaxTime = 4
  MaxSignals = 2
  MaxStarts = 2
  MaxEdits = 1
  MaxRefreshes = 2
  MaxEvents = 4
INVARIANTS NeverOverstated VerifiedIsObserved CalmCapturePublishes
CHECK_DEADLOCK FALSE
