SPECIFICATION StagesSpec
CONSTANTS
  Units = {"a", "b"}
  Synced = {"a"}
  Buttons = {"page"}
  CpuSlots = 2
  MaxRuns = 2
  MaxJobs = 2
  MaxStarts = 2
  MaxStops = 1
  MaxFaults = 1
  MaxSpent = 2
CHECK_DEADLOCK FALSE
INVARIANTS
  VortexTypeOK
  StopReachesMods
  FanOutsDone
PROPERTIES
  RecoverySparesLive
  RunsEnd
