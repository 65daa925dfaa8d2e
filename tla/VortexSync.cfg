SPECIFICATION Spec
CONSTANTS
  Units = {"a", "b"}
  Synced = {"a"}
  Buttons = {"page"}
  CpuSlots = 2
  MaxRuns = 3
  MaxJobs = 3
  MaxStarts = 0
  MaxStops = 1
  MaxFaults = 1
  MaxSpent = 1
CHECK_DEADLOCK FALSE
INVARIANTS
  AgentTypeOK
  RangesImported
  SyncedIsStored
