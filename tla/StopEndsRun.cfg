SPECIFICATION StagesSpec
CONSTANTS
  Units = {"a"}
  Synced = {"a"}
  Buttons = {"page"}
  CpuSlots = 2
  MaxRuns = 2
  MaxJobs = 2
  MaxStarts = 1
  MaxStops = 1
  MaxFaults = 0
  MaxSpent = 2
CHECK_DEADLOCK FALSE
PROPERTIES
  StopEndsRun
