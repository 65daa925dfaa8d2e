SPECIFICATION Spec
CONSTANTS
  Clients = {c1, c2}
  Mods = {m1}
  Kinds = {"llm-translate"}
  LlmKinds = {"llm-translate"}
  VoiceKinds = {}
  QueueOf <- MCQueueOf
  Concurrency <- MCConcurrency
  MaxJobs = 2
  MaxStarts = 2
  MaxStops = 1
  MaxCrashes = 0
  MaxStalls = 0
  MaxExpiries = 0
  MaxPending = 2
SYMMETRY MCSymmetry
CHECK_DEADLOCK FALSE
INVARIANTS
  TypeOK
  StopReachesHandler
PROPERTIES
  NoStartAfterStop
  DroppedOnlyIfStopped
