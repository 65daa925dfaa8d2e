SPECIFICATION Spec
CONSTANTS
  Clients = {c1}
  Mods = {m1}
  Kinds = {"llm-translate"}
  LlmKinds = {"llm-translate"}
  VoiceKinds = {}
  QueueOf <- MCQueueOf
  Concurrency <- MCConcurrency
  MaxJobs = 2
  MaxStarts = 1
  MaxStops = 1
  MaxCrashes = 1
  MaxStalls = 0
  MaxExpiries = 1
  MaxPending = 1
CHECK_DEADLOCK FALSE
INVARIANTS
  StopReachesHandler
PROPERTIES
  TerminalSticks
  KeepsPromise
