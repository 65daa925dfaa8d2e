SPECIFICATION FairSpec
CONSTANTS
  Clients = {c1}
  Mods = {m1}
  Kinds = {"llm-translate", "voice-generate"}
  LlmKinds = {"llm-translate"}
  VoiceKinds = {"voice-generate"}
  QueueOf <- MCQueueOf
  Concurrency <- MCTwoLlmSlots
  MaxJobs = 3
  MaxStarts = 1
  MaxStops = 0
  MaxCrashes = 1
  MaxStalls = 1
  MaxExpiries = 0
  MaxPending = 1
CHECK_DEADLOCK FALSE
INVARIANTS
  QueuedOnce
  WipedAtMostOnce
  CompletedRowHasVerdict
PROPERTIES
  QueueDrains
