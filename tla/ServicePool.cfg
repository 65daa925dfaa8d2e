SPECIFICATION FairSpec
CONSTANTS
  Callers = {c1, c2}
  Hosts = {"a", "b"}
  Kinds = {"llm", "tts", "tools"}
  ChatKinds = {"llm"}
  HeldKinds = {"tools"}
  Settings <- MCSettings
  MaxPools = 2
  MaxTries = 1
INVARIANTS
  TypeOK
  SlotsCounted
PROPERTIES
  WaitTellsTruth
  CallsEnd
  HostReturns
