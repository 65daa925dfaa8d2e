SPECIFICATION FairSpec
CONSTANTS
  Clients = {c1, c2}
  Langs = {en, uk}
  UploadLang = en
  PluginLines = 3
  ExtraLines = 1
  BatchSize = 2
  MaxAttempts = 2
  RollsBack = FALSE
  Happens <- Events
  MaxEvents = 2
  MaxJobs = 2
CHECK_DEADLOCK FALSE
INVARIANTS
  TypeOK
  CheckpointCommitted
  CompletedHasAll
PROPERTIES
  FreshRunExact
  RunsEnd
