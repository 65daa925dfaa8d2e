SPECIFICATION Spec
CONSTANTS
  Clients = {c1}
  Langs = {en}
  UploadLang = en
  PluginLines = 0
  ExtraLines = 3
  BatchSize = 2
  MaxAttempts = 2
  RollsBack = TRUE
  Happens = {"pause"}
  MaxEvents = 1
  MaxJobs = 2
CHECK_DEADLOCK FALSE
INVARIANTS
  ResumesCleanly
