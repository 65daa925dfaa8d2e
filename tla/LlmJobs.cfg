SPECIFICATION FairSpec
CONSTANTS
  Items <- MCItems
  BatchSize = 2
  MaxSlots = 2
  ReadAhead = 1
  MaxAttempts = 2
  PageSize = 2
  Plain = {3}
  DbAttempts = 2
  MaxSaves = 1
CHECK_DEADLOCK FALSE
INVARIANTS
  TypeOK
  ReportedOnce
  NothingLost
  QuietWhenOver
PROPERTIES
  HumanTextKept
  JobEnds
