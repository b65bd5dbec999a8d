SPECIFICATION AccessSpec
CONSTANTS
  UpdateSiteMaxAgeDays = 30
  Worlds <- MCWorlds
INVARIANT ConclusionsAreSo
PROPERTY IgnoranceNeverDecides
\* the account has been granted every part
CHECK_DEADLOCK FALSE
