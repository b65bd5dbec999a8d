SPECIFICATION AccessSpec
CONSTANTS
  UpdateSiteMaxAgeDays = 30
  Worlds <- MCWorlds
INVARIANT PassReadsEveryFlag
\* the account has been granted every part
CHECK_DEADLOCK FALSE
