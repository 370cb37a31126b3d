CONSTANTS
  Cmds = {c1, c2}
  Settings = {0, 2}
  Default = 2
  WarningLead = 2
  Extension = 2
  MaxExtensions = 1
  MaxAction = 2
  MaxFaults = 2
SPECIFICATION FairSpec
CHECK_DEADLOCK FALSE
INVARIANT TypeOK
INVARIANT TimersSound
PROPERTY WaitingActionKept
PROPERTY AlarmedActionEnds
