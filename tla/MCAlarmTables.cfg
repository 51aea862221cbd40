CONSTANTS
  MaxAlarm = 3
  MaxCur = 2
  MaxUpload = 2
  MaxId = 5
  MaxAlm = 2
  MaxChanges = 7
  MaxStarts = 2
  MaxFaults = 1
SPECIFICATION FairSpec
CHECK_DEADLOCK FALSE
INVARIANTS
  ListIsCurrent
  LogsHoldLatest
PROPERTIES
  SettledIsShown
