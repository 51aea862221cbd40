CONSTANTS
  Leaps = {1, 2}
  Worlds <- MCWorlds
  GetAfter = 1
  Tod = {2}
  LostAfter = 1
  FreshAfter = 1
  ForecastFor = 3
  MaxQueue = 2
SPECIFICATION Spec
CHECK_DEADLOCK FALSE
INVARIANTS
  ReceptionIsJudged
  RegisterHolds
  OneLeapSecond
  ForecastEnds
