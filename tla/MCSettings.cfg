CONSTANTS
  Shells = {s1, s2}
  MaxLines = 2
  MaxFaults = 1
SPECIFICATION SettingsSpec
INVARIANTS
  ReadsBack
  ClosesWhatItOpened
PROPERTIES
  RestartChangesNothing
  HelpIsHandled
  ComesBack
CHECK_DEADLOCK FALSE
