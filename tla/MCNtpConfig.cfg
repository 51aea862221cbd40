CONSTANTS
  c1 = c1
  c2 = c2
  c3 = c3
  on = on
  off = off
  bad = bad
  Commands <- MCCommands
  Values <- MCValues
  Bad = bad
  Default = off
  MaxMsgs = 2
  MaxBoots = 2
SPECIFICATION FairConfigSpec
CHECK_DEADLOCK FALSE
INVARIANTS
  CopiesAgree
PROPERTIES
  AckedIsRead
