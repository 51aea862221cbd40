CONSTANTS
  MaxSlot = 2
  Fitting <- MCFitting
  Prio <- MCPrio
  Faulty <- MCFaulty
  ClockType = "RB"
  ValidAfter = 1
  FreshAfter = 2
  LostAfter = 1
  MaxSwaps = 2
  MaxCommands = 1
  MaxStarts = 2
SPECIFICATION FairSpec
CHECK_DEADLOCK FALSE
INVARIANTS
  FpgaFollows
  FreeTakesTheBest
PROPERTIES
  JudgedByRounds
  LastingIsDeclared
