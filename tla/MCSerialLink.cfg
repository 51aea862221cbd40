CONSTANTS
  MaxErr = 3
  MaxFrames = 3
  MaxFaults = 3
SPECIFICATION FairSpec
CHECK_DEADLOCK FALSE
INVARIANTS
  InOrderAtMostThrice
  SuccessMeansReceived
PROPERTIES
  SendReturns
