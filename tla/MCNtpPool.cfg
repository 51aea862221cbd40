CONSTANTS
  Threads = 3
  MaxTasks = 2
  MaxReq = 5
SPECIFICATION FairSpec
INVARIANTS
  Ownership
  NoLostWakeup
  DrainedWhenClosed
PROPERTIES
  ImplementsService
  EndsServed
