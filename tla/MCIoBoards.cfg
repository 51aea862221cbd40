SPECIFICATION Spec
CONSTANTS
  gps = gps
  ptp = ptp
  none = none
  NoBoard = none
  InKinds <- MCInKinds
  OutKinds <- MCOutKinds
  MaxSlot = 1
  MaxIn = 1
  MaxChanges = 2
  MaxCommands = 2
  MaxKills = 1
INVARIANTS FourCopiesAgree OthersAreKept
PROPERTY BoardsAreServed
