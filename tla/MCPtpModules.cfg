CONSTANTS
  Rubidium = FALSE
  Lists <- MCLists
  Default <- MCDefault
  Worlds <- MCWorlds

SPECIFICATION Spec

INVARIANTS
  RegistersAreSet
  OnlyItsPeers
  SsmFollows
  OutputsAgree
  FreeTimeOnce

PROPERTIES
  Recovers
