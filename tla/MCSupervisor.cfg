CONSTANTS
  input = input
  wg = wg
  http = http
  NoDaemon = NoDaemon
  Daemons <- MCDaemons
  StartOrder <- MCStartOrder
  RestartOrder <- MCRestartOrder
  Killall <- MCKillall
  Pids <- MCPids
  MaxFail = 1
  MaxDeaths = 3
SPECIFICATION FairSpec
INVARIANTS
  NoneForgotten
  NoOrphans
PROPERTIES
  RestartsThenStops
