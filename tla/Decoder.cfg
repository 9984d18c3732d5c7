SPECIFICATION FairSpec
CONSTANTS
  Pids <- MCPids
  Pipes <- MCPipes
  Capacity = 1
  MaxPlayers = 1
  MaxSamples = 2
INVARIANTS
  NothingLeft
  PidIsOwn
PROPERTIES
  PlayReturns
  OrphansEnd
