SPECIFICATION Spec
CONSTANTS
  Pids <- MCPids
  Pipes <- MCPipes
  Capacity = 1
  MaxPlayers = 2
  MaxSamples = 1
PROPERTY
  StopsDecoderOnly
