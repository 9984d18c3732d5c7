SPECIFICATION Spec
CONSTANTS
  SampleSize = 16387
  TailSize = 3
  HeaderSize = 16
  Minimum = 32
  Partial = {}
  MaxSongs = 3
  MaxSamples = 2
  MaxCommands = 2
  MaxErrors = 0
INVARIANT
  NoSmallChunk
CHECK_DEADLOCK FALSE
