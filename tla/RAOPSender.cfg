SPECIFICATION FairSpec
CONSTANTS
  SampleSize = 16387
  TailSize = 3
  HeaderSize = 16
  Minimum = 32
  Partial = {1, 17}
  MaxSongs = 3
  MaxSamples = 2
  MaxCommands = 2
  MaxErrors = 1
INVARIANTS
  TypeOK
  FlagsTellPending
  PacketAccounted
PROPERTIES
  SamplesInOrder
  SongEnds
CHECK_DEADLOCK FALSE
