SPECIFICATION Spec
CONSTANTS
  FullChunk = 8
  SmallChunk = 5
  Sessions <- MCSessions
  Songs <- MCSongs
INVARIANTS
  ChunkLayout
  PacketDecodes
  CodecsAgree
