SPECIFICATION FairSpec
CONSTANTS
  MaxRequests = 2
  MaxSends = 2
  MaxMail = 2
  MaxRestarts = 1
  MaxFd = 9
INVARIANTS
  TypeOK
  PlayingConnected
  PlayedSongIsCurrent
  VolumeToAirPortOnly
PROPERTIES
  QueueDrains
  CommandsHandled
CHECK_DEADLOCK FALSE
