SPECIFICATION FairSpec
CONSTANTS
  MaxRequests = 2
  MaxSends = 2
  MaxMail = 2
  MaxRestarts = 0
  MaxFd = 9
PROPERTY
  ClosesAirPortOnly
CHECK_DEADLOCK FALSE
