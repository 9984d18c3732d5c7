SPECIFICATION FairSpec
CONSTANTS
  Songs = {1, 3}
  Positions = {}
  MaxRows = 3
  MaxErrors = 2
  MaxCrashes = 1
  Album <- MCAlbum
  AutoList <- MCAutoList
INVARIANTS
  StaleBounded
  CountsMatch
  AtMostOneAutomaticQueued
PROPERTIES
  CallReturns
