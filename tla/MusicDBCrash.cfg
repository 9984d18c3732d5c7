SPECIFICATION Spec
CONSTANTS
  Songs = {1, 3}
  Positions = {0}
  MaxRows = 4
  MaxErrors = 0
  MaxCrashes = 1
  Album <- MCAlbum
  AutoList <- MCAutoList
INVARIANTS
  TypeOK
  UniqueCurrent
  TimesFollowStatus
  NeverNullRow
  Fifo
PROPERTIES
  StatusMonotone
  TurnSavedBeforeQueued
  ImplementsPlayQueue
