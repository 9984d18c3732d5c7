SPECIFICATION Spec
CONSTANTS
  Songs = {1, 3}
  Positions = {}
  MaxRows = 3
  MaxErrors = 1
  MaxCrashes = 0
  Album <- MCAlbum
  AutoList <- MCAutoList
PROPERTIES
  FallbackToManual
