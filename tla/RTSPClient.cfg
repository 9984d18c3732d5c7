SPECIFICATION FairSpec
CONSTANTS
  HeaderLists <- MCHeaderLists
  MaxConnects = 2
  MaxVolumes = 1
INVARIANTS
  TypeOK
  SessionIsOwn
  ChallengeOnce
PROPERTIES
  AnswersMatch
  RequestsReturn
CHECK_DEADLOCK FALSE
