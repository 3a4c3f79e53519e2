SPECIFICATION FairSpec
CONSTANTS
  None = None
  Request = {r1, r2}
  Id <- MCId
  Pool = 1
INVARIANTS
  TypeOK
  Traceable
  OnlyWorkersHold
PROPERTIES
  EveryRequestEnds
  ProbesAreAnswered
