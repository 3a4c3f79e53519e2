SPECIFICATION FairSpec
CONSTANTS
  None = None
  Request = {r1}
  Breakable <- MCBreakable
INVARIANTS
  TypeOK
  NobodyMissing
  FailsForAClientOnly
PROPERTIES
  EveryReportEnds
