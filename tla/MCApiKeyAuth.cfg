SPECIFICATION FairSpec
CONSTANTS
  None = None
  Request = {r1, r2}
  Operator = {o1, o2}
  Key = {k1}
  Expiry <- MCExpiry
  MaxTime = 2
INVARIANTS
  TypeOK
  UsedByTheAdmitted
PROPERTIES
  InvalidKeyStaysOut
  ValidKeyIsNotDenied
  OnlyOperatorsSwitch
