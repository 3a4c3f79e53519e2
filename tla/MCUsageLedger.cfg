SPECIFICATION Spec
CONSTANTS
  None = None
  Request = {r1, r2, r3}
  Key = {k1, k2}
  Spending <- MCSpending
  MaxTime = 1
SYMMETRY LedgerSymmetry
INVARIANTS
  TypeOK
  KeysAddUp
  ChargedWhatWasSpent
  CountedAreListed
