SPECIFICATION Spec
CONSTANTS
  None = None
  Request = {r1, r2, r3}
  Client = {c1, c2}
  Limit = 1
  Window = 2
  MaxTime = 4
  MaxLag = 1
SYMMETRY RequestSymmetry
INVARIANTS
  TypeOK
  WindowLimit
  RejectedForCause
  RetryAfterHelps
  NoKeyLeaks
