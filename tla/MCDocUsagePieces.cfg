SPECIFICATION Spec
CONSTANTS
  None = None
  Call = {c1}
  Metadata <- MCMetadata
  MaxPulls = 3
INVARIANTS
  AllTokensCounted
