SPECIFICATION Spec
CONSTANTS
  Age <- Late
  Call = {c1, c2}
  LostKeys = FALSE
  NULL = NULL
INVARIANT
  StaleIsCancelled
CHECK_DEADLOCK FALSE
