SPECIFICATION Spec
CONSTANTS
  Age <- InTime
  Call = {c1, c2}
  LostKeys = FALSE
  NULL = NULL
INVARIANTS
  TypeOK
  StoredIsConfirmed
  
PROPERTY
  EventuallyDone
CHECK_DEADLOCK FALSE
