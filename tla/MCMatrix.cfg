SPECIFICATION Spec
CONSTANTS
  a = a
  b = b
  NULL = NULL
  Login = {a, b}
  Client <- MCClient
  login <- MCLogin
  Stored <- MCStored
  Given <- MCGiven
  MaxChanges = 1
  MaxStarts = 2
  EarlyChanges = FALSE
  EarlyClients = FALSE
INVARIANTS
  TypeOK
  
  ChangesArePending
PROPERTY
  AccountsAreSaved
CHECK_DEADLOCK FALSE
