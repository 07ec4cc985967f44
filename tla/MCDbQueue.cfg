SPECIFICATION Spec
CONSTANTS
  u = u
  r = r
  dev = dev
  inbound = inbound
  outbound = outbound
  f = f
  t1 = t1
  t2 = t2
  e1 = e1
  e2 = e2
  x = x
  NULL = NULL
  User = {u}
  Device = {dev}
  Room = {r}
  Session = {inbound, outbound}
  OutSession = {outbound}
  File = {f}
  Token = {t1, t2}
  Uid = {e1, e2}
  Txn = {x}
  PageSize = 1
  Files <- MCFiles
  Requests <- MCRequests
  EarlyCalls = FALSE
INVARIANTS
  TypeOK
  
  LastCallWins
  ClosedLast
PROPERTY
  CallsReturn
CHECK_DEADLOCK FALSE
