SPECIFICATION Spec
CONSTANTS
  x = x
  room = room
  me = me
  other = other
  NULL = NULL
  User = {me, other}
  Device = {}
  Room = {room}
  Session = {}
  OutSession = {}
  File = {}
  Token = {0, 1, 2, 3}
  Uid = {1, 2, 3}
  Txn = {x}
  PageSize = 2
  Past <- MCPast
  MaxEvents = 3
  ChunkSize = 2
  LimitedSyncs = FALSE
  EmptySends = FALSE
  MaxEmpty = 1
  MaxStarts = 2
  Crashes = FALSE
INVARIANTS
  TypeOK
  ShownIsHistory
  StoredIsHistory
PROPERTY
  HistoryIsShown
CHECK_DEADLOCK FALSE
