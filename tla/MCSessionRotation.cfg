SPECIFICATION Spec
CONSTANTS
  RotationCount = 2
  Fails = {"claim", "upload", "file"}
  MaxSessions = 3
  MaxMessages = 3
  MaxChanges = 2
  MaxStarts = 2
  MaxDepth = 3
PROPERTY
  UsableEncrypts
CHECK_DEADLOCK FALSE
