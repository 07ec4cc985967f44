SPECIFICATION Spec
CONSTANTS
  Req = {r1, r2}
  Cancellable = {c1, c2, c3, c4}
  NoCancellable = NoCancellable
  Server = {hs}
  NoServer = NoServer
  Migrated = FALSE
  EnabledInStore = FALSE
  Calls = {"enable", "disable", "start_sync", "stop_sync", "set_password",
           "set_access_token", "set_homeserver", "get_homeserver", "network"}
  Fails = {"net", "timeout", "unknown_token", "no_url", "bad_url", "other"}
SYMMETRY Symmetry
CHECK_DEADLOCK FALSE
INVARIANTS TypeOK DbLoadsOnce NoOrphanTimer InSyncMeansSyncing
PROPERTY CancelledLoopEnds
