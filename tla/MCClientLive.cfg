SPECIFICATION FairSpec
CONSTANTS
  Req = {r1, r2}
  Cancellable = {c1, c2}
  NoCancellable = NoCancellable
  Server = {hs}
  NoServer = NoServer
  Migrated = TRUE
  EnabledInStore = FALSE
  Calls = {"enable"}
  Fails = {"net"}
CHECK_DEADLOCK FALSE
INVARIANT LoadingMatchesRequests
PROPERTY EnabledClientSyncs
