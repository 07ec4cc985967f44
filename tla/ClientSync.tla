------------------------------ MODULE ClientSync ------------------------------
(***************************************************************************)
(* The login and sync life cycle of one CmClient (src/src/cm-client.c) and *)
(* the reconnection logic of CmMatrix that drives it (src/src/cm-matrix.c).*)
(*                                                                         *)
(* Everything runs on one GLib main loop.  A client is a set of flags and  *)
(* a dispatcher, matrix_start_sync(), which looks at the flags and sends   *)
(* the one request that is missing next: load the database, look up the    *)
(* homeserver, verify it, log in, fetch the room lists, upload the filter, *)
(* /sync.  Every answer is a callback that changes some flags and calls    *)
(* the dispatcher again.  Between sending and answer anything may happen:  *)
(* calls of the application, network changes, the retry timer, and the     *)
(* answers to other requests, those of a loop that was stopped included.   *)
(***************************************************************************)
EXTENDS Integers

CONSTANTS
  Req,        \* identities of the requests that may be in flight at once
  Cancellable,   \* identities of the GCancellables in use at once
  NoCancellable, \* a request that nothing can cancel
  Server,     \* homeserver URLs
  NoServer,   \* the homeserver is not known yet (NULL)
  Migrated,   \* the database was migrated from a schema without room lists
  EnabledInStore, \* the account was saved enabled, and auto login is off
  Calls,      \* the API calls the application makes
  Fails       \* the kinds of failure the network and the server produce

AllCalls == {"enable", "disable", "start_sync", "stop_sync", "set_password",
             "set_access_token", "set_homeserver", "get_homeserver", "network"}

\* net: the errors handle_matrix_glitches() retries; timeout: the timeout of
\* cm_utils_read_uri_async(); unknown_token: M_UNKNOWN_TOKEN; no_url and
\* bad_url: homeserver lookups without a (valid) answer; other: the rest
AllFails == {"net", "timeout", "unknown_token", "no_url", "bad_url", "other"}

ASSUME ConstantsAssumption ==
  /\ NoServer \notin Server
  /\ NoCancellable \notin Cancellable
  /\ Migrated \in BOOLEAN
  /\ EnabledInStore \in BOOLEAN
  /\ Calls \subseteq AllCalls
  /\ Fails \subseteq AllFails

VARIABLES
  client,     \* the fields of struct _CmClient the life cycle depends on
  request,    \* for each identity, the request it stands for
  cancelled,  \* the cancellables g_cancellable_cancel() was called on
  online,     \* what GNetworkMonitor says of the network
  reconnect   \* CmMatrix: network_change_id, the debounce timer, is set

vars == <<client, request, cancelled, online, reconnect>>

-----------------------------------------------------------------------------
(* Requests.                                                               *)

Lists  == {"db", "direct", "joined"}
Stages == Lists \cup {"get_hs", "verify", "login", "filter", "sync", "key"}

\* Who asked: matrix_start_sync() itself or cm_client_get_homeserver_async()
Tags == {"sync", "get_homeserver"}

MaybeServer == Server \cup {NoServer}
MaybeCancellable == Cancellable \cup {NoCancellable}

\* Where the program ends: g_assert (self->password && *self->password) fails
\* in client_login_with_password_async().
Aborted == "aborted"

Op == [ stage : Stages \cup {"idle", Aborted},
        tag   : Tags,
        canc  : MaybeCancellable,   \* the GCancellable it was sent with
        server: MaybeServer ]       \* the homeserver a "verify" asks

Idle == [stage |-> "idle", tag |-> "sync", canc |-> NoCancellable, server |-> NoServer]

\* matrix_start_sync (self, NULL): a GTask with the client's own cancellable
NewTask(s) == [tag |-> "sync", canc |-> s.cancellable]

\* The GTask a callback hands on to the next request
TaskOf(op) == [tag |-> op.tag, canc |-> op.canc]

Client ==
  [ loading   : SUBSET Lists,   \* db_loading, direct_room_list_loading, room_list_loading
    loaded    : SUBSET Lists,   \* db_loaded, direct_room_list_loaded, room_list_loaded
    user_id   : BOOLEAN,        \* a valid Matrix ID is known, as user or login id
    homeserver: MaybeServer,
    versions  : MaybeServer,    \* whose homeserver_versions are recorded
    password  : BOOLEAN,
    token     : BOOLEAN,        \* CmNet has an access token
    pickle_key: BOOLEAN,
    cm_enc    : BOOLEAN,
    filter_id : BOOLEAN,
    db_migrated: BOOLEAN,
    is_sync   : BOOLEAN,
    sync_failed: BOOLEAN,
    login     : {"out", "logging_in", "logged_in"},  \* is_logging_in, login_success
    enabled   : BOOLEAN,
    tried     : BOOLEAN,        \* has_tried_connecting
    resync_id : BOOLEAN,        \* resync_id is set
    timers    : Nat,            \* schedule_resync() sources that are attached
    cancellable: Cancellable ]

\* homeserver_verified: set together with homeserver_versions
Verified(s) == s.versions # NoServer

TypeOK ==
  /\ client \in Client
  /\ request \in [Req -> Op]
  /\ cancelled \subseteq Cancellable
  /\ online \in BOOLEAN
  /\ reconnect \in BOOLEAN

Running == \A r \in Req : request[r].stage # Aborted

\* The callback of request r runs; the application makes a call
Answers(r, stage) == Running /\ request[r].stage = stage
Calling(call) == Running /\ call \in Calls

-----------------------------------------------------------------------------
(* The dispatcher, matrix_start_sync().                                    *)

\* A dispatcher that forgets what is being loaded.
ForgetfulStage(s) ==
  IF "db" \notin s.loaded THEN "db"
  ELSE IF s.homeserver = NoServer THEN IF s.user_id THEN "get_hs" ELSE "no_server"
  ELSE IF ~Verified(s) THEN "verify"
  ELSE "busy"

\* The request that is missing next: conditions the code tests in this order.
Stage(s) ==
  IF s.loading # {} THEN "busy"
  ELSE IF "db" \notin s.loaded THEN "db"
  ELSE IF s.homeserver = NoServer THEN IF s.user_id THEN "get_hs" ELSE "no_server"
  ELSE IF ~Verified(s) THEN "verify"
  ELSE IF ~s.password /\ ~s.token THEN "no_password"
  ELSE IF ~s.token \/ ~s.cm_enc THEN "login"
  ELSE IF s.db_migrated /\ "direct" \notin s.loaded THEN "direct"
  ELSE IF s.db_migrated /\ "joined" \notin s.loaded THEN "joined"
  ELSE IF ~s.filter_id THEN "filter"
  ELSE "sync"

LoggingIn(s) ==
  \/ Stage(s) \in {"get_hs", "verify", "login", "filter"}
  \/ Stage(s) = "sync" /\ ~s.is_sync

\* What the dispatcher leaves behind in the client...
Advance(s) ==
  [s EXCEPT !.sync_failed = FALSE,
            !.loading = @ \cup ({Stage(s)} \cap Lists),
            !.token = @ /\ Stage(s) # "login",
            !.login = IF LoggingIn(s) THEN "logging_in" ELSE @]

\* ... and the request it sends for a task.  The room lists are fetched with
\* no cancellable of the client.
Sent(s, task) ==
  IF Stage(s) \notin Stages
  THEN Idle
  ELSE [ stage  |-> IF Stage(s) = "login" /\ ~s.password THEN Aborted ELSE Stage(s),
         tag    |-> IF Stage(s) \in {"direct", "joined", "sync"} THEN "sync" ELSE task.tag,
         canc   |-> IF Stage(s) \in {"direct", "joined"} THEN NoCancellable ELSE task.canc,
         server |-> IF Stage(s) = "verify" THEN s.homeserver ELSE NoServer ]

\* matrix_start_sync() on what a callback or call has made of the client; r is
\* the identity of the request that is sent.
StartSync(s, r, task) ==
  /\ client' = Advance(s)
  /\ request' = [request EXCEPT ![r] = Sent(s, task)]

\* The callback of request r ends without another request.
Finish(s, r) ==
  /\ client' = s
  /\ request' = [request EXCEPT ![r] = Idle]

-----------------------------------------------------------------------------
(* Failures, the retry timer, and stopping.                                *)

\* cm_client_can_connect()
CanConnect(s) == ~s.tried \/ online

\* The timer is removed without a look at resync_id.
HastyClearTimer(s) == [s EXCEPT !.timers = @ - 1, !.resync_id = FALSE]

\* g_clear_handle_id (&self->resync_id, g_source_remove)
ClearTimer(s) ==
  [s EXCEPT !.timers = IF s.resync_id THEN @ - 1 ELSE @, !.resync_id = FALSE]

ArmTimer(s) == [s EXCEPT !.timers = @ + 1, !.resync_id = TRUE]

\* client_reset_state(), which keeps cm_enc
ResetState(s) ==
  [s EXCEPT !.is_sync = FALSE, !.pickle_key = FALSE, !.filter_id = FALSE,
            !.token = FALSE, !.login = "out"]

\* A retry that leaves the timer of an earlier failure running.
DoubleRetryLater(s) ==
  LET failed == [s EXCEPT !.sync_failed = TRUE]
  IN  IF CanConnect(s) THEN ArmTimer(failed) ELSE failed

\* A retry that waits for the network to change, and for nothing else.
NoRetryLater(s) == [s EXCEPT !.sync_failed = TRUE]

\* handle_matrix_glitches() for an error the network may have caused
RetryLater(s) ==
  LET failed == [s EXCEPT !.sync_failed = TRUE]
  IN  IF CanConnect(s) THEN ArmTimer(ClearTimer(failed)) ELSE failed

\* handle_matrix_glitches() at the end of the callback of request r.  It
\* returns FALSE where nothing is retried, which makes the callback tell the
\* application; the client's state is the same either way.
HandleGlitch(s, r, error) ==
  IF error = "unknown_token" /\ s.password
  THEN StartSync(ResetState(s), r, NewTask(s))
  ELSE Finish(IF error \in {"net", "timeout"} THEN RetryLater(s) ELSE s, r)

\* schedule_resync(): the timer source fires
Resync(r) ==
  /\ Running
  /\ client.timers > 0
  /\ request[r] = Idle
  /\ LET s == [client EXCEPT !.timers = @ - 1, !.resync_id = FALSE]
     IN  IF CanConnect(s)
         THEN StartSync(s, r, NewTask(s))
         ELSE Finish(ArmTimer(s), r)
  /\ UNCHANGED <<cancelled, online, reconnect>>

InUse == {client.cancellable} \cup {request[r].canc : r \in Req}

\* g_cancellable_new ()
FreshCancellable(c) == c \in Cancellable \ InUse

\* cm_client_stop_sync(): what is in flight is cancelled, not forgotten
Stopped(s, c) ==
  [ClearTimer(s) EXCEPT !.is_sync = FALSE, !.sync_failed = FALSE,
                        !.login = "out", !.cancellable = c]

\* The cancellables still in use that are cancelled once c is
CancelToo(c) == (cancelled \cup {c}) \cap InUse

-----------------------------------------------------------------------------
(* The callbacks.  A GTask whose cancellable is cancelled reports that and *)
(* nothing else, whatever the server said.                                 *)

CanFail(stage) ==
  CASE stage = "db"     -> {}
    [] stage = "get_hs" -> {"net", "timeout", "no_url", "bad_url", "other"}
    [] stage = "verify" -> {"net", "timeout", "other"}
    [] stage = "login"  -> {"net", "other"}
    [] OTHER            -> {"net", "unknown_token", "other"}

Errors(op) ==
  IF op.canc \in cancelled THEN {"cancelled"} ELSE Fails \cap CanFail(op.stage)

\* A task that reports its answer although it was cancelled.
AlwaysSucceeds(op) == TRUE
Succeeds(op) == op.canc \notin cancelled

\* A failure of the login or of /sync: sync_failed = TRUE, then
\* client_set_login_state (self, FALSE, FALSE)
UnnoticedFailure(s) == s
Failed(s) == [s EXCEPT !.sync_failed = TRUE, !.login = "out"]

\* The answer to the load of a list, whose flag is reset on success only...
ListDoneIfOk(list, ok) ==
  IF ok THEN [client EXCEPT !.loading = @ \ {list}, !.loaded = @ \cup {list}] ELSE client
\* ... and as it is.
ListDone(list, ok) ==
  [client EXCEPT !.loading = @ \ {list},
                 !.loaded = IF ok THEN @ \cup {list} ELSE @]

\* db_load_client_cb(): the row of the client may be missing, or have no pickle
\* or no filter.  Nothing tells the database to stop.
DbLoaded(r) ==
  LET s == ListDone("db", TRUE)
  IN /\ Answers(r, "db")
     /\ \/ StartSync(s, r, TaskOf(request[r]))
        \/ \E has_pickle, has_filter \in BOOLEAN :
             LET enc == has_pickle /\ client.pickle_key
             IN  client.user_id /\ StartSync([s EXCEPT !.cm_enc = enc, !.pickle_key = enc,
                                     !.filter_id = has_filter, !.db_migrated = Migrated],
                           r, TaskOf(request[r]))
     /\ UNCHANGED <<cancelled, online, reconnect>>

\* client_get_homeserver_cb(), with the cm_client_set_homeserver() it calls.
\* cm_utils_read_uri_async() fakes its timeout by cancelling the cancellable it
\* was given, after the callback has run.
GotHomeserver(r) ==
  LET op == request[r]
      s  == [client EXCEPT !.login = "out"]
      failed == [s EXCEPT !.sync_failed = TRUE]
  IN /\ Answers(r, "get_hs")
     /\ \/ /\ Succeeds(op)
           /\ \E url \in Server : StartSync([s EXCEPT !.homeserver = url], r, TaskOf(op))
           /\ UNCHANGED cancelled
        \/ \E error \in Errors(op) :
             /\ IF error = "bad_url" /\ s.homeserver # NoServer
                THEN StartSync(s, r, TaskOf(op))
                ELSE IF op.tag = "get_homeserver" THEN Finish(failed, r)
                ELSE HandleGlitch(failed, r, error)
             /\ cancelled' = IF error = "timeout" /\ op.canc # NoCancellable
                             THEN CancelToo(op.canc) ELSE cancelled
     /\ UNCHANGED <<online, reconnect>>

\* client_verify_homeserver_cb(): a timeout replaces the client's cancellable,
\* because the one of the request is about to be cancelled.  A task of
\* cm_client_get_homeserver_async() ends here.
HomeserverVerified(r) ==
  LET op == request[r]
      s  == [client EXCEPT !.login = "out", !.tried = TRUE]
      failed(c) == [s EXCEPT !.versions = NoServer, !.sync_failed = TRUE,
                             !.cancellable = c]
      Fail(c, error) == IF op.tag = "get_homeserver" THEN Finish(failed(c), r)
                        ELSE HandleGlitch(failed(c), r, error)
  IN /\ Answers(r, "verify")
     /\ \/ /\ Succeeds(op)
           /\ LET verified == [s EXCEPT !.versions = op.server]
              IN  IF op.tag = "get_homeserver" THEN Finish(verified, r)
                  ELSE StartSync(verified, r, TaskOf(op))
           /\ UNCHANGED cancelled
        \/ \E error \in Errors(op) \ {"timeout"} :
             /\ Fail(client.cancellable, error)
             /\ UNCHANGED cancelled
        \/ /\ "timeout" \in Errors(op)
           /\ \E c \in Cancellable : FreshCancellable(c) /\ Fail(c, "timeout")
           /\ cancelled' = IF op.canc # NoCancellable THEN CancelToo(op.canc) ELSE cancelled
     /\ UNCHANGED <<online, reconnect>>

\* client_password_login_cb(): the answer brings a token and may name the
\* homeserver to use from now on (well_known).
LoginDone(r) ==
  LET op == request[r]
  IN /\ Answers(r, "login")
     /\ \/ /\ Succeeds(op)
           /\ \E url \in Server \cup {client.homeserver} :
                StartSync([client EXCEPT !.user_id = TRUE, !.token = TRUE, !.cm_enc = TRUE,
                             !.homeserver = IF client.login = "logged_in" THEN @ ELSE url,
                             !.login = "logged_in"],
                          r, TaskOf(op))
        \/ \E error \in Errors(op) :
             HandleGlitch(Failed(client), r, error)
     /\ UNCHANGED <<cancelled, online, reconnect>>

\* get_direct_rooms_cb() goes on whether or not it failed.
GotDirectRooms(r) ==
  /\ Answers(r, "direct")
  /\ \E ok \in {TRUE} \cup {FALSE : error \in Errors(request[r])} :
       StartSync(ListDone("direct", ok), r, NewTask(client))
  /\ UNCHANGED <<cancelled, online, reconnect>>

\* get_joined_rooms_cb()
GotJoinedRooms(r) ==
  /\ Answers(r, "joined")
  /\ \/ StartSync(ListDone("joined", TRUE), r, NewTask(client))
     \/ \E error \in Errors(request[r]) : HandleGlitch(ListDone("joined", FALSE), r, error)
  /\ UNCHANGED <<cancelled, online, reconnect>>

\* cm_upload_filter_cb(): a failure leaves is_logging_in as it is.
FilterUploaded(r) ==
  LET op == request[r]
  IN /\ Answers(r, "filter")
     /\ \/ /\ Succeeds(op)
           /\ StartSync([client EXCEPT !.filter_id = TRUE, !.login = "logged_in"],
                        r, NewTask(client))
        \/ \E error \in Errors(op) : HandleGlitch(client, r, error)
     /\ UNCHANGED <<cancelled, online, reconnect>>

\* handle_one_time_keys(): keys are uploaded while the server has too few, and
\* the next /sync waits for that
KeyUpload(s) == [stage |-> "key", tag |-> "sync", canc |-> s.cancellable, server |-> NoServer]
UploadKeys(s, r) ==
  /\ client' = s
  /\ request' = [request EXCEPT ![r] = KeyUpload(s)]

\* matrix_take_red_pill_cb(): the answer to /sync
SyncDone(r) ==
  LET op == request[r]
      s  == [client EXCEPT !.login = "logged_in", !.is_sync = TRUE, !.sync_failed = FALSE]
  IN /\ Answers(r, "sync")
     /\ \/ Succeeds(op) /\ (UploadKeys(s, r) \/ StartSync(s, r, NewTask(s)))
        \/ \E error \in Errors(op) :
             HandleGlitch(Failed(client), r, error)
     /\ UNCHANGED <<cancelled, online, reconnect>>

\* upload_key_cb(): after a failure it both lets handle_matrix_glitches() retry
\* and goes on itself; n is the request handle_matrix_glitches() sends.
KeysUploaded(r) ==
  LET op == request[r]
      s  == [client EXCEPT !.sync_failed = TRUE]
  IN /\ Answers(r, "key")
     /\ \/ Succeeds(op) /\ (UploadKeys(client, r) \/ StartSync(client, r, NewTask(client)))
        \/ \E error \in Errors(op) \ {"unknown_token"} :
             StartSync(IF error = "net" THEN RetryLater(s) ELSE s, r, NewTask(s))
        \/ /\ "unknown_token" \in Errors(op)
           /\ ~client.password
           /\ StartSync(s, r, NewTask(s))
        \/ /\ "unknown_token" \in Errors(op)
           /\ client.password
           /\ \E n \in Req \ {r} :
                LET first == Advance(ResetState(s))
                IN /\ request[n] = Idle
                   /\ client' = Advance(first)
                   /\ request' = [request EXCEPT ![n] = Sent(ResetState(s), NewTask(s)),
                                                 ![r] = Sent(first, NewTask(s))]
     /\ UNCHANGED <<cancelled, online, reconnect>>

-----------------------------------------------------------------------------
(* Calls of the application, and of CmMatrix on behalf of the network.     *)

\* cm_client_get_enabled(): with auto login off, nothing ever resets
\* client_enabled_in_store, not even cm_client_set_enabled (self, FALSE).
cm_client_get_enabled(s) == s.enabled \/ EnabledInStore

\* cm_client_set_enabled (self, TRUE)
Enable(r) ==
  /\ Calling("enable") /\ ~client.enabled
  /\ request[r] = Idle
  /\ StartSync([client EXCEPT !.enabled = TRUE], r, NewTask(client))
  /\ UNCHANGED <<cancelled, online, reconnect>>

StopSync(s) ==
  /\ \E c \in Cancellable : FreshCancellable(c) /\ client' = Stopped(s, c)
  /\ cancelled' = CancelToo(s.cancellable)

\* cm_client_set_enabled (self, FALSE)
Disable ==
  /\ Calling("disable") /\ client.enabled
  /\ StopSync([client EXCEPT !.enabled = FALSE])
  /\ UNCHANGED <<request, online, reconnect>>

\* cm_client_stop_sync()
CallStopSync ==
  /\ Calling("stop_sync")
  /\ StopSync(client)
  /\ UNCHANGED <<request, online, reconnect>>

\* cm_client_start_sync(), unless it returns at once
MayStart(s) == ~s.is_sync /\ s.login # "logging_in"
DoStart(s, r) ==
  /\ request[r] = Idle
  /\ StartSync(ClearTimer(s), r, NewTask(s))

CallStartSync(r) ==
  /\ Calling("start_sync")
  /\ MayStart(client) /\ DoStart(client, r)
  /\ UNCHANGED <<cancelled, online, reconnect>>

\* The public setters refuse to change a client that is logging in or logged in.
Settable == client.login = "out"

\* cm_client_set_password()
SetPassword(r) ==
  /\ Calling("set_password")
  /\ Settable /\ ~client.is_sync
  /\ \E password \in BOOLEAN :
       LET s == [client EXCEPT !.password = password]
       IN  IF client.tried /\ cm_client_get_enabled(client)
           THEN \E c \in Cancellable :
                  /\ FreshCancellable(c)
                  /\ DoStart(Stopped(s, c), r)
                  /\ cancelled' = CancelToo(client.cancellable)
           ELSE client' = s /\ UNCHANGED <<request, cancelled>>
  /\ UNCHANGED <<online, reconnect>>

\* cm_client_set_access_token()
SetAccessToken ==
  /\ Calling("set_access_token")
  /\ Settable
  /\ \E token \in BOOLEAN : client' = [client EXCEPT !.token = token]
  /\ UNCHANGED <<request, cancelled, online, reconnect>>

\* cm_client_set_homeserver()
SetHomeserver ==
  /\ Calling("set_homeserver")
  /\ Settable
  /\ \E url \in Server : client' = [client EXCEPT !.homeserver = url]
  /\ UNCHANGED <<request, cancelled, online, reconnect>>

\* cm_client_get_homeserver_async() of a caller that passes no cancellable
GetHomeserver(r) ==
  /\ Calling("get_homeserver")
  /\ ~(Verified(client) /\ client.homeserver # NoServer)
  /\ client.user_id \/ client.homeserver # NoServer
  /\ request[r] = Idle
  /\ StartSync(client, r, [tag |-> "get_homeserver", canc |-> NoCancellable])
  /\ UNCHANGED <<cancelled, online, reconnect>>

\* The network comes or goes; matrix_network_changed_cb() starts the timer anew.
NetworkChanged ==
  /\ Calling("network")
  /\ online' = ~online
  /\ reconnect' = TRUE
  /\ UNCHANGED <<client, request, cancelled>>

\* matrix_reconnect(), for this client
Reconnect(r) ==
  /\ Running /\ reconnect
  /\ reconnect' = FALSE
  /\ IF CanConnect(client) /\ cm_client_get_enabled(client)
     THEN /\ IF MayStart(client) THEN DoStart(client, r) ELSE UNCHANGED <<client, request>>
          /\ UNCHANGED cancelled
     ELSE StopSync(client) /\ UNCHANGED request
  /\ UNCHANGED online

-----------------------------------------------------------------------------

\* A client fresh from cm_client_new() or cm_client_new_from_secret(): what the
\* secret store had of it, and nothing else.
FreshClients ==
  [ loading: {{}}, loaded: {{}}, user_id: BOOLEAN, homeserver: MaybeServer,
    versions: {NoServer}, password: BOOLEAN, token: BOOLEAN, pickle_key: BOOLEAN,
    cm_enc: {FALSE}, filter_id: {FALSE}, db_migrated: {FALSE}, is_sync: {FALSE},
    sync_failed: {FALSE}, login: {"out"}, enabled: {FALSE}, tried: {FALSE},
    resync_id: {FALSE}, timers: {0}, cancellable: Cancellable ]

Init ==
  /\ client \in FreshClients
  /\ client.pickle_key => client.token /\ client.user_id
  /\ request = [r \in Req |-> Idle]
  /\ cancelled = {}
  /\ online \in BOOLEAN
  /\ reconnect = FALSE

Answer(r) ==
  \/ DbLoaded(r) \/ GotHomeserver(r) \/ HomeserverVerified(r) \/ LoginDone(r)
  \/ GotDirectRooms(r) \/ GotJoinedRooms(r) \/ FilterUploaded(r)
  \/ SyncDone(r) \/ KeysUploaded(r)

Call(r) ==
  \/ Enable(r) \/ CallStartSync(r) \/ SetPassword(r) \/ GetHomeserver(r)
  \/ Disable \/ CallStopSync \/ SetAccessToken \/ SetHomeserver \/ NetworkChanged

Next ==
  \E r \in Req : Answer(r) \/ Resync(r) \/ Reconnect(r) \/ Call(r)

Spec == Init /\ [][Next]_vars

-----------------------------------------------------------------------------
(* What must hold.                                                         *)

InFlight(stages) == {r \in Req : request[r].stage \in stages}

\* Each loading flag stands for exactly one request in flight, so no list is
\* fetched twice at once and no answer leaves the dispatcher blocked for ever:
\* matrix_start_sync() returns at once while one of these flags is set.
LoadingMatchesRequests ==
  \A list \in Lists :
    /\ list \in client.loading <=> InFlight({list}) # {}
    /\ \A r, q \in InFlight({list}) : r = q

\* The database is loaded once, before there is a CmEnc that the answer would
\* replace: g_assert (!self->cm_enc) in db_load_client_cb() holds.
DbLoadsOnce ==
  InFlight({"db"}) # {} => ~client.cm_enc /\ "db" \notin client.loaded

\* resync_id always names the only retry timer: no source that schedule_resync()
\* left behind fires after the client was stopped or restarted.
NoOrphanTimer == client.timers = IF client.resync_id THEN 1 ELSE 0

\* A client that cm_client_is_sync() calls in sync has a /sync under way, or the
\* key upload that precedes the next one: it is not just the last thing an
\* ended loop left behind.
cm_client_is_sync ==
  client.token /\ client.login = "logged_in" /\ client.is_sync /\ ~client.sync_failed
InSyncMeansSyncing == cm_client_is_sync => InFlight({"sync", "key"}) # {}

\* A loop that was cancelled ends: the answer to a cancelled request sends no
\* other request and arms no timer.  (After a key upload and after the load of
\* the database it goes on.)
EndsWhenCancelled == Stages \ {"key", "db"}
CancelledLoopEnds ==
  [][ \A r \in InFlight(EndsWhenCancelled) :
        request[r].canc \in cancelled /\ request'[r] # request[r]
          => request'[r] = Idle /\ client'.timers <= client.timers ]_vars

(* Under fairness.  Every request is answered in the end, for libsoup times   *)
(* out, and the timers fire.  A request that is sent again and again succeeds *)
(* in the end, unless it cannot because it is cancelled each time.            *)

Ahead(r) ==
  /\ Answer(r)
  /\ ~client'.sync_failed
  /\ request[r].stage \in Lists => request[r].stage \in client'.loaded

Fairness ==
  /\ \A r \in Req : WF_vars(Answer(r)) /\ SF_vars(Ahead(r))
  /\ WF_vars(\E r \in Req : Resync(r))
  /\ WF_vars(\E r \in Req : Reconnect(r))

FairSpec == Spec /\ Fairness

\* A client that is enabled, has a password, and has or can look up a homeserver
\* on a network that is up, is in sync in the end, through any number of network failures.
MaySync == client.enabled /\ client.password /\ online
             /\ (client.user_id \/ client.homeserver # NoServer)
EnabledClientSyncs == MaySync ~> cm_client_is_sync

-----------------------------------------------------------------------------
(* What the documentation and comments of the code say, and the code does  *)
(* not do: see the findings in README.md.                                  *)

\* cm_client_stop_sync(): "Stop sync with server."  What a client asks of /sync
\* after it is disabled was cancelled.
DisabledClientDoesNotSync ==
  ~client.enabled => \A r \in InFlight({"sync"}) : request[r].canc \in cancelled

\* cm_client_start_sync(): "If @self is already in sync or in the process to do
\* so, this method simply returns."  Where it does, something is under way: a
\* request, or the timer that sends the next one.
ReturnsOnlyIfSyncing ==
  Running /\ ~MayStart(client) => InFlight(Stages) # {} \/ client.resync_id

\* client_login_with_password_async(): g_assert (self->password && *self->password)
LoginHasPassword == Running

==============================================================================
