# A TLA+ model of libcmatrix

libcmatrix is a Matrix client library in C on GLib.  It logs in, keeps a `/sync`
loop running, stores what it receives in SQLite, and sends messages, encrypted
with Olm and Megolm where a room asks for it.  Almost all of it runs on one main
loop: what makes it hard is not threads but the many callbacks that share the
fields of a few objects.  Between a request and its answer any other callback may
run, and so may the application's calls.

Paths such as `src/src/cm-client.c` name the repository's source files.

## Inventory

| Component | State | Operations | Hard behaviour | What makes it correct |
|---|---|---|---|---|
| **CmClient, login and sync** (`cm-client.c`) | loading flags, homeserver, credentials, `is_sync`, `sync_failed`, login state, the cancellable, the retry timer | `cm_client_set_enabled`, `start_sync`, `stop_sync`, `set_password`, `set_homeserver`, `get_homeserver_async`; nine callbacks that all call `matrix_start_sync()` | late answers of a stopped loop, calls while a request is in flight, retries, timeouts | every list is loaded once; no orphan timer; "in sync" is true; a cancelled loop ends; an enabled client gets in sync |
| **CmClient, saving** (`cm-client.c`) | `save_client_pending`, `is_saving_client`, the same for secrets | `cm_client_save`, `db_save_cb`, `save_secrets_cb`, `delete_secrets` | changes during a save, failed saves, crash between database and secret store | the last change is saved in the end; no save overlaps another |
| **CmClient, rooms and events** (`cm-client.c`) | joined, invited, direct rooms; verification events; direct rooms of the account | `handle_red_pill` and the handlers below it | a room that changes lists; events of an answer whose `next_batch` is already saved | a room is in one list; no event is lost |
| **CmMatrix** (`cm-matrix.c`) | the stores, `clients_list`, `clients_to_save`, the network timer | open, add, save and delete clients, reconnect | two stores loading at once, one of them failing; a network that flaps | ready only with a database; a client is added once |
| **CmRoom, sending** (`cm-room.c`) | message queue, `is_sending_message`, four "in progress" flags, `changed_users`, `changed_devices`, `one_time_keys`, `keys_claimed` | `cm_room_send_text_async`, `send_file_async`, `ensure_encryption_keys`, four callbacks | device changes during any of the four requests, failures, other rooms | messages are sent once and in order, all are sent, and only to devices that should read them |
| **CmRoom, timeline** (`cm-room.c`, `events/cm-room-event-list.c`) | the event list, `prev_batch`, loading flags | parse, append, load history | local echoes, history loading while /sync moves `prev_batch` | no event twice, none out of order, no gap |
| **CmUserList and CmUser** (`users/`) | users and devices, `changed_users`, the queue of device requests | load devices, claim keys, upload keys, `device_changed` | a user who changes again while being loaded; requests of several rooms | a stale device list is always marked as such; every request is answered |
| **CmEnc and CmOlm** (`cm-enc.c`, `cm-olm.c`) | the account's one-time keys, sessions by room, sender and id | create, publish, encrypt, decrypt, rotate | rotation, sessions restored from the database, saves that wait in the middle of a call | no index of a session is used twice; a session is rotated in time; a one-time key is published once |
| **Verification** (`cm-olm-sas.c`, `events/cm-verification-event.c`) | stage, SAS, flags of each event | start, continue, match, done, cancel | both sides may start or cancel at any time; timeouts | "verified" only after both sides matched |
| **CmDb** (`cm-db.c`) | a worker thread with a queue of tasks, SQLite | some twenty kinds of task, half of which the caller waits for | waiting iterates the main loop; some tasks overtake; closing | each task runs once and its caller hears of it; what was stored is found; the last write decides; it is closed last |
| **Secret store** (`cm-secret-store.c`) | none of its own | load, save, delete | a locked keyring, retried once | a wrapper of libsecret |
| **CmNet, input streams** (`cm-net.c`, `cm-input-stream.c`) | homeserver, token, one stream each | one HTTP request each | none of its own | the environment of the models |
| **Pusher, account, device, utilities** | records | getters, conversions | none | out of scope |

How they interact: `CmMatrix` creates and starts clients.  A client's sync answer
goes to `handle_red_pill()`, which gives events to the rooms
(`CmRoomEventList`), changed users to `CmUserList` and then to every room
(`handle_device_list()`), and to-device events to `CmEnc` and the verification
events.  `CmUserList` emits `user-changed`, to which every room is connected.  A
room asks `CmUserList` for devices and keys, and `CmEnc` for its session.  All of
them write through `CmDb`.

The hazards, each at its line and with the properties aimed at it, are in
`PROJECT.json`.

## Modules

| Module | What it is |
|---|---|
| `ClientSync` | one client's life cycle, with the reconnection of CmMatrix |
| `ClientSyncProofs` | its inductive invariant, and six theorems |
| `MCClientSync`, `MCClientSync.cfg`, `MCClientLive.cfg` | its instances |
| `RoomKeys` | sending in the encrypted rooms of one client: CmRoom and CmUserList |
| `RoomKeysProofs` | its inductive invariant, four theorems, and the refinement of `Outbox` |
| `Outbox` | the abstract specification: what a room promises of its messages |
| `MCRoomKeys`, `MCRoomKeys.cfg`, `MCRoomEvents.cfg`, `MCRoomLive.cfg` | the instances of RoomKeys |
| `Database` | the tables of CmDb and the tasks on them, as operators |
| `DbQueue` (extends `Database`) | the queue, the worker, the calls that wait, opening and closing |
| `DbQueueProofs` | its inductive invariant, and four theorems |
| `MCDbQueue`, `MCDbQueue.cfg` | its instance |
| `Timeline` (extends `Database`) | the events of a room: /sync, local echoes, history, restarts |
| `TimelineTypes` | the types of its variables, lemmas on its operators, and one theorem |
| `TimelineProofs` (extends `TimelineTypes`) | its inductive invariants, and two theorems |
| `MCTimeline`, `MCTimeline.cfg` | its instance |
| `Matrix` | CmMatrix with its clients, and how they are saved |
| `MatrixProofs` | its inductive invariant, and three theorems |
| `MCMatrix`, `MCMatrix.cfg` | its instance |
| `Verification` | one verification of a device, with the other device and the server |
| `VerificationProofs` | its inductive invariant, and three theorems |
| `MCVerification`, `MCVerification.cfg`, `MCVerificationAge.cfg` | its instances |
| `GroupSession` | the outbound sessions of a room, in CmEnc, CmOlm and the database |
| `Ratchet` | the abstract specification: what these sessions promise to the members |
| `GroupSessionProofs` | its inductive invariant, three theorems, and the refinement of `Ratchet` |
| `MCGroupSession.cfg`, `MCSessionRotation.cfg` | the instances of GroupSession |

The modules meet at the seams of the code.  `RoomKeys` has several rooms and looks
at the requests that lead to a key; `GroupSession` takes that as one request (`claim`)
and looks at the session instead, in one room, with the waits for the database that
`RoomKeys` leaves out.  `Timeline` and `DbQueue` share the tables of `Database`:
the one has the callers of four kinds of task, the other every kind and the queue
itself.  `ClientSync` has the order in which a client loads and syncs, `Matrix` what
it writes meanwhile.

### ClientSync

`client` is a record with the fields of `struct _CmClient` the life cycle reads.
`request` gives for each identity what is in flight: the stage, the source tag of
its `GTask`, the `GCancellable` it was sent with, and the homeserver it asks.
`cancelled` is the set of cancellables that were cancelled; `online` is
`GNetworkMonitor`'s word, `reconnect` the timer of `matrix_network_changed_cb()`.

`StartSync` is `matrix_start_sync()`, the dispatcher: it looks at the flags and
sends the request that is missing.  Every callback is one action (`DbLoaded`,
`GotHomeserver`, `HomeserverVerified`, `LoginDone`, `GotDirectRooms`,
`GotJoinedRooms`, `FilterUploaded`, `SyncDone`, `KeysUploaded`), and contains the
call of the dispatcher it makes.  Failures are chosen where the code tells them
apart (`Errors`, `HandleGlitch`); a `GTask` whose
cancellable was cancelled reports that, whatever the server said (`Succeeds`).
`Resync` is the retry timer.  The calls of the application are actions of their
own, limited by the constant `Calls`.

A failing `g_assert` ends the program: the request's stage is then `Aborted` and
no call is possible any more.

### RoomKeys

`room` has for each room the fields of `struct _CmRoom` that sending reads, its
outbound group session (`has_key`, `holders`: the devices the key was sent to),
and what is in flight for it.  `list` is `CmUserList` with the devices of its
users.  `server` is what the homeserver knows; `DeviceChanged` and
`ServerAnswers` are its steps.

The calls and callbacks nest: the end of a query starts the next one, and then
goes on with the room's queue.  The operators therefore take the state of the
client (the rooms and the list) to the next one, in the order of the code, and an
action applies them (`Becomes`).  Three peculiarities of the code are kept:

- `cm_user_list_load_devices_async()` is given the room's own array
  `changed_users`, so what the list removes from it the room loses.
- `remove_unlisted_users()` looks for a user id among users, so the request in
  flight is not noticed (`Unlisted`).
- `room_user_changed()` looks `changed_devices` up with the user and inserts with
  the user id, so earlier devices are replaced.

A load without anything to load returns from an idle source: that is the field
`loaded` and the action `NothingToLoad`.  The same holds for a refused claim
(`refused`).

`Outbox` knows a waiting list, the message being sent, and the results.
`ImplementsOutbox` is the refinement, with the fields `queue`, `sending` and
`finished`.

### Database and DbQueue

`Database` has the rows of one account: `next_batch`, rooms with their tokens,
members, devices and users that are out of date, sessions, files, and the rows of
`room_events` with their row IDs.  Every task is one transaction, so a task is an
operator from the tables to the tables and the result (`AddRoomEvents`,
`UpdateUserDevices`, `Open` with the migrations, and so on).  Row IDs are kept for
events alone, as the code misreads `last_insert_rowid` there: after an insert that
had no effect it is the ID of some other row (`Other`).

`DbQueue` has the `GAsyncQueue` (`queue`, of task numbers), the worker thread, and
every call ever made with its stage (`task`).  `Call` is any function of `cm-db.h`;
`Work` the worker's turn; `Release` the end of it, where the worker drops its
reference; `Deliver` the callback of a call that returned at once.  A call that waits
is on the stack `waits`: `Complete` is the main loop that sees its task completed,
`WaitEnds` the return of the innermost one, so that an outer call cannot return
before the inner ones.  `cm_db_add_session()` and `cm_db_load_client_async()` push to
the front (`ToFront`).  `MainStep` is what any step does that may drop the last
reference: `cm_db_dispose()` queues the task that closes the database, and waits for
it.

### Timeline

The server's history is a sequence, and a token names a place in it.  `shown` has the
fields of `CmRoom` and `CmRoomEventList`, `client` the token of /sync and the flags
of the save that goes with it.  The actions are the handling of an answer to /sync
(`Sync`), the application's wish for more (`LoadPast`) with the answers it takes
(`StateLoaded`, the past from the database, `HistoryLoaded` from the server), the
life of a message from its echo to its event, and `Restart`.  Tasks of the database
run in the order of the calls, and `queue` keeps with each what follows when its
callback is run.

### Matrix

`matrix` has the flags of opening and the two lists, `client` the flags of
`struct _CmClient` that concern saving.  A request to the keyring or the database is
in `flight` until it is answered, and takes effect then or fails.  `Saved`, `Kept`,
`Listed`, `Added` and `Deleted` are the callbacks, `SaveClient`, `Delete`, `Add` and
`SetEnabled` the calls, `LoginDone` and `SyncDone` the changes that come by
themselves.  Several clients may share a login; `Restart` forgets everything that
is not stored.

Saving concerns one client: `SaveAccount`, `SaveSecrets`, `Save` and `Marked` take the
client with the requests the call has sent so far (`[k, sent]`) to the next such
pair, in the order of the code, and `Becomes` puts the result in place.  What is
stored of a client (`SecretOf`) says whether it is enabled as
`cm_client_get_enabled()` does, so a client that was enabled in the keyring and is not
enabled yet (`in_store`), or is saved to be listed, is stored as enabled.  A client is
`made` until the matrix and the application let go of it, then `dropped`; the
application has no reference to those it has handed over to be added (`Usable`).

### Verification

The other device follows the protocol (`Say`), reads what the server has of ours
(`Serve`), and may be ahead of the answer we get. `Sync` hands over any prefix of
what it sent: `Handled` is `handle_to_device()` for one message, with `CmOlmSas` and
`CmVerificationEvent`, and the recursive function `Read` the loop over them;
`Continue`, `Match` and `Cancel` are the application, and `Answer` and `Fail` the
callbacks of our requests. The bits of data that the code attaches to an event are
`marks`. Verifications are told apart by `gen`, as a request in flight may belong to
one that is gone.

### GroupSession

`calls` is the stack of calls that wait in `cm_db_wait_for_completion()`.  While one
does, the main loop runs: an answer comes, the application sends, a device is
removed, and another call begins on top of it.  Only the innermost can return
(`EncryptReturns`, `SetReturns`, `SetInReturns`, `RmReturns`, `LookupReturns`).  The
worker takes tasks from the front, where saves are put (`Save`); lookups go to the
back.  `room` and `enc` are the fields of `struct _CmRoom` and `struct _CmEnc`.  A
session is its index, its state (`CmOlmState`), its age and its inbound pair; a row
of the table has the pickle of one of the two, as they share the key of the row.
`Restart` keeps the rows alone.  `wire` has what left the program.

`Ratchet` says of each session that its key is shared before it is used, that a
message is never at an index that was shared too late to be read, and that no index
is used twice.  `ImplementsRatchet` is the refinement, across restarts: a session
taken up from the database must go on where it was.

### Abstractions

Text, JSON, SQL and cryptography are left out.  An Olm session with a device is just
its effect: a one-time key makes a device able to receive the group key.  Calls that
wait for the database are atomic in all modules but `DbQueue` and `GroupSession`,
which are about that.  Rooms in `RoomKeys` start without a stored session.

Each component is modelled as far as the column of `PROJECT.json` says; none is
complete, as lists of rooms, invites, profiles and settings are left out.

## Runs

The counts below are distinct states.  The deadlock check is off everywhere: a
client that is stopped, a queue that is empty or bounds that are used up rightly
leave nothing to do.

**ClientSync**

- **client_calls**: every call, every kind of failure, two requests in flight, four
  cancellables.  Two requests are the least for a stale answer to meet a new loop; a
  cancellable can be reused only when no request holds it, so four never run out with
  two requests.  `DbLoadsOnce`, `NoOrphanTimer`, `InSyncMeansSyncing`,
  `CancelledLoopEnds`.  Stages, timers and flags are finite without a bound.
- **client_live**: a migrated client, which has to load the most, with network
  failures only.  `LoadingMatchesRequests` and, under fairness, `EnabledClientSyncs`.

**RoomKeys**, with two rooms, a user with one device and one with two, both members
of both rooms:

- **keys_calls**: two messages a room, the second a file, one device change, and
  every request may fail.  Two rooms are needed for the shared queue; two messages
  for order and for a message that comes during another one's requests; one change
  meets each of the four requests.  `QueriesAreAnswered`, `OneStepAtATime`,
  `StaleDevicesAreMarked`, `ImplementsOutbox`.
- **keys_events**: members who join and leave, rooms whose encryption is enabled
  late, answers that leave users out.  `QueriesAreAnswered`, `OneStepAtATime`.
- **keys_live**: no failures, no changes, one message a room, with fairness:
  `QueuedIsSent`.

**DbQueue**

- **db_tasks** (287,388): two calls of any kind and a third that looks a session up
  or overwrites a token, on a file that is new, current, of version 1 or of a version
  to come; opening and closing may fail, and the application drops its reference at
  any time.  Two writes and something that sees them are what the properties speak
  of, and three calls nest one wait in another with a task that overtakes both.
  `LookupFindsStored`, `LastCallWins`, `ClosedLast`; under fairness `CallsReturn`.
  Calls begin once the database is open (`EarlyCalls`, see below).

**Timeline**

- **timeline**: a history of up to three events, one of them there before the client,
  one message of ours that may fail at each step, answers of two events, pages of
  two, and one restart.  Three events are the least for a gap between what the
  database, the server and /sync give; one message is its echo in the list and in the
  table when its event comes.  `ShownIsHistory`, `StoredIsHistory`, `HistoryIsShown`.
  Answers to /sync that skip events, messages sent before anything is shown, and
  crashes with tasks in the queue are off (see below).

**Matrix**

- **save_calls** (347,041): two clients of one login, one of another that may be added, one
  change and one restart; both stores may fail each time.  Two clients of a login are
  the least for one to be refused, and one change is enough to meet every pair of
  saving and pending.  `ListedOnce`; `ChangesArePending`, of a listed client whose
  login no other client uses, also while it is being deleted; under fairness
  `AccountsAreSaved`.

**Verification**

- **verification**: one verification that begins with a request or a start, each
  message read with others or alone, each request answered or failed before or after
  the server had it.  Two calls to continue are the most the application can have:
  the one kept for the start, and the next.  `StoredIsConfirmed`, `DoneIsVerified`;
  under fairness `EventuallyDone`.

**GroupSession**

- **group_sessions** (285,552): three sessions, three messages, two changes of
  devices or members, two restarts, three calls that wait at a time; a session is
  full after two messages.  A restart with a session, a rotation, and another restart
  then meet in one behaviour, and a call that waits is interrupted by one that is
  interrupted.  `SavedIsAhead`, `UploadIsCurrent`, `ImplementsRatchet`.  Saves do not
  fail (see below).

`TypeOK` of each module is checked with its first run; it also says what flags and
requests belong together.

Symmetry: in the safety runs of ClientSync and RoomKeys requests, cancellables,
rooms, and the two devices of one user are interchangeable, as no definition singles
one out.  Runs with a liveness property use none.

Bounds: `MaxMessages` and `MaxChanges` limit `Send` and the changes of devices,
`MaxEvents`, `MaxEmpty` and `ChunkSize` the history and its answers, `MaxStarts` the
restarts, `MaxSessions` and `MaxDepth` sessions and nested calls, and `Requests` the
calls of DbQueue.  Every other state is finite by itself.

### Fairness

- A request is answered in the end, with success or an error: libsoup times out
  (`WF(Answer)` in ClientSync and RoomKeys, `WF(Answers)` in Timeline).
- One that is made again and again succeeds in the end: `SF(Ahead)`,
  `SF(HistoryLoaded)`, `SF(Saved(c, TRUE))`, `SF(Serve)`, `SF(Answered(...))`.
  Without it an unreachable server or a full disk refutes every promise.
- The worker takes what is queued and lets go of it (`Takes`, `Releases`), and the
  main loop fires timers and runs callbacks (`Main`, `Callback`, `Resync`,
  `Reconnect`).  `Takes` is a condition on the queue, so that other steps with the
  same effect on nothing do not count.
- In Verification the other device goes on, and our user goes on to `Continue` and
  `Match`; in Timeline the application goes on to load the past: these are what the
  promise is made to.
- All other calls of the application, the network and restarts are not fair.
  GroupSession has no liveness property and no fairness.

## Where the code and its documentation differ

Two runs expect a violation; each checks one sentence of a comment.

- **session_rotation**: `cm_enc_has_room_group_key()` is to "Check if any valid
  outgoing session is present" as the client "may rotate the key after certain count
  or time", but never reads the state (`src/src/cm-enc.c:1342`).  A session that was
  marked as rotated, or that was invalidated while its key was on its way, encrypts
  further messages until the next start.
- **verify_age**: "Cancel if request is 10+ minutes from the past", but the age is
  taken modulo 60 (`src/src/cm-olm-sas.c:552`): a request of 65 minutes and 5 seconds
  ago is shown, one of 20 seconds ago is cancelled.

More such sentences are stated beside the properties.  TLC refutes them as well, with
the instances named here; no run keeps the counterexample.

| Definition | Instance | What the code says, and does |
|---|---|---|
| `ClientSync!DisabledClientDoesNotSync` | client_calls | `cm_client_stop_sync()` "Stop sync with server": a key upload in flight goes on with a /sync of a disabled client |
| `ClientSync!ReturnsOnlyIfSyncing` | client_calls | `cm_client_start_sync()` returns "if already in sync or in the process": after an error that is not retried it returns with nothing under way |
| `ClientSync!LoginHasPassword` | client_calls | the assertion on the password fails for a client restored with a token whose account cannot be unpickled |
| `ClientSync!EnabledClientSyncs` | client_live, with `get_homeserver` among the `Calls` | a client that is enabled while `cm_client_get_homeserver_async()` runs may never sync |
| `RoomKeys!QueuedIsSent` | keys_live, with two messages | "the text shall be encrypted and sent": `send_cb()` leaves the next message in the queue until another call |
| `RoomKeys!QueuedIsSent` | keys_live, with a device change | a user who changes again while being loaded is forgotten by the room, and the list refuses each claim "as the caller should update user devices", which the caller does not |
| `RoomKeys!RemovedDeviceHasOldKey` | keys_calls | "If any device got removed, create a new key and invalidate old": an upload in flight installs the old session again |
| `DbQueue!TasksFindItOpen` | db_tasks, with `EarlyCalls` | the tasks assert that the database is open, while `cm_matrix_is_ready()` is true once the keyring was read (`src/src/cm-matrix.c:592`) |
| `Matrix!KeysAreKept` | save_calls, with `EarlyChanges` | a client that is disabled before its account was loaded stores it without a pickle (`src/src/cm-client.c:1144`) |
| `GroupSession!OwnAreReadable` | group_sessions | the inbound pair is kept "to decrypt yet to receive messages": it is stored in the row of the outbound one, so what was sent is unreadable after a restart |

Switches turn on what the code allows and a promise does not survive:

- `LimitedSyncs` (Timeline): /sync leaves events out and `prev_batch` moves; the
  answer to a load under way overwrites it (`src/src/cm-room.c:2254`), and
  `StoredIsHistory` fails.
- `Crashes` (Timeline): `next_batch` is stored before the events of its answer; a
  crash in between loses them, and `StoredIsHistory` fails.
- `EmptySends` (Timeline): an echo is shown and no event, so a load of the past
  starts at the newest row; what /sync stores before the worker gets there is shown
  twice, and `ShownIsHistory` fails.
- `EarlyClients` (Matrix): a client made while the database is opened is listed
  beside the one read from the keyring, and `ListedOnce` fails.
- `LostKeys` (Verification): the request with our key has no retry and nobody looks
  at its answer; if it fails, the verification hangs and `EventuallyDone` fails.
- `"save"` in `Fails` (GroupSession): the result of storing a session is ignored; the
  message is sent, a restart takes the old index up again, and `SavedIsAhead` fails.

The models keep these peculiarities too, none of which breaks a stated property:

- Deleting an account reports failure and leaves it in the database; a matrix whose
  keyring was read and whose database failed counts as ready and cannot be opened
  again; a client whose save failed is refused as already being saved.
- The worker that drops the last reference waits for itself to close the database
  (`stuck`); one whose database could not be opened goes on with a freed queue.
- The members of a room are joined without comparing users, and a replaced event may
  be given the row ID of something else.
- A start that comes before the answer to "ready" makes the continue call return
  without an accept having been sent; one that is in flight when the user cancels
  begins the verification anew; a MAC that comes before ours was answered leaves the
  device unstored.
- Echoes of messages that failed stay in the table and are never loaded.

## Proofs

### ClientSync

`ClientSyncProofs` proves, for any sets of requests, cancellables, servers, calls
and failures that satisfy `ConstantsAssumption`:

- `TypeCorrect`: `Spec => []TypeOK`;
- `LoadingCorrect`: `Spec => []LoadingMatchesRequests`;
- `DbLoadCorrect`: `Spec => []DbLoadsOnce`;
- `TimerCorrect`: `Spec => []NoOrphanTimer`;
- `InSyncCorrect`: `Spec => []InSyncMeansSyncing`;
- `CancelledLoopCorrect`: `Spec => CancelledLoopEnds`, an action property.

The inductive invariant is `IInv`.  `InSyncMeansSyncing` alone is not inductive:
it says nothing of a client whose `is_sync` was left `TRUE` while something else
went wrong.  What carries the argument is `Ready`: while `is_sync` is set, or a
/sync or key upload is in flight, nothing is left to load, so the dispatcher can
only send the next /sync and never turns back to an earlier stage.  That in turn
needs `DbFirst` (nothing is in flight before the database) and `Loading` (a flag
stands for exactly one request).  A callback changes the client first and calls
the dispatcher then, so the invariant is stated of a client `s` and requests `q`
in two parts: `Settled(s, q)` holds at the call as well, `InSync(s, q)` only when
the callback has returned.  The lemmas prove this once for the dispatcher
(`StartSync`), for failures and for `stop_sync`; the proof of a step has one case
per action.

`CancelledLoopEnds` needs one more invariant, `AllLasting`: the requests for the room
lists are sent with no cancellable, so that nothing cancels them (their callbacks go
on after any failure).  With it, a request that was cancelled and whose callback runs
ends with `Finish`, which sends nothing and arms no timer; and a lemma shows that a
request in flight is changed by its own callback alone.

### DbQueue

`DbQueueProofs` proves, for any tables, calls and number of calls, with `EarlyCalls`
or without:

- `TypeCorrect`: `Spec => []TypeOK`, which says that a task is in the queue exactly
  as long as it was not run, and once; that a busy worker holds a task that was run;
  and that no call is waited for that has returned;
- `ClosedLastCorrect`: `Spec => []ClosedLast`.

The inductive invariant `Good` takes the queue, the tasks and the stack of waits as
arguments, as `MainStep` changes the tasks before it decides whether to close.  It
has the parts `Tasks` and `Queued` (each task has one place), `Waited` (the stack has
no task twice), `HeldBy` (a task that was run is held by a busy worker and by nobody
else, so at most one is) and `CloseIsLast`.  That last part carries `ClosedLast`: a
task that closes the database is made only when the application holds no reference
and no other task is alive, and since then no call can be made, nothing is delivered
twice and nothing comes alive again, so it stays so; and the database stays closed or
that task is still to be run, so that no second one is made.  There is a lemma for
each kind of change (`Appended`, `Prepended`, `WithoutHead`, `StageChanged`, ...) and
one for each action.

The tables, and what calls find in them, are a second invariant, `Kept`, of the tables,
the queue and the tasks:

- `LookupsFindStored`: `Spec => []LookupFindsStored`;
- `LastCallsWin`: `Spec => []LastCallWins`.

Neither is inductive: both speak of tasks that have run, and say nothing of those that
will.  `Kept` adds that only a call to the front overtakes another, in the queue
(`Ordered`) and with the worker (`InTurn`), that a task has no result before it is run
(`Unanswered`), that the first task opens the database and no other does (`Kinds`), and
that a session once stored is still found if nothing deleted it (`Stored`).  The step
that matters is the worker's: the task it takes is the head of the queue, so of the
calls that settle the same row every earlier one was run before it (`SettledBefore`),
and what it writes is what the last of them asked for.  There is one lemma on each
task's effect on the rows the properties look at; that of a task which adds events is
an induction over the events.  The constants are assumed to be what the code has:
`Files` are tables, `Requests` calls of `cm-db.h`, and `NULL` no result.

### RoomKeys

`RoomKeysProofs` proves, for any finite set of users and any rooms, devices, members,
failures and bounds:

- `RoomKeysTyped`: `Spec => []TypeOK`;
- `QueriesStayAnswered`: `Spec => []QueriesAreAnswered`;
- `OneStepStays`: `Spec => []OneStepAtATime`;
- `StaleStayMarked`: `Spec => []StaleDevicesAreMarked`, if `"omit"` is not in `Fails`;
- `RoomsImplementOutbox`: `Spec => ImplementsOutbox`.

A callback takes the client's state through several states, each by an operator, so
the invariant is stated of such a state `w` and the rooms `open` whose load is just
beginning or ending (`Good(w, open)`).  It says that a room that loads devices waits for
exactly one thing, a turn in the queue, the request under way, or an idle source
(`LoadGood`); that it takes one step at a time (`RoomGood`); and that no room is in the
queue twice (`ListGood`).  `Rest` says that a queue that is not empty has a request under
way; it holds at the end of each callback and not within it.  `OneStepAtATime` alone is
not inductive, because the room at the head of the queue must have users to load when
its turn comes, and only `LoadGood` says that nothing took them away: the list is given
the room's own array, and the room that ends a request must be the one that asked.

`Told` is for the stale devices: what the list knows of a user is right, or unknown, or
the user is marked as changed or has a change that was not announced yet, or a request
is under way whose answer is right.  An answer that leaves out users of an unreachable
homeserver is excluded: `device_keys_query_cb()` takes them for loaded, and the property
is false then.

For the refinement, every operator is shown to leave the messages of a room alone, to
queue one (`Puts`), to return the task of one (`Returns`) or to take the next one, and an
action to do at most one of these for one room.

### Verification

`VerificationProofs` proves, for any ages and number of calls:

- `VerificationTyped`: `Spec => []TypeOK`;
- `StoredStaysConfirmed`: `Spec => []StoredIsConfirmed`;
- `DoneStaysVerified`: `Spec => []DoneIsVerified`.

A device is stored when the answer to our MAC comes, so what must be known is known when
the request is sent, and must stay true while messages, cancels and new verifications
come before its answer.  `RequestGood` says it of a request: it is ours only after the
user confirmed, and a `done` of the present verification only if it is verified.  `Good`
adds what belongs together in a verification, and `IInv` what may still be read: after a
MAC the other device begins nothing anew, so a verification that has one is not replaced
while its answer is under way.  The messages of one answer are handled one after the
other; that this keeps the invariant is an induction over their number (`ReadsGood`).

### GroupSession

`GroupSessionProofs` proves, for any bounds:

- `GroupSessionTyped`: `Spec => []TypeOK`;
- `UploadStaysCurrent`: `Spec => []UploadIsCurrent`;
- `SavedStaysAhead`: `Spec => []SavedIsAhead`, if `"save"` is not in `Fails`;
- `RoomImplementsRatchet`: `Spec => ImplementsRatchet`, under the same condition.

The condition is what the code needs: the result of storing a session is ignored, so
after a failure the row is behind what was sent, and both are false.

`Good` says that each task of the queue is that of one call on the stack (`Matches`),
that one message is encrypted and one key uploaded at a time, and that a room looks its
stored session up before anything else.  As the main loop runs within a waiting call, each part
is stated of the whole stack and not of its top.  `Ahead` is the strengthening of
`SavedIsAhead`, which speaks of the row alone: a pickle is on its way from memory to the
row through the stack and the queue, and a lookup brings it back, so each of these
places must be ahead of what was sent, or be overwritten by one that is before a restart
can see it.  Ratchet's steps then are the steps that hand something to the network:
the key at the session's index, and a message at an index that is not below it.

### Matrix

`MatrixProofs` proves, for any clients and logins (finitely many logins, each with a
client for it), any contents of the keyring, failures and bounds, with `EarlyClients`
off:

- `MatrixTyped`: `Spec => []TypeOK`;
- `ListedStayOnce`: `Spec => []ListedOnce`;
- `ChangesStayPending`: `Spec => []ChangesArePending`, with `EarlyChanges` off as well.

Both switches are what the code breaks them with: a client made while the database is
opened is listed twice, and one that is changed before it was loaded is stored without
its keys, which it gets only afterwards.

The invariant `IInv` has a part on the whole (`Types`, `Opening`, `Lists`) and one on each
client, `Good(c)`, of four parts.  `Shape`: the saving flags stand for the one request of
each kind, and a client is loaded only while it has a token, no keys and (unless it was
changed too early) nothing to save.  `Known`: what is being written, or was written last, is the client as it is, or
a flag says that it has to be written again; this is needed also of a client whose
secrets are being saved before it is listed, as it changes meanwhile.  `ListedOf` and
`AddingOf` say what a client in one of the lists is, and `AnswersOf` what the answer of a
request will do with it: a login is being saved by one client at a time and not by a
client that is added, which is what keeps it in the list once.

Almost every step is that of one client, and the lemmas `Calm` and `Relist` reduce it to
that client.  `DbOpened`, `Add` and `Added` make or list several clients and are proved
for themselves.

### Timeline

`TimelineTypes` (the first) and `TimelineProofs` prove, for any past and length of the
history, any size of a page and of a chunk, and any number of messages, empty answers and
starts:

- `TimelineTyped`: `Spec => []TypeOK`, with the switches on or off;
- `TimelineStored`: `Spec => []StoredIsHistory`, with `LimitedSyncs`, `Crashes` and
  `EmptySends` off;
- `TimelineShown`: `Spec => []ShownIsHistory`, with the same switches off.

The first two switches are what the code breaks the rows with: `prev_batch` is then
overwritten, or `next_batch` is stored and its events are not.  `EmptySends` is what it
breaks the list with; the rows stay right, but their proof uses what holds without it: the
room has been synced before a message of ours is sent, so our messages lie after the
room's token.  The assumptions on the constants are that the room has a first event (its
creation), that a page holds two events (the code asks for 30), and that `NULL` names
nothing.

`TypeInv` says that a flag is set exactly as long as there is the task it stands for, that
no two tasks are followed by the same callback, and that one message at a time is under
way.  `StoredIsHistory` itself is not inductive: it speaks of the states in which nothing
is left to do, and every load and every sync goes through others.  `Stored(lo, hi)` is
true in all of them.  The rows are the events after `lo` up to `hi`, in their order, with
echoes of messages that are none of these (`Piece`); the queue has the piece between `hi`
and the token of /sync, and the one between the room's token and `lo`, or there is none
(`Adds`).  For the rows to get there the room must be stored before its events are
(`RoomsFirst`), and for a start to find the tokens the last save must have them
(`Saves`).  A first answer to /sync may begin anywhere, so before it there must be nothing
at all (`Fresh`).  `Contents` is needed of the list, because what it shows is what is
left out of the answers before they are stored (`NotLast`): an answer of /sync may repeat
neither the last event nor an echo that has its ID by now.

The worker's step is the heart of the argument.  An event that is added drops the row of
its echo, and finds no other row of its ID; so the rows grow by the piece, upwards or
downwards, and an echo that comes too late meets the event that replaced it and is refused.
`SetId` gives the echo in the list the ID of its event, while the row is never given one.
In a settled state `lo` is the room's token and `hi` that of /sync, and counting the rows
up to each event (a bijection with the places, by induction) gives `StoredEvents`.  The
recursive functions of the model (`Picked`, `WithoutEchoes`, `EventsAdded`) are unfolded
once: that a function with the recursive equation exists, and that the model's is one.

For the list, `Listed(start)` names the event it begins with.  `ShownIsHistory` is not
inductive, as it does not say what a load is going to put before the list.  `Whole` says
that the list has every message from `start` to the token of /sync, and nothing from
before `start`.  A load asks the database for what is before the oldest event, and the
list and the table go on changing until the worker gets there.  `Asked` says that the
question is still the right one then: it names the event at `start`, or, with nothing
shown, there is no answer of /sync left to be stored (this is what fails with
`EmptySends`).  `Answered` says the same of the page while it waits for its callback
(`IsPage`): the messages just before `start`, back to one of them.  If the page is empty
there is no message before `start` in the table, and the server is asked from the room's
token; what it sends is put before the list without a gap.  A page is the newest messages
up to the oldest event that is known, less the first of them, which the code takes for
that event.  So a page has to hold two messages, and a list must not begin with an event
that is no message while there are messages before it: the last part of `Whole`, which
holds of what /sync, the database, the server and a start each put into the list.

### Only model-checked

- Liveness everywhere, as fairness and ENABLED are beyond the prover:
  `EnabledClientSyncs`, `QueuedIsSent`, `CallsReturn`, `HistoryIsShown`,
  `AccountsAreSaved`, `EventuallyDone`.
- What depends on an induction is proved where it is needed: the lemma `Induction` states
  it of a set of numbers, so that no operator is its parameter.

## Not modelled

- The account's one-time keys, the Olm sessions with other devices and decryption.
  Three hazards of them are listed without a property: the account is stored with the
  client's next save only, and a room key is lost if the program ends between the
  save of `next_batch` and that of the session.
- Lists of rooms, invites (an invite is looked up in one list and added to another,
  so the list of invites is always empty), profiles and room settings: each is one
  request, and a flag.
- The account, the pusher, devices, conversions and the network: records, wrappers,
  and requests without state of their own.
- SQL, JSON, libolm, libsecret.

## Plan

Done: `ClientSync`, `DbQueue` with `Database`, `RoomKeys` with `Outbox`, `Matrix`,
`Verification`, `GroupSession` with `Ratchet`, and `Timeline`, all with proofs.  Next:

1. `OlmKeys`: one-time keys of the account, from creation to the save, with crashes.
2. The lists of rooms of a client and the invites.
