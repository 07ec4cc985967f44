-------------------------------- MODULE Database --------------------------------
(***************************************************************************)
(* The tables of CmDb and the tasks its worker runs on them                *)
(* (src/src/cm-db.c).  Every task is one transaction, so a task is an      *)
(* operator from the tables d to the tables and the result, [db, result].  *)
(*                                                                         *)
(* The tables hold the rows of one account, and rows that nothing refers   *)
(* to any more are left out.  Rows are named by what makes them unique;    *)
(* only events have row IDs, as the code misreads one.                     *)
(***************************************************************************)
EXTENDS Integers, Sequences, SequencesExt, FiniteSets, FiniteSetsExt

CONSTANTS
  User,
  Device,
  Room,
  Session,   \* session IDs, of Olm and Megolm sessions
  OutSession,   \* those of outbound Megolm sessions
  File,      \* URIs of encrypted files
  Token,     \* the server's next_batch and prev_batch tokens
  Uid,       \* event IDs given by the server
  Txn,       \* transaction IDs given by this client
  PageSize,  \* how many past events are read at once, 30 in the code
  NULL

\* An event as db_add_room_events() sees it; an event without uid is the local
\* echo of a message that is being sent, and its type is not known.
Event == [ uid: Uid \cup {NULL}, txn: Txn \cup {NULL}, sender: User,
           message: BOOLEAN,              \* of type m.room.message or encrypted
           replaces: Uid \cup {NULL} ]

\* A row of room_events.  replaces_id is a row ID, or Other: the ID of a row of
\* some other table.
Other == -1
Row == [ id: Nat, sorted_id: Int, event: Event, sender_id: User,
         replaces_id: Nat \cup {Other}, cache_id: Uid \cup {NULL} ]

Status == {"unknown", "invite", "join", "leave"}

Tables ==
  [ version : -1..3,          \* PRAGMA user_version; -1: there is no file
    account : BOOLEAN,        \* there is a row for the account
    json    : BOOLEAN,        \* with json_data, that is with a filter ID
    next_batch: Token \cup {NULL},
    users   : SUBSET User,    \* rows of the account
    outdated: SUBSET User,
    devices : [User -> SUBSET Device],
    verified: [User -> SUBSET Device],
    rooms   : SUBSET Room,
    state   : [Room -> Status],
    prev_batch: [Room -> Token \cup {NULL}],
    replaced: SUBSET Room,    \* replacement_room_id is set
    synced  : SUBSET Room,    \* with json_data, that is with the room's state
    members : [Room -> Seq(User)],      \* room_members, by row ID
    events  : [Room -> SUBSET Row],
    cache   : [Room -> SUBSET Uid],     \* room_events_cache
    sessions: Seq(Session),             \* by row ID
    usable  : SUBSET Session,           \* with session_state 0
    session_room: [Session -> Room \cup {NULL}],
    files   : SUBSET File,
    last_id : Nat \cup {Other} ]        \* sqlite3_last_insert_rowid()

NoTables ==
  [ version |-> -1, account |-> FALSE, json |-> FALSE, next_batch |-> NULL,
    users |-> {}, outdated |-> {},
    devices |-> [u \in User |-> {}], verified |-> [u \in User |-> {}],
    rooms |-> {}, state |-> [r \in Room |-> "unknown"],
    prev_batch |-> [r \in Room |-> NULL], replaced |-> {}, synced |-> {},
    members |-> [r \in Room |-> <<>>], events |-> [r \in Room |-> {}],
    cache |-> [r \in Room |-> {}], sessions |-> <<>>, usable |-> {},
    session_room |-> [s \in Session |-> NULL], files |-> {}, last_id |-> 0 ]

Done(d, result) == [db |-> d, result |-> result]

-----------------------------------------------------------------------------
(* Opening.                                                                *)

CurrentVersion == 2

\* cm_db_create_schema()
Created(d) == [d EXCEPT !.version = CurrentVersion]

\* cm_db_migrate_db_v1(): the rows keep their account, which loses json_data
MigratedToV1(d) == [d EXCEPT !.version = 1, !.json = FALSE]

\* cm_db_migrate_to_v2(): rooms lose what v1 knew of their state, users are no
\* longer those of the account
MigratedToV2(d) ==
  [d EXCEPT !.version = 2, !.users = {}, !.outdated = {},
            !.devices = [u \in User |-> {}], !.verified = [u \in User |-> {}],
            !.state = [r \in Room |-> "unknown"], !.replaced = {}, !.synced = {},
            !.session_room = [s \in Session |-> NULL]]

\* cm_db_migrate()
Migrated(d) ==
  CASE d.version = CurrentVersion -> Done(d, "ok")
    [] d.version = 0              -> Done(MigratedToV2(MigratedToV1(d)), "ok")
    [] d.version = 1              -> Done(MigratedToV2(d), "ok")
    [] OTHER                      -> Done(d, "error")

\* matrix_open_db()
Open(d) == IF d.version = -1 THEN Done(Created(d), "ok") ELSE Migrated(d)

-----------------------------------------------------------------------------
(* Rows that are inserted where they are missing.                          *)

WithAccount(d) == [d EXCEPT !.account = TRUE, !.last_id = IF d.account THEN @ ELSE Other]
WithUsers(d, users) ==
  [d EXCEPT !.users = @ \cup users, !.last_id = IF users \subseteq d.users THEN @ ELSE Other]
WithRooms(d, rooms) ==
  [d EXCEPT !.rooms = @ \cup rooms, !.last_id = IF rooms \subseteq d.rooms THEN @ ELSE Other]
WithDevices(d, u, devices) ==
  [d EXCEPT !.devices[u] = @ \cup devices,
            !.last_id = IF devices \subseteq d.devices[u] THEN @ ELSE Other]

-----------------------------------------------------------------------------
(* The account, its rooms, files and sessions.                             *)

SaveClient(d, batch, filter) ==
  Done([WithAccount(d) EXCEPT !.next_batch = batch, !.json = filter], "ok")

\* The events cm_db_get_past_events() finds from a row on, newest first
PastEvents(d, r, sorted, skip) ==
  LET older == {row \in d.events[r] : row.sorted_id <= sorted /\ row.event.message}
      Newer(row) == {x \in older : x.sorted_id > row.sorted_id}
      Nth(n) == CHOOSE row \in older : Cardinality(Newer(row)) = n - 1
      size   == Min({Cardinality(older), PageSize})
      first  == IF skip THEN 1 ELSE 0
  IN  [i \in 1 .. size - first |-> Nth(first + i).event]

FirstId(d, r) == Min({row.sorted_id : row \in d.events[r]})
LastId(d, r)  == Max({row.sorted_id : row \in d.events[r]})

\* cm_db_get_rooms(): with the last event as far as it is a message
LoadRoom(d, r) ==
  [ status |-> d.state[r],
    prev_batch |-> IF d.events[r] = {} THEN d.next_batch ELSE d.prev_batch[r],
    last |-> IF d.events[r] = {} THEN <<>>
             ELSE LET past == PastEvents(d, r, LastId(d, r), FALSE)
                  IN  SubSeq(past, 1, Min({1, Len(past)})),
    synced |-> r \in d.synced ]

LoadableRooms(d) ==
  {r \in d.rooms \ d.replaced : d.state[r] \notin {"unknown", "leave"}}

\* An account without json_data is taken for one that was just migrated
LoadClient(d) ==
  IF ~d.account THEN Done(d, "error")
  ELSE Done(d, [ migrated |-> ~d.json, next_batch |-> d.next_batch,
                 rooms |-> [r \in LoadableRooms(d) |-> LoadRoom(d, r)] ])

\* A room that is replaced is saved with the row of its replacement
SaveRoom(d, r, prev, status, replacement, synced) ==
  IF ~d.account THEN Done(d, "error")
  ELSE Done([WithRooms(d, {r, replacement} \ {NULL}) EXCEPT
         !.prev_batch[r] = prev, !.state[r] = status,
         !.replaced = IF replacement = NULL THEN @ \ {r} ELSE @ \cup {r},
         !.synced = IF synced THEN @ \cup {r} ELSE @ \ {r}], "ok")

\* The step of a DELETE ends with SQLITE_DONE, and the task returns whether it
\* ended with SQLITE_ROW.
DeleteClient(d) ==
  IF ~d.account THEN Done(d, "error")
  ELSE Done([NoTables EXCEPT !.version = d.version, !.files = d.files,
                             !.last_id = d.last_id], "false")

SaveFileEnc(d, f) == Done([d EXCEPT !.files = @ \cup {f}, !.last_id = Other], "ok")
FindFileEnc(d, f) == Done(d, IF f \in d.files THEN f ELSE NULL)

\* A session of a room that is not in the database is stored without it,
\* although the task has already returned an error.
AddSession(d, s, r, usable) ==
  IF ~d.account THEN Done(d, "error")
  ELSE LET new == ~Contains(d.sessions, s)
       IN  Done([d EXCEPT
             !.sessions = IF new THEN Append(@, s) ELSE @,
             !.session_room[s] = IF new /\ r \in d.rooms THEN r ELSE @,
             !.usable = IF usable THEN @ \cup {s} ELSE @ \ {s},
             !.last_id = IF new THEN Other ELSE @],
             IF r = NULL \/ r \in d.rooms THEN "ok" ELSE "error")

\* db_lookup_session(): by ID, or the newest one of a room
LookupSession(d, s) ==
  Done(d, IF ~d.account THEN "error"
          ELSE IF Contains(d.sessions, s) /\ s \in d.usable THEN s ELSE NULL)

LookupRoomSession(d, r) ==
  LET fits == SelectSeq(d.sessions, LAMBDA s : /\ s \in OutSession \cap d.usable
                                               /\ d.session_room[s] = r)
  IN  Done(d, IF ~d.account THEN "error" ELSE IF fits = <<>> THEN NULL ELSE Last(fits))

\* db_lookup_olm_session(): the first session the message can be decrypted with,
\* whatever its state
LookupOlmSession(d, s) ==
  Done(d, IF ~d.account THEN "error" ELSE IF Contains(d.sessions, s) THEN s ELSE NULL)

-----------------------------------------------------------------------------
(* Users and devices.                                                      *)

MarkUserDeviceChange(d, users, outdated) ==
  IF ~d.account THEN Done(d, "error")
  ELSE Done([WithUsers(d, users) EXCEPT
               !.outdated = IF outdated THEN @ \cup users ELSE @ \ users], "ok")

\* A device that is added again loses its verification unless it is verified
UpdateUserDevices(d, u, added, removed, force) ==
  IF ~d.account \/ (u \notin d.users /\ ~force) THEN Done(d, "error")
  ELSE Done([WithDevices(WithUsers(d, {u}), u, added) EXCEPT
               !.outdated = @ \ {u}, !.devices[u] = @ \ removed,
               !.verified[u] = @ \ (added \cup removed)], "ok")

UpdateDevice(d, u, dev, verified) ==
  IF ~d.account \/ u \notin d.users THEN Done(d, "error")
  ELSE Done([WithDevices(d, u, {dev}) EXCEPT
               !.verified[u] = IF verified THEN @ \cup {dev} ELSE @ \ {dev}], "ok")

\* db_get_room_member_id(): the join does not compare the user of the member with
\* the user that is looked for, so any member of the room stands for any user
\* the account knows
FindMember(d, r, u) ==
  IF u \in d.users /\ d.members[r] # <<>> THEN Head(d.members[r]) ELSE u

WithMember(d, r, u) ==
  IF u \in d.users /\ d.members[r] # <<>> THEN d
  ELSE [WithUsers(d, {u}) EXCEPT !.members[r] = Append(@, u), !.last_id = Other]

-----------------------------------------------------------------------------
(* Events.                                                                 *)

RowsOf(d, r, uid) == {row \in d.events[r] : row.event.uid = uid /\ uid # NULL}
IdOf(d, r, uid) ==
  IF RowsOf(d, r, uid) = {} THEN 0 ELSE (CHOOSE row \in RowsOf(d, r, uid) : TRUE).id

\* cm_db_delete_event_with_txn_id()
WithoutEcho(d, r, txn) ==
  [d EXCEPT !.events[r] =
     {row \in @ : ~(txn # NULL /\ row.event.txn = txn /\ row.event.uid = NULL)}]

\* What the event replaces is known, or is remembered in the cache
Awaits(d, r, e) == e.replaces # NULL /\ IdOf(d, r, e.replaces) = 0
WithCached(d, r, e) ==
  IF Awaits(d, r, e) /\ e.replaces \notin d.cache[r]
  THEN [d EXCEPT !.cache[r] = @ \cup {e.replaces}, !.last_id = Other]
  ELSE d

NextId(d) == 1 + Max({0} \cup {row.id : row \in UNION {d.events[r] : r \in Room}})

Conflicts(d, r, e) == RowsOf(d, r, e.uid) # {}     \* ON CONFLICT ... DO NOTHING
Refused(d, r, e) ==           \* SQLITE_CONSTRAINT, of room_event_txn_idx
  /\ e.txn # NULL
  /\ \E row \in d.events[r] : row.event.txn = e.txn

Inserted(d, r, e, member, sorted) ==
  [d EXCEPT !.events[r] = @ \cup
     {[ id |-> NextId(d), sorted_id |-> sorted, event |-> e,
        sender_id |-> member,
        replaces_id |-> IF e.replaces = NULL THEN 0 ELSE IdOf(d, r, e.replaces),
        cache_id |-> IF Awaits(d, r, e) THEN e.replaces ELSE NULL ]},
     !.last_id = NextId(d)]

\* The rows that waited for the event get the ID of the row inserted last, be it
\* the event's or, after a conflict, another's.
Linked(d, r, e) ==
  IF e.uid \notin d.cache[r] \/ d.last_id = 0 THEN d
  ELSE [d EXCEPT !.events[r] =
          {IF row.cache_id = e.uid THEN [row EXCEPT !.replaces_id = d.last_id] ELSE row :
             row \in @}]

\* One event of the loop of db_add_room_events(), at a place of its own
AddEvent(d, r, e, sorted) ==
  LET known  == WithMember(d, r, e.sender)
      ready  == WithCached(WithoutEcho(known, r, e.txn), r, e)
  IN  IF Conflicts(ready, r, e) THEN Linked(ready, r, e)
      ELSE IF Refused(ready, r, e) THEN ready
      ELSE Linked(Inserted(ready, r, e, FindMember(d, r, e.sender), sorted), r, e)

FirstPlace(d, r, prepend) ==
  IF d.events[r] = {} THEN 0
  ELSE IF prepend THEN FirstId(d, r) - 1 ELSE LastId(d, r) + 1

\* The events, each at the place next to the one before
EventsAdded(d, r, events, prepend) ==
  LET first == FirstPlace(d, r, prepend)
      step  == IF prepend THEN -1 ELSE 1
      Added[n \in 0..Len(events)] ==
        IF n = 0 THEN d ELSE AddEvent(Added[n - 1], r, events[n], first + (n - 1) * step)
  IN  Added[Len(events)]

AddRoomEvents(d, r, events, prepend) ==
  IF ~d.account \/ r \notin d.rooms THEN Done(d, "error")
  ELSE Done(EventsAdded(d, r, events, prepend), "ok")

\* db_get_past_events(): from the row of an event, which is left out itself, or
\* from the last row; its callers take an error for nothing
GetPastEvents(d, r, from) ==
  LET row == IF from = NULL
             THEN {x \in d.events[r] : x.sorted_id = LastId(d, r)}
             ELSE RowsOf(d, r, from)
  IN  IF ~d.account \/ r \notin d.rooms \/ d.events[r] = {} \/ row = {}
      THEN Done(d, <<>>)
      ELSE Done(d, PastEvents(d, r, (CHOOSE x \in row : TRUE).sorted_id, from # NULL))
=============================================================================
