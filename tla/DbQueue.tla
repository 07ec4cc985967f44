-------------------------------- MODULE DbQueue --------------------------------
(***************************************************************************)
(* CmDb as its callers see it (src/src/cm-db.c): tasks are put into the    *)
(* queue of a worker thread, which runs one after the other, each as one   *)
(* transaction (module Database).  Some calls return at once and have      *)
(* their callback run by the main loop later; the others wait for their    *)
(* task by iterating the main loop, so that callbacks, and further calls,  *)
(* run in the middle of them.                                              *)
(*                                                                         *)
(* A task holds a reference to the CmDb.  Whoever drops the last one       *)
(* disposes of it, which closes the database and waits for that.           *)
(***************************************************************************)
EXTENDS Database

CONSTANTS
  Files,       \* what the database file may hold when it is opened
  Requests,    \* for the first call, the second and so on (a bound of the model)
               \* the set of calls it may be, records as below
  EarlyCalls   \* whether calls are made before the database is open

ASSUME NullAssumption == NULL # "ok"
ASSUME FilesAssumption == Files \subseteq Tables
ASSUME RequestsAssumption ==
         /\ Requests \in Seq(Range(Requests))
         /\ \A i \in DOMAIN Requests : \A req \in Requests[i] :
              /\ req.op \in {"save_client", "load_client", "save_room", "delete_client",
                             "save_file_enc", "find_file_enc", "add_session",
                             "lookup_session", "lookup_room_session",
                             "lookup_olm_session", "mark_user_device_change",
                             "update_user_devices", "update_device",
                             "add_room_events", "get_past_events"}
              /\ req.op = "add_room_events" => req.events \in Seq(Event)
ASSUME EarlyCallsAssumption == EarlyCalls \in BOOLEAN

VARIABLES
  db,      \* the tables in the file
  open,    \* self->db
  queue,   \* self->queue, of task numbers
  worker,  \* idle, busy (with a task it still holds), ended or stuck
  task,    \* every task made so far, in the order of the calls
  waits,   \* the tasks waited for, a stack: the newest is the last
  app      \* the application holds a reference to the CmDb

vars == <<db, open, queue, worker, task, waits, app>>

-----------------------------------------------------------------------------
(* The calls, with what they copy into their task.                         *)

OpenCall  == [op |-> "open"]
CloseCall == [op |-> "close"]
SaveClientCall(batch, filter) ==
  [op |-> "save_client", batch |-> batch, filter |-> filter]
LoadClientCall == [op |-> "load_client"]
SaveRoomCall(r, prev, status, replacement, synced) ==
  [op |-> "save_room", room |-> r, prev |-> prev, status |-> status,
   replacement |-> replacement, synced |-> synced]
DeleteClientCall == [op |-> "delete_client"]
SaveFileEncCall(f) == [op |-> "save_file_enc", file |-> f]
FindFileEncCall(f) == [op |-> "find_file_enc", file |-> f]
AddSessionCall(s, r, usable) ==
  [op |-> "add_session", session |-> s, room |-> r, usable |-> usable]
LookupSessionCall(s)     == [op |-> "lookup_session", session |-> s]
LookupRoomSessionCall(r) == [op |-> "lookup_room_session", room |-> r]
LookupOlmSessionCall(s)  == [op |-> "lookup_olm_session", session |-> s]
MarkUserDeviceChangeCall(users, outdated) ==
  [op |-> "mark_user_device_change", users |-> users, outdated |-> outdated]
UpdateUserDevicesCall(u, added, removed, force) ==
  [op |-> "update_user_devices", user |-> u, added |-> added, removed |-> removed,
   force |-> force]
UpdateDeviceCall(u, dev, verified) ==
  [op |-> "update_device", user |-> u, device |-> dev, verified |-> verified]
AddRoomEventsCall(r, events, prepend) ==
  [op |-> "add_room_events", room |-> r, events |-> events, prepend |-> prepend]
GetPastEventsCall(r, from) == [op |-> "get_past_events", room |-> r, from |-> from]

\* With lookups as urgent as what they look for, or with rooms saved at once
LookupsToFront == {"add_session", "load_client", "lookup_session"}
SavesToFront == {"add_session", "load_client", "save_room"}

\* cm_db_add_session() and cm_db_load_client_async() push to the front
ToFront == {"add_session", "load_client"}

\* Those with cm_db_wait_for_completion()
Sync == {"add_session", "lookup_session", "lookup_room_session",
         "lookup_olm_session", "mark_user_device_change",
         "update_user_devices", "update_device", "add_room_events", "close"}

\* What the worker runs for each of them, on the arguments the call copied
Run(req, d) ==
  CASE req.op = "open"         -> Open(d)
    [] req.op = "close"        -> Done(d, "ok")
    [] req.op = "save_client"  -> SaveClient(d, req.batch, req.filter)
    [] req.op = "load_client"  -> LoadClient(d)
    [] req.op = "save_room"    -> SaveRoom(d, req.room, req.prev, req.status,
                                           req.replacement, req.synced)
    [] req.op = "delete_client" -> DeleteClient(d)
    [] req.op = "save_file_enc" -> SaveFileEnc(d, req.file)
    [] req.op = "find_file_enc" -> FindFileEnc(d, req.file)
    [] req.op = "add_session"  -> AddSession(d, req.session, req.room, req.usable)
    [] req.op = "lookup_session"      -> LookupSession(d, req.session)
    [] req.op = "lookup_room_session" -> LookupRoomSession(d, req.room)
    [] req.op = "lookup_olm_session"  -> LookupOlmSession(d, req.session)
    [] req.op = "mark_user_device_change" ->
         MarkUserDeviceChange(d, req.users, req.outdated)
    [] req.op = "update_user_devices" ->
         UpdateUserDevices(d, req.user, req.added, req.removed, req.force)
    [] req.op = "update_device" -> UpdateDevice(d, req.user, req.device, req.verified)
    [] req.op = "add_room_events" -> AddRoomEvents(d, req.room, req.events, req.prepend)
    [] req.op = "get_past_events" -> GetPastEvents(d, req.room, req.from)

\* stage: queued, returned (by the worker; the main loop has yet to see it),
\* completed (seen, but still waited for) and delivered; held: by the queue
\* or the worker
NewTask(req) == [req |-> req, stage |-> "queued", result |-> NULL, held |-> TRUE]

Pushed(q, req, id) == IF req.op \in ToFront THEN <<id>> \o q ELSE Append(q, id)

Waiting(req, id) == IF req.op \in Sync THEN Append(waits, id) ELSE waits

-----------------------------------------------------------------------------
(* References.  A task is alive as long as anything refers to it.          *)

\* Without the reference the worker holds until it is done with the task
AliveUntilDelivered(t) == t.stage # "delivered"

Alive(t) == t.held \/ t.stage # "delivered"

Unused(a, tasks) == ~a /\ \A i \in DOMAIN tasks : ~Alive(tasks[i])

\* What the main loop leaves behind when its step may have dropped the last
\* reference: cm_db_dispose() and cm_db_close()
MainStep(a, tasks, stack) ==
  /\ app' = a
  /\ IF Unused(a, tasks) /\ open
     THEN LET id == Len(tasks) + 1
          IN  /\ task' = Append(tasks, NewTask(CloseCall))
              /\ queue' = Append(queue, id)
              /\ waits' = Append(stack, id)
     ELSE task' = tasks /\ waits' = stack /\ UNCHANGED queue

-----------------------------------------------------------------------------

\* cm_matrix_open_async() has made the CmDb and called cm_db_open_async()
Init ==
  /\ db \in Files
  /\ open = FALSE
  /\ task = <<NewTask(OpenCall)>>
  /\ queue = <<1>>
  /\ worker = "idle"
  /\ waits = <<>>
  /\ app = TRUE

Call(req) ==
  /\ app
  /\ EarlyCalls \/ task[1].stage = "delivered"
  /\ LET id == Len(task) + 1
     IN  /\ task' = Append(task, NewTask(req))
         /\ queue' = Pushed(queue, req, id)
         /\ waits' = Waiting(req, id)
  /\ UNCHANGED <<db, open, worker, app>>

\* The callback of the task does not find the database open, which each of them
\* asserts; opening finds it closed.
Expected(req) == open = (req.op # "open")

\* A task that gives its caller a result and leaves it waiting
Forgotten(id, result) == task' = [task EXCEPT ![id].result = result]

Returned(id, result) ==
  task' = [task EXCEPT ![id].stage = "returned", ![id].result = result]

Work ==
  /\ worker = "idle"
  /\ queue # <<>>
  /\ LET id  == Head(queue)
         req == task[id].req
         run == Run(req, db)
     IN  /\ Expected(req)
         /\ db' = run.db
         /\ open' = (req.op # "close")
         /\ Returned(id, run.result)
         /\ worker' = "busy"
  /\ queue' = Tail(queue)
  /\ UNCHANGED <<waits, app>>

\* sqlite3_open() fails, or sqlite3_close(); nothing is left open either way
WorkFails ==
  /\ worker = "idle"
  /\ queue # <<>>
  /\ task[Head(queue)].req.op \in {"open", "close"}
  /\ Expected(task[Head(queue)].req)
  /\ open' = FALSE
  /\ Returned(Head(queue), "error")
  /\ worker' = "busy"
  /\ queue' = Tail(queue)
  /\ UNCHANGED <<db, waits, app>>

\* A worker that ends with the account
FragileRelease(id) ==
  /\ worker = "busy" /\ task[id].held /\ task[id].stage # "queued"
  /\ worker' = IF task[id].req.op = "delete_client" THEN "ended" ELSE "idle"
  /\ task' = [task EXCEPT ![id].held = FALSE]
  /\ UNCHANGED <<db, open, queue, waits, app>>

\* The worker drops its reference to the task it has run, and ends if that was
\* the one that closed the database.  If it drops the last reference to the
\* CmDb, it waits for itself to close it.
Release(id) ==
  /\ worker = "busy" /\ task[id].held /\ task[id].stage # "queued"
  /\ LET tasks == [task EXCEPT ![id].held = FALSE]
     IN  \/ /\ task[id].req.op = "close"
            /\ worker' = "ended" /\ task' = tasks /\ UNCHANGED queue
         \/ /\ task[id].req.op # "close" /\ ~Unused(app, tasks)
            /\ worker' = "idle" /\ task' = tasks /\ UNCHANGED queue
         \/ /\ task[id].req.op # "close" /\ Unused(app, tasks)
            /\ worker' = "stuck"
            /\ IF open
               THEN /\ task' = Append(tasks, NewTask(CloseCall))
                    /\ queue' = Append(queue, Len(task) + 1)
               ELSE task' = tasks /\ UNCHANGED queue
  /\ UNCHANGED <<db, open, waits, app>>

\* The main loop runs the callback of a task that was not waited for.  A
\* database that cannot be opened is dropped by db_open_cb() of CmMatrix.
Deliver(id) ==
  /\ task[id].stage = "returned"
  /\ task[id].req.op \notin Sync
  /\ MainStep(app /\ ~(task[id].req.op = "open" /\ task[id].result = "error"),
              [task EXCEPT ![id].stage = "delivered"], waits)
  /\ UNCHANGED <<db, open, worker>>

\* The main loop sees that a task is completed which some call waits for
Complete(id) ==
  /\ task[id].stage = "returned"
  /\ task[id].req.op \in Sync
  /\ task' = [task EXCEPT ![id].stage = "completed"]
  /\ UNCHANGED <<db, open, queue, worker, waits, app>>

\* The innermost of the calls that wait returns
WaitEnds ==
  /\ waits # <<>>
  /\ task[Last(waits)].stage = "completed"
  /\ MainStep(app, [task EXCEPT ![Last(waits)].stage = "delivered"], Front(waits))
  /\ UNCHANGED <<db, open, worker>>

\* The application lets go of the matrix, its clients and rooms
DropRef ==
  /\ app
  /\ task[1].stage = "delivered"
  /\ MainStep(FALSE, task, waits)
  /\ UNCHANGED <<db, open, worker>>

Main == (\E id \in DOMAIN task : Deliver(id) \/ Complete(id)) \/ WaitEnds

Next ==
  \/ Len(task) <= Len(Requests) /\ \E req \in Requests[Len(task)] : Call(req)
  \/ Work
  \/ WorkFails
  \/ \E id \in DOMAIN task : Release(id)
  \/ \E id \in DOMAIN task : Deliver(id)
  \/ \E id \in DOMAIN task : Complete(id)
  \/ WaitEnds
  \/ DropRef

\* The worker thread takes what is queued and lets go of it, and the main loop
\* runs; nobody need call or drop the reference.
Takes == worker = "idle" /\ queue # <<>> /\ Expected(task[Head(queue)].req)
         /\ queue' = Tail(queue)
Releases == \E id \in DOMAIN task : Release(id)
Fairness == WF_queue(Takes) /\ WF_vars(Releases) /\ WF_vars(Main)

Spec == Init /\ [][Next]_vars /\ Fairness

-----------------------------------------------------------------------------
(* Properties.                                                             *)

Issued(op) == {i \in DOMAIN task : task[i].req.op = op}
HasRun(i)  == task[i].stage # "queued"
Stages     == {"queued", "returned", "completed", "delivered"}

\* The types of the variables, and that a task is in the queue as long as it has
\* not been run, and there once.
TypeOK ==
  /\ open \in BOOLEAN /\ app \in BOOLEAN
  /\ worker \in {"idle", "busy", "ended", "stuck"}
  /\ worker = "busy" <=>
       \E i \in DOMAIN task : task[i].held /\ task[i].stage # "queued"
  /\ \A i \in DOMAIN task : task[i].stage \in Stages /\ task[i].held \in BOOLEAN
  /\ Range(queue) = {i \in DOMAIN task : task[i].stage = "queued"}
  /\ IsInjective(queue)
  /\ IsInjective(waits)
  /\ \A i \in Range(waits) : task[i].stage # "delivered"

\* "Push to end as we may have to match items inserted immediately before": a
\* session that a call has stored is found by every lookup called after it,
\* however the calls are nested, unless the account was deleted or the session
\* was also stored as one not to be used.
LookupFindsStored ==
  \A i \in Issued("add_session"), j \in Issued("lookup_session") :
    LET s == task[i].req.session
    IN  /\ i < j /\ s = task[j].req.session
        /\ HasRun(j) /\ task[j].result # "error" /\ task[i].result # "error"
        /\ \A k \in Issued("add_session") : task[k].req.session = s => task[k].req.usable
        /\ \A k \in Issued("delete_client") : k > j
        => task[j].result = s

\* Of calls that store the same thing, the last one called decides what is
\* stored, although each returns before it is done: the token of an account, the
\* token of a room, and whether the devices of a user are out of date.
Latest(ids) == {i \in ids : \A j \in ids : j <= i}
Overrules(i) == \A k \in Issued("delete_client") : k < i
LastCallWins ==
  /\ \A i \in Latest(Issued("save_client")) :
       task[i].result = "ok" /\ Overrules(i) => db.next_batch = task[i].req.batch
  /\ \A r \in Room :
       \A i \in Latest({j \in Issued("save_room") : task[j].req.room = r}) :
         task[i].result = "ok" /\ Overrules(i) => db.prev_batch[r] = task[i].req.prev
  /\ \A u \in User :
       LET marks == {j \in Issued("mark_user_device_change") : u \in task[j].req.users}
           loads == {j \in Issued("update_user_devices") : u = task[j].req.user}
       IN  \A i \in Latest(marks \cup loads) :
             task[i].result = "ok" /\ Overrules(i)
             => (u \in db.outdated <=> i \in marks /\ task[i].req.outdated)

\* cm_db_dispose() closes the database after everything else: no task is queued,
\* no callback has yet to run and nobody can call any more, so that no task is
\* left behind when the worker ends.
ClosedLast ==
  \A i \in Issued("close") :
    ~app /\ \A j \in DOMAIN task \ {i} : task[j].stage = "delivered" /\ ~task[j].held

\* Each task's callback is run and each call that waits returns, however the
\* waits are nested.  The task that closes the database is excepted: the worker
\* may be the one to wait for it.
CallsReturn ==
  \A i \in 1 .. Len(Requests) + 1 :
    (i \in DOMAIN task /\ task[i].req.op # "close")
      ~> (i \in DOMAIN task /\ task[i].stage = "delivered")

\* The assertions of the tasks: the database is open when the worker takes one
\* (and not yet when it is to open it).
TasksFindItOpen ==
  worker = "idle" /\ queue # <<>> => Expected(task[Head(queue)].req)
=============================================================================
