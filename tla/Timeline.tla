-------------------------------- MODULE Timeline --------------------------------
(***************************************************************************)
(* The events of a room as they are shown and as they are stored: the      *)
(* answers of /sync, the local echoes of messages that are being sent, and *)
(* the history that is loaded backwards, first from the database and then  *)
(* from the server.  The database (module Database) runs its tasks in the  *)
(* order of the calls; what a call goes on to do once its task has run is  *)
(* kept with the task.                                                     *)
(*                                                                         *)
(* Events are numbered by their place in the history of the server, and a  *)
(* token names the events up to it.                                        *)
(***************************************************************************)
EXTENDS Database

CONSTANTS
  room,
  me, other,     \* the users who send events
  Past,          \* the history of the room before the client sees it
  MaxEvents,     \* how long the history gets (a bound of the model)
  ChunkSize,     \* events in an answer of /messages, 30 in the code
  LimitedSyncs,  \* whether an answer of /sync may leave out events once there was one
  EmptySends,    \* whether messages are sent while no event is shown
  MaxEmpty,      \* how many answers of /sync are empty (a bound of the model)
  MaxStarts,     \* how often the client is started (a bound of the model)
  Crashes        \* whether the client may end with tasks in the queue

ASSUME HistoryAssumption ==
         /\ Uid = 1 .. MaxEvents
         /\ Token = 0 .. MaxEvents
         /\ Past \in Seq(BOOLEAN) /\ Len(Past) <= MaxEvents
         /\ Past # <<>>        \* a room begins with the event that creates it

ASSUME NamesAssumption ==
         /\ room \in Room /\ me \in User /\ other \in User
         /\ NULL \notin Uid /\ NULL \notin Token /\ NULL \notin Txn /\ NULL \notin Room

\* An event that is known is left out of a page, which has room for another one
ASSUME BoundsAssumption ==
         /\ MaxEvents \in Nat /\ MaxEmpty \in Nat /\ MaxStarts \in Nat
         /\ ChunkSize \in Nat \ {0} /\ PageSize \in Nat \ {0, 1}
         /\ LimitedSyncs \in BOOLEAN /\ EmptySends \in BOOLEAN /\ Crashes \in BOOLEAN

VARIABLES
  history,   \* of the server
  client,    \* CmClient: since (next_batch), sync, saving, starts, empty
  shown,     \* CmRoom: list, prev_batch, synced, loading, from
  message,   \* the messages the application sends, by transaction ID
  db,        \* the tables
  queue,     \* tasks that have not run: a request and what follows it
  done       \* tasks that have run, in the order their callbacks are run

vars == <<history, client, shown, message, db, queue, done>>

Posted(uid, txn, sender, isMessage) ==
  [uid |-> uid, txn |-> txn, sender |-> sender, message |-> isMessage, replaces |-> NULL]

\* The event type of an echo is not set
Echo(x) == Posted(NULL, x, me, FALSE)

MessageStates == {"new", "storing", "sending", "accepted", "restoring", "sent", "failed"}

-----------------------------------------------------------------------------
(* Tasks of the database, and what their callers do next.                  *)

SavingClient(batch) ==
  [op |-> "save_client", batch |-> batch, then |-> "saved"]
SavingRoom(prev) == [op |-> "save_room", prev |-> prev, then |-> "nothing"]
Adding(events, prepend, then) ==
  [op |-> "add_events", events |-> events, prepend |-> prepend, then |-> then]
GettingPast(from) == [op |-> "get_past", from |-> from, then |-> "past"]

\* save_room_cb() does nothing but log.  The room is read when the worker gets
\* there: whether its state is known
Ran(task) ==
  CASE task.op = "save_client" -> SaveClient(db, task.batch, TRUE)
    [] task.op = "save_room"   ->
         SaveRoom(db, room, task.prev, "join", NULL, shown.synced)
    [] task.op = "add_events"  -> AddRoomEvents(db, room, task.events, task.prepend)
    [] task.op = "get_past"    -> GetPastEvents(db, room, task.from)

Work ==
  /\ queue # <<>>
  /\ LET run == Ran(Head(queue))
     IN  /\ db' = run.db
         /\ done' = IF Head(queue).then = "nothing" THEN done
                    ELSE Append(done, [task |-> Head(queue), result |-> run.result])
  /\ queue' = Tail(queue)
  /\ UNCHANGED <<history, client, shown, message>>

-----------------------------------------------------------------------------
(* The list of events.                                                     *)

\* The elements of a sequence that are in a set, in their order
Picked(events, set) ==
  LET P[n \in 0 .. Len(events)] ==
        IF n = 0 THEN <<>>
        ELSE IF events[n] \in set THEN Append(P[n - 1], events[n]) ELSE P[n - 1]
  IN  P[Len(events)]

\* remove_event_with_txn_id()
Removed(list, e) ==
  LET same == {i \in DOMAIN list : list[i].txn = e.txn}
  IN  IF ~e.message \/ e.txn = NULL \/ same = {} THEN list
      ELSE RemoveAt(list, Max(same))

\* ... for each of the events
WithoutEchoes(list, events) ==
  LET Left[n \in 0 .. Len(events)] ==
        IF n = 0 THEN list ELSE Removed(Left[n - 1], events[n])
  IN  Left[Len(events)]

\* "Remove events that matches the last event so as to avoid duplicates."
NotLast(list, events) ==
  IF list = <<>> THEN events
  ELSE Picked(events, {e \in Event : e.uid # Last(list).uid})

\* With past events taken for the oldest first
ShownForwards(list, events, append) ==
  IF append THEN list \o NotLast(list, events) ELSE NotLast(list, events) \o list

\* cm_room_event_list_add_events(): past events come newest first
Shown(list, events, append) ==
  IF append THEN list \o NotLast(list, events)
  ELSE Reverse(NotLast(list, events)) \o list

-----------------------------------------------------------------------------

NewRoom == [ list |-> <<>>, prev_batch |-> NULL, synced |-> FALSE,
             joined |-> FALSE, loading |-> "no", from |-> NULL ]

\* The client has logged in and has been stored
Init ==
  /\ history = [i \in DOMAIN Past |-> Posted(i, NULL, other, Past[i])]
  /\ client = [since |-> 0, sync |-> "listing", saving |-> "no", starts |-> 1,
               empty |-> 0]
  /\ shown = NewRoom
  /\ message = [x \in Txn |-> "new"]
  /\ db = SaveClient(Created(NoTables), NULL, TRUE).db
  /\ queue = <<>>
  /\ done = <<>>

\* Somebody else sends a message, or an event that is none
Post(isMessage) ==
  /\ Len(history) < MaxEvents
  /\ history' = Append(history, Posted(Len(history) + 1, NULL, other, isMessage))
  /\ UNCHANGED <<client, shown, message, db, queue, done>>

\* get_joined_rooms_cb(), with the room or without; cm_room_load_async()
RoomListed(found) ==
  /\ client.sync = "listing"
  /\ client' = [client EXCEPT !.sync = "waiting"]
  /\ shown' = IF ~found THEN shown
              ELSE [shown EXCEPT !.joined = TRUE,
                      !.loading = IF shown.synced \/ @ # "no" THEN @ ELSE "listed"]
  /\ UNCHANGED <<history, message, db, queue, done>>

\* matrix_take_red_pill_cb() with the events from first on.  The token is saved
\* before the events.
SyncDone(first) ==
  LET last   == Len(history)
      limited == first > client.since + 1
      events == SubSeq(history, first, last)
      list   == WithoutEchoes(shown.list, events)
      new    == NotLast(list, events)
      prev   == IF limited THEN first - 1 ELSE shown.prev_batch
  IN  /\ client.sync = "waiting"
      /\ first \in client.since + 1 .. last
      /\ limited => LimitedSyncs \/ client.since = 0
      /\ client' = [client EXCEPT !.since = last,
                      !.sync = IF new = <<>> THEN "waiting" ELSE "storing",
                      !.saving = IF @ = "no" THEN "saving" ELSE "pending"]
      /\ shown' = [shown EXCEPT !.list = Shown(list, events, TRUE), !.prev_batch = prev,
                                !.joined = TRUE, !.synced = TRUE]
      /\ queue' = queue
           \o (IF client.saving = "no" THEN <<SavingClient(last)>> ELSE <<>>)
           \o <<SavingRoom(prev)>>
           \o (IF new = <<>> THEN <<>> ELSE <<Adding(new, FALSE, "next sync")>>)
      /\ UNCHANGED <<history, message, db, done>>

\* ... without events
SyncEmpty ==
  /\ client.sync = "waiting"
  /\ client.since = Len(history)
  /\ client.empty < MaxEmpty
  /\ client' = [client EXCEPT !.empty = @ + 1, !.saving = IF @ = "no" THEN "saving" ELSE "pending"]
  /\ queue' = IF client.saving = "no" THEN Append(queue, SavingClient(client.since)) ELSE queue
  /\ UNCHANGED <<history, shown, message, db, done>>

\* cm_room_send_text_async(): one message at a time
Send(x) ==
  /\ shown.joined
  /\ EmptySends \/ shown.list # <<>>
  /\ message[x] = "new"
  /\ \A y \in Txn : message[y] \in {"new", "sent", "failed"}
  /\ message' = [message EXCEPT ![x] = "storing"]
  /\ shown' = [shown EXCEPT !.list = Append(@, Echo(x))]
  /\ queue' = Append(queue, Adding(<<Echo(x)>>, FALSE, "send"))
  /\ UNCHANGED <<history, client, db, done>>

\* The server takes the message; its answer is under way
Accept(x) ==
  /\ message[x] = "sending"
  /\ Len(history) < MaxEvents
  /\ message' = [message EXCEPT ![x] = "accepted"]
  /\ history' = Append(history, Posted(Len(history) + 1, x, me, TRUE))
  /\ UNCHANGED <<client, shown, db, queue, done>>

\* With the id set before the event is stored again
HastySent(x) ==
  /\ message[x] = "accepted"
  /\ message' = [message EXCEPT ![x] = "restoring"]
  /\ queue' = Append(queue,
       Adding(<<[Echo(x) EXCEPT !.uid = CHOOSE i \in DOMAIN history : history[i].txn = x]>>,
              FALSE, "set id"))
  /\ UNCHANGED <<history, client, shown, db, done>>

\* send_cb(): "Set event after saving to db so that event id is not stored in db"
Sent(x) ==
  /\ message[x] = "accepted"
  /\ message' = [message EXCEPT ![x] = "restoring"]
  /\ queue' = Append(queue, Adding(<<Echo(x)>>, FALSE, "set id"))
  /\ UNCHANGED <<history, client, shown, db, done>>

\* send_cb() with an error, which may hide that the server took the message
SendFailed(x) ==
  /\ message[x] \in {"sending", "accepted"}
  /\ message' = [message EXCEPT ![x] = "failed"]
  /\ UNCHANGED <<history, client, shown, db, queue, done>>

UidOf(x) == (CHOOSE i \in DOMAIN history : history[i].txn = x)

-----------------------------------------------------------------------------
(* Loading the history.                                                    *)

\* cm_db_get_past_events_async() is given the event, but knows it by its ID
Oldest(list) == IF list = <<>> THEN NULL ELSE Head(list).uid

LoadPast ==
  /\ shown.joined
  /\ shown.loading = "no"
  /\ IF shown.synced
     THEN /\ shown' = [shown EXCEPT !.loading = "db"]
          /\ queue' = Append(queue, GettingPast(Oldest(shown.list)))
     ELSE shown' = [shown EXCEPT !.loading = "state"] /\ UNCHANGED queue
  /\ UNCHANGED <<history, client, message, db, done>>

\* get_room_state_cb(); room_load_sync_cb() goes on with the events
StateLoaded ==
  /\ shown.loading \in {"listed", "state"}
  /\ shown' = [shown EXCEPT !.synced = TRUE,
                            !.loading = IF @ = "state" THEN "db" ELSE "no"]
  /\ queue' = Append(queue, SavingRoom(shown.prev_batch)) \o
              IF shown.loading = "state" THEN <<GettingPast(Oldest(shown.list))>> ELSE <<>>
  /\ UNCHANGED <<history, client, message, db, done>>

\* The request for the state, or for events, fails
LoadFailed ==
  /\ shown.loading \in {"listed", "state", "server"}
  /\ shown' = [shown EXCEPT !.loading = "no"]
  /\ UNCHANGED <<history, client, message, db, queue, done>>

\* room_load_prev_batch_cb(): the answer to /messages, newest event first
Chunk == Reverse(SubSeq(history, Max({1, shown.from - ChunkSize + 1}), shown.from))

HistoryLoaded ==
  LET end  == shown.from - Len(Chunk)
      prev == IF end = shown.from THEN NULL ELSE end
      list == WithoutEchoes(shown.list, Chunk)
      new  == NotLast(list, Chunk)
  IN  /\ shown.loading = "server"
      /\ shown' = [shown EXCEPT !.prev_batch = prev, !.list = Shown(list, Chunk, FALSE),
                                !.loading = IF new = <<>> THEN "no" ELSE "storing"]
      /\ queue' = Append(queue, SavingRoom(prev))
                    \o (IF new = <<>> THEN <<>> ELSE <<Adding(new, TRUE, "loaded")>>)
      /\ UNCHANGED <<history, client, message, db, done>>

-----------------------------------------------------------------------------
(* What follows a task.                                                    *)

Follows(then) == done # <<>> /\ Head(done).task.then = then /\ done' = Tail(done)

\* With the flag reset after the save is repeated
LateClientSaved ==
  /\ Follows("saved")
  /\ client' = [client EXCEPT !.saving = "no"]
  /\ queue' = IF client.saving = "pending" THEN Append(queue, SavingClient(client.since))
              ELSE queue
  /\ UNCHANGED <<history, shown, message, db>>

\* db_save_cb(): "If settings changed when we were saving the current settings,
\* repeat."
ClientSaved ==
  /\ Follows("saved")
  /\ IF client.saving = "pending"
     THEN /\ client' = [client EXCEPT !.saving = "saving"]
          /\ queue' = Append(queue, SavingClient(client.since))
     ELSE client' = [client EXCEPT !.saving = "no"] /\ UNCHANGED queue
  /\ UNCHANGED <<history, shown, message, db>>

\* matrix_take_red_pill_cb() goes on
NextSync ==
  /\ Follows("next sync")
  /\ client' = [client EXCEPT !.sync = "waiting"]
  /\ UNCHANGED <<history, shown, message, db, queue>>

\* room_send_message_from_queue()
StartSending(x) ==
  /\ Follows("send")
  /\ Head(done).task.events[1].txn = x
  /\ message' = [message EXCEPT ![x] = "sending"]
  /\ UNCHANGED <<history, client, shown, db, queue>>

\* cm_event_set_id(), if the echo is still in the list
SetId(x) ==
  /\ Follows("set id")
  /\ Head(done).task.events[1].txn = x
  /\ message' = [message EXCEPT ![x] = "sent"]
  /\ shown' = [shown EXCEPT !.list =
                 [i \in DOMAIN @ |-> IF @[i] = Echo(x) THEN [@[i] EXCEPT !.uid = UidOf(x)]
                                     ELSE @[i]]]
  /\ UNCHANGED <<history, client, db, queue>>

\* room_prev_batch_cb()
HistoryStored ==
  /\ Follows("loaded")
  /\ shown' = [shown EXCEPT !.loading = "no"]
  /\ UNCHANGED <<history, client, message, db, queue>>

\* With loading_past_events reset only where nothing was found
PastLoadedOnce ==
  /\ Follows("past")
  /\ LET events == Head(done).result
     IN  shown' = IF events # <<>> THEN [shown EXCEPT !.list = Shown(@, events, FALSE)]
                  ELSE IF shown.prev_batch = NULL THEN [shown EXCEPT !.loading = "no"]
                  ELSE [shown EXCEPT !.loading = "server", !.from = shown.prev_batch]
  /\ UNCHANGED <<history, client, message, db, queue>>

\* room_get_past_db_events_cb(): what the database has, or the request for what
\* the server has
PastLoaded ==
  /\ Follows("past")
  /\ LET events == Head(done).result
     IN  shown' = IF events # <<>>
                  THEN [shown EXCEPT !.loading = "no", !.list = Shown(@, events, FALSE)]
                  ELSE IF shown.prev_batch = NULL THEN [shown EXCEPT !.loading = "no"]
                  ELSE [shown EXCEPT !.loading = "server", !.from = shown.prev_batch]
  /\ UNCHANGED <<history, client, message, db, queue>>

-----------------------------------------------------------------------------

\* A client that has no token yet gets an answer to the first /sync again
Place(token) == IF token = NULL THEN 0 ELSE token

UnderWay == {x \in Txn : message[x] \in {"storing", "sending", "accepted", "restoring"}}

\* The client ends and is loaded again by cm_db_load_client()
Restart ==
  /\ client.starts < MaxStarts
  /\ Crashes \/ (queue = <<>> /\ done = <<>>)
  /\ LET saved == LoadClient(db).result
     IN  /\ client' = [since |-> Place(saved.next_batch), sync |-> "listing", saving |-> "no",
                       starts |-> client.starts + 1, empty |-> client.empty]
         /\ shown' = IF room \notin DOMAIN saved.rooms THEN NewRoom
                     ELSE LET r == saved.rooms[room]
                          IN  [NewRoom EXCEPT !.list = r.last, !.prev_batch = r.prev_batch,
                                              !.synced = r.synced, !.joined = TRUE]
  /\ message' = [x \in Txn |-> IF x \in UnderWay THEN "failed" ELSE message[x]]
  /\ queue' = <<>> /\ done' = <<>>
  /\ UNCHANGED <<history, db>>

Answers ==
  \/ \E found \in BOOLEAN : RoomListed(found)
  \/ \E first \in 1 .. Len(history) : SyncDone(first)
  \/ SyncEmpty
Callback ==
  \/ ClientSaved \/ NextSync \/ HistoryStored \/ PastLoaded
  \/ \E x \in Txn : StartSending(x) \/ SetId(x)

Next ==
  \/ \E m \in BOOLEAN : Post(m)
  \/ \E found \in BOOLEAN : RoomListed(found)
  \/ \E first \in 1 .. Len(history) : SyncDone(first)
  \/ SyncEmpty
  \/ \E x \in Txn : Send(x) \/ Accept(x) \/ Sent(x) \/ SendFailed(x)
  \/ LoadPast \/ StateLoaded \/ HistoryLoaded \/ LoadFailed
  \/ Work
  \/ ClientSaved \/ NextSync \/ HistoryStored \/ PastLoaded
  \/ \E x \in Txn : StartSending(x) \/ SetId(x)
  \/ Restart

\* The worker takes what is queued, the main loop runs the callbacks, and the
\* server answers, if not the first time; the application goes on loading.
Takes == queue # <<>> /\ queue' = Tail(queue)
Fairness ==
  /\ WF_queue(Takes) /\ WF_vars(Callback) /\ WF_vars(Answers)
  /\ WF_vars(LoadPast) /\ SF_vars(StateLoaded) /\ SF_vars(HistoryLoaded)

Spec == Init /\ [][Next]_vars /\ Fairness

-----------------------------------------------------------------------------
(* Properties.                                                             *)

\* The types of the variables, and that a flag stands for each thing that is
\* under way: one save of the client, one storing of an answer, one loading of
\* the history and one storing of each message.
Pending == {queue[i] : i \in DOMAIN queue} \cup {done[i].task : i \in DOMAIN done}
TypeOK ==
  /\ Range(history) \subseteq Event /\ Range(shown.list) \subseteq Event
  /\ client.since \in 0 .. Len(history)
  /\ client.saving \in {"no", "saving", "pending"}
  /\ client.saving # "no" <=> \E t \in Pending : t.then = "saved"
  /\ client.sync \in {"listing", "waiting", "storing"}
  /\ client.sync = "storing" <=> \E t \in Pending : t.then = "next sync"
  /\ shown.loading \in {"no", "listed", "state", "db", "server", "storing"}
  /\ shown.loading = "db" <=> \E t \in Pending : t.then = "past"
  /\ shown.loading = "storing" <=> \E t \in Pending : t.then = "loaded"
  /\ \A x \in Txn : message[x] \in MessageStates

Messages(events) == Picked(events, {e \in Event : e.message})
SyncedHistory(first) == SubSeq(history, first, client.since)

\* What is shown of the messages that have been synced is an end of the history:
\* in the order of the server, each once, and without a gap, however echoes, the
\* answers of /sync, the database and the server contribute to the list.
ShownIsHistory ==
  \E first \in 1 .. client.since + 1 :
    Messages(shown.list) = Messages(SyncedHistory(first))

\* Once the tasks are done the rows of a room, in the order of sorted_id, are an
\* end of the history: what the token of the room does not name.  An echo is
\* stored only as long as its message has not been synced.
Settled ==
  queue = <<>> /\ done = <<>> /\ client.sync # "storing" /\ shown.loading # "storing"
SyncedTxns == {history[i].txn : i \in 1 .. client.since} \ {NULL}
StoredEvents ==
  LET rows == {row \in db.events[room] :
                 ~(row.event.uid = NULL /\ row.event.txn \notin SyncedTxns)}
      Nth(n) == CHOOSE row \in rows :
                  Cardinality({x \in rows : x.sorted_id < row.sorted_id}) = n - 1
  IN  [n \in 1 .. Cardinality(rows) |-> Nth(n).event]
StoredIsHistory ==
  Settled =>
    StoredEvents =
      SyncedHistory(1 + Place(shown.prev_batch))

\* An application that goes on loading past events gets to see the whole history,
\* and what is loaded once is not lost to a flag that is left behind.
HistoryIsShown ==
  <>[](client.since = Len(history) /\ Messages(shown.list) = Messages(history))
=============================================================================
