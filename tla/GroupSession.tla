----------------------------- MODULE GroupSession -----------------------------
(***************************************************************************)
(* The outbound group sessions of one encrypted room (src/src/cm-enc.c,    *)
(* src/src/cm-olm.c) and their rows in the database (src/src/cm-db.c).     *)
(*                                                                         *)
(* A session is a ratchet: each message takes its next index.  It is       *)
(* stored, pickled, after each message, and a room takes it up again after *)
(* a restart.  To store or to look one up, a call waits for the worker of  *)
(* the database and runs the main loop meanwhile, so that other callbacks  *)
(* run in the middle of it: calls is the stack of the calls that wait, and *)
(* only the last of them can return.                                       *)
(***************************************************************************)
EXTENDS Integers, Sequences, SequencesExt, FiniteSetsExt

CONSTANTS
  RotationCount,  \* rotation_period_msgs of the room
  Fails,          \* what may fail, see AllFails
  MaxSessions,    \* bound: the sessions created for the room
  MaxMessages,    \* bound: the messages the application sends
  MaxChanges,     \* bound: the devices removed and the members changed
  MaxStarts,      \* bound: the times the program is started again
  MaxDepth        \* bound: the calls that wait at the same time

AllFails == {"claim", "upload", "file",
             "save"}   \* the database: the result of cm_olm_save() is ignored

ASSUME GroupSessionAssumption ==
  /\ {RotationCount, MaxSessions, MaxMessages, MaxDepth} \subseteq Nat \ {0}
  /\ {MaxChanges, MaxStarts} \subseteq Nat
  /\ Fails \subseteq AllFails

VARIABLES
  room,    \* the fields of struct _CmRoom
  enc,     \* the group sessions of struct _CmEnc, with their CmOlm
  calls,   \* the calls that wait for the database, the innermost last
  db,      \* the worker of CmDb, its queue and the table "sessions"
  wire     \* what has left the program, and the counters of the bounds

vars == <<room, enc, calls, db, wire>>

Session == 1..MaxSessions
None == 0
Nothing == -1
Index == 0..MaxMessages
State == {"usable", "rotated", "invalidated"}   \* CmOlmState

Room ==
  [ queue   : 0..MaxMessages,   \* message_queue
    sending : {"no", "file",    \* is_sending_message: the file is uploaded first,
               "encrypting",    \* ... the session that encrypted it is stored,
               "sent"},         \* ... and the request is under way
    claimed : BOOLEAN,          \* keys_claimed, and no changed_users
    keys    : BOOLEAN,          \* one_time_keys is not empty
    busy    : {"no", "claim", "upload"},
    upload  : Session \cup {None},   \* the session whose key is on its way...
    from    : Index,                 \* ... from this index on
    checked : BOOLEAN ]              \* "olm-checked"

Enc ==
  [ key     : Session \cup {None},   \* out_group_room_session of the room
    out     : SUBSET Session,        \* out_group_sessions
    index   : [Session -> Index],    \* cm_olm_get_message_index() of each
    state   : [Session -> State],
    old     : SUBSET Session,        \* created_time is 0
    inbound : [Session -> Index \cup {Nothing}] ]  \* in_group_sessions: the first
                                                   \* index each can decrypt
Kind == {"out", "in"}   \* SESSION_MEGOLM_V1_OUT and SESSION_MEGOLM_V1_IN

Task ==
  [ at : 1..MaxDepth, kind : Kind \cup {"lookup"},
    session : Session \cup {None}, index : Index, state : State ]

Db ==
  [ queue   : Seq(Task),
    running : Seq(Task),   \* what the worker has taken from the queue
    row     : [Session -> [type : Kind \cup {"none"}, pickle : Kind, index : Index,
                           state : State]] ]

Frame ==
  [ call : {"encrypt", "set", "set_in", "rm", "lookup"},
    session : Session \cup {None}, index : Index, done : BOOLEAN ]

Wire ==
  [ shared  : [Session -> Index \cup {Nothing}],
    last    : [Session -> Index \cup {Nothing}],
    created : 0..MaxSessions,
    given   : 0..MaxMessages,
    changes : 0..MaxChanges,
    starts  : 0..MaxStarts ]

TypeOK ==
  /\ room \in Room
  /\ enc \in Enc
  /\ calls \in Seq(Frame) /\ Len(calls) <= MaxDepth
  /\ db \in Db
  /\ wire \in Wire

-----------------------------------------------------------------------------
(* The client's state w, a record of the room, the sessions, the calls that *)
(* wait, the tasks they wait for and the sessions created so far.           *)

Client == [room |-> room, enc |-> enc, calls |-> calls, queue |-> db.queue,
           created |-> wire.created]

\* What a step makes of the client; sends is what it hands to the network
\* meanwhile, a function of wire.
Becomes(w) ==
  /\ room' = w.room /\ enc' = w.enc /\ calls' = w.calls
  /\ db' = [db EXCEPT !.queue = w.queue]

MayFail(kind) == kind \in Fails
Top == calls[Len(calls)]

\* The main loop runs, in cm_db_wait_for_completion() or outside of any call.
Iterates == calls # <<>> => ~Top.done /\ Len(calls) < MaxDepth
Returns(call) == calls # <<>> /\ Top.call = call /\ Top.done

Wait(w, call, s, i) ==
  [w EXCEPT !.calls = Append(@, [call |-> call, session |-> s, index |-> i, done |-> FALSE])]

\* cm_olm_save() and cm_db_add_session(): the pickle and the state are taken at
\* once, and the task is put before all others.
Save(w, s, kind, index, state) ==
  [w EXCEPT !.queue = <<[at |-> Len(w.calls), kind |-> kind, session |-> s,
                         index |-> index, state |-> state]>> \o @]

SaveOut(w, s) == Save(w, s, "out", w.enc.index[s], w.enc.state[s])

\* cm_db_lookup_session(): the task is put behind all others.
Lookup(w) ==
  LET v == Wait(w, "lookup", None, 0)
  IN  [v EXCEPT !.queue = Append(@, [at |-> Len(v.calls), kind |-> "lookup", session |-> None,
                                     index |-> 0, state |-> "usable"])]

\* ma_enc_lookup_out_group_session(): the room's session, or None
OutSession(w) == IF w.enc.key \in w.enc.out THEN w.enc.key ELSE None

\* The pickle is taken before the message is encrypted.
EarlyEncrypted(w, late) ==
  LET s == OutSession(w)
      i == w.enc.index[s]
      v == SaveOut(Wait([w EXCEPT !.room.sending = "encrypting"], "encrypt", s, i), s)
  IN  [v EXCEPT !.enc.index[s] = i + 1]

\* cm_enc_encrypt_for_chat(): the session's next index, cm_olm_update_validity(),
\* and the session is stored before the message is sent.  Time may have run out.
Encrypted(w, late) ==
  LET s    == OutSession(w)
      i    == w.enc.index[s]
      over == late \/ s \in w.enc.old \/ i + 1 >= RotationCount
      next == [w EXCEPT !.room.sending = "encrypting", !.enc.index[s] = i + 1,
                        !.enc.state[s] = IF over /\ @ = "usable" THEN "rotated" ELSE @]
  IN  SaveOut(Wait(next, "encrypt", s, i), s)

\* Without a session nothing is encrypted, and the request has no content.
Encrypt(w, late) ==
  IF OutSession(w) = None THEN [w EXCEPT !.room.sending = "sent"] ELSE Encrypted(w, late)

\* cm_enc_create_out_group_keys(): the room's session, or a new one that
\* cm_olm_out_group_new() makes and nobody knows of before its key is uploaded;
\* the key is that of the next message.
UploadKeys(w) ==
  LET old == OutSession(w)
      s   == IF old = None THEN w.created + 1 ELSE old
  IN  IF s \notin Session THEN w
      ELSE [w EXCEPT !.created = IF old = None THEN s ELSE @, !.room.busy = "upload",
                     !.room.upload = s, !.room.from = w.enc.index[s]]

\* ensure_encryption_keys(): members, devices and one-time keys, in one step
\* here, and then the upload
EnsureKeys(w) ==
  IF w.room.busy # "no" THEN w
  ELSE IF ~w.room.claimed THEN [w EXCEPT !.room.busy = "claim"]
  ELSE IF w.room.keys THEN UploadKeys(w)
  ELSE w

\* room_send_message_from_queue(), once it knows whether the room has a session
Proceed(w, found, file, late) ==
  IF ~found \/ ~w.room.claimed \/ w.room.keys THEN EnsureKeys(w)
  ELSE LET next == [w EXCEPT !.room.queue = @ - 1]
       IN  IF file THEN [next EXCEPT !.room.sending = "file"] ELSE Encrypt(next, late)

\* Without a look at is_sending_message
HastySend(w, file, late) ==
  IF w.room.queue = 0 THEN w
  ELSE IF w.enc.key = None /\ ~w.room.checked THEN Lookup(w)
  ELSE Proceed(w, OutSession(w) # None, file, late)

\* Without a look at the length of the queue
EmptySend(w, file, late) ==
  IF w.room.sending # "no" THEN w
  ELSE IF w.enc.key = None /\ ~w.room.checked THEN Lookup(w)
  ELSE Proceed(w, OutSession(w) # None, file, late)

\* ... and from its beginning, with cm_enc_has_room_group_key(): the database is
\* asked only if the room has none, and once
SendFromQueue(w, file, late) ==
  IF w.room.queue = 0 \/ w.room.sending # "no" THEN w
  ELSE IF w.enc.key = None /\ ~w.room.checked THEN Lookup(w)
  ELSE Proceed(w, OutSession(w) # None, file, late)

\* The step ends with a look at the queue.
GoesOn(w) ==
  \E file, late \in BOOLEAN : LET v == SendFromQueue(w, file, late)
                              IN  Becomes(v) /\ wire' = [wire EXCEPT !.created = v.created]

-----------------------------------------------------------------------------
(* Calls that return.                                                      *)

Returned(w) == [w EXCEPT !.calls = Front(@)]

\* The session is stored, and the message is handed to the network.
EncryptReturns ==
  /\ Returns("encrypt")
  /\ Becomes([Returned(Client) EXCEPT !.room.sending = "sent"])
  /\ wire' = [wire EXCEPT !.last[Top.session] = Top.index]

\* cm_enc_set_room_group_key(): the session is stored, and then its inbound
\* pair, which is usable whatever the session is
SetReturns ==
  /\ Returns("set")
  /\ LET s == Top.session
         v == Wait(Returned(Client), "set_in", s, 0)
     IN  Becomes(Save(v, s, "in", enc.inbound[s], "usable"))
  /\ UNCHANGED wire

\* The upload is answered; the room is busy with it until its session is set.
NoUpload(w) == [w EXCEPT !.room.upload = None, !.room.from = 0]

\* room_upload_keys_cb()
KeysSet(w) == [NoUpload(w) EXCEPT !.room.busy = "no", !.room.keys = FALSE]

SetInReturns == Returns("set_in") /\ GoesOn(KeysSet(Returned(Client)))

\* The end of cm_enc_rm_room_group_key(): whatever session the room has by now
\* is taken from it.
Removed(w) == [w EXCEPT !.enc.key = None, !.room.claimed = FALSE]

RmReturns ==
  /\ Returns("rm")
  /\ Becomes(Removed(Returned(Client)))
  /\ UNCHANGED wire

\* cm_enc_has_room_group_key() with what it found: the session, with no time of
\* creation, and an inbound pair that begins at the index the session has now
LookupReturns ==
  /\ Returns("lookup")
  /\ \E file, late \in BOOLEAN :
       LET s == Top.session
           v == [Returned(Client) EXCEPT !.room.checked = TRUE]
           known == [v EXCEPT !.enc.key = s, !.enc.out = @ \cup {s}, !.enc.index[s] = Top.index,
                              !.enc.state[s] = "usable", !.enc.old = @ \cup {s},
                              !.enc.inbound[s] = Top.index]
           next == Proceed(IF s = None THEN v ELSE known, s # None, file, late)
       IN  Becomes(next) /\ wire' = [wire EXCEPT !.created = next.created]

-----------------------------------------------------------------------------
(* The worker of the database.                                             *)

WorkerTakes ==
  /\ db.running = <<>> /\ db.queue # <<>>
  /\ db' = [db EXCEPT !.queue = Tail(@), !.running = <<Head(db.queue)>>]
  /\ UNCHANGED <<room, enc, calls, wire>>

\* db_add_session(): a row is the session's, whatever its type: the conflict
\* replaces the pickle and the state, and leaves the type.
Stored(row, task) ==
  [type |-> IF row.type = "none" THEN task.kind ELSE row.type,
   pickle |-> task.kind, index |-> task.index, state |-> task.state]

WorkerStores ==
  \E task \in ToSet(db.running) :
    /\ task.kind \in Kind
    /\ calls' = [calls EXCEPT ![task.at].done = TRUE]
    /\ \/ db' = [db EXCEPT !.running = <<>>, !.row[task.session] = Stored(@, task)]
       \/ MayFail("save") /\ db' = [db EXCEPT !.running = <<>>]
    /\ UNCHANGED <<room, enc, wire>>

\* The rows db_lookup_session() finds for the room
Rows == {s \in Session : db.row[s].type = "out" /\ db.row[s].state = "usable"}

\* Only the last of them is tried; a pickle of the other kind is no session.
Latest == IF Rows = {} THEN None
          ELSE LET s == Max(Rows) IN IF db.row[s].pickle = "out" THEN s ELSE None

WorkerLooksUp ==
  \E task \in ToSet(db.running) :
    /\ task.kind = "lookup"
    /\ calls' = [calls EXCEPT ![task.at].done = TRUE, ![task.at].session = Latest,
                   ![task.at].index = IF Latest = None THEN 0 ELSE db.row[Latest].index]
    /\ db' = [db EXCEPT !.running = <<>>]
    /\ UNCHANGED <<room, enc, wire>>

-----------------------------------------------------------------------------
(* Answers of the server, the application and the sync loop.               *)

\* room_claim_keys_cb()
KeysClaimed ==
  /\ Iterates /\ room.busy = "claim"
  /\ LET w == [Client EXCEPT !.room.busy = "no"]
     IN  \/ GoesOn([w EXCEPT !.room.claimed = TRUE, !.room.keys = TRUE])
         \/ MayFail("claim") /\ Becomes(w) /\ UNCHANGED wire

\* upload_group_keys_cb() and cm_enc_set_room_group_key(): the room has the
\* session that was uploaded, though it was invalidated meanwhile
KeysUploaded ==
  /\ Iterates /\ room.upload # None
  /\ LET s == room.upload
         w == [NoUpload(Client) EXCEPT !.enc.key = s, !.enc.out = @ \cup {s},
                             !.enc.inbound[s] = IF @ = Nothing THEN 0 ELSE @]
     IN  IF OutSession(Client) = s
         THEN \E file, late \in BOOLEAN :
                LET next == SendFromQueue(KeysSet(Client), file, late)
                IN  /\ Becomes(next)
                    /\ wire' = [wire EXCEPT !.shared[s] = room.from, !.created = next.created]
         ELSE /\ Becomes(SaveOut(Wait(w, "set", s, 0), s))
              /\ wire' = [wire EXCEPT !.shared[s] = room.from]

\* The session is set though the upload failed.
CarelessUploadFailed ==
  /\ Iterates /\ room.upload # None /\ MayFail("upload")
  /\ LET s == room.upload
         w == [NoUpload(Client) EXCEPT !.enc.key = s, !.enc.out = @ \cup {s}]
     IN  Becomes([w EXCEPT !.room.busy = "no", !.room.keys = FALSE])
  /\ UNCHANGED wire

\* The same, with an error.
UploadFailed ==
  /\ Iterates /\ room.upload # None /\ MayFail("upload")
  /\ Becomes([NoUpload(Client) EXCEPT !.room.busy = "no"])
  /\ UNCHANGED wire

\* room_send_file_cb(): the event is encrypted only now
FileUploaded ==
  /\ Iterates /\ room.sending = "file"
  /\ \/ \E late \in BOOLEAN : Becomes(Encrypt(Client, late)) /\ UNCHANGED wire
     \/ MayFail("file") /\ GoesOn([Client EXCEPT !.room.sending = "no"])

\* send_cb()
MessageSent ==
  /\ Iterates /\ room.sending = "sent"
  /\ Becomes([Client EXCEPT !.room.sending = "no"])
  /\ UNCHANGED wire

\* cm_room_send_text_async() and cm_room_send_file_async()
Send ==
  /\ Iterates /\ wire.given < MaxMessages
  /\ \E file, late \in BOOLEAN :
       LET w == SendFromQueue([Client EXCEPT !.room.queue = @ + 1], file, late)
       IN  /\ Becomes(w)
           /\ wire' = [wire EXCEPT !.given = @ + 1, !.created = w.created]

\* room_user_changed() for a removed device, with cm_enc_rm_room_group_key()
DeviceRemoved ==
  /\ Iterates /\ wire.changes < MaxChanges
  /\ wire' = [wire EXCEPT !.changes = @ + 1]
  /\ LET s == OutSession(Client)
         w == [Client EXCEPT !.enc.out = @ \ {s},
                             !.enc.state[s] = IF @ = "usable" THEN "invalidated" ELSE @]
     IN  IF s = None THEN Becomes(Removed(Client))
         ELSE Becomes(SaveOut(Wait(w, "rm", s, 0), s))

\* cm_room_user_changed(), and a member the sync loop brings
MembersChanged ==
  /\ Iterates /\ wire.changes < MaxChanges /\ room.claimed
  /\ wire' = [wire EXCEPT !.changes = @ + 1]
  /\ Becomes([Client EXCEPT !.room.claimed = FALSE])

-----------------------------------------------------------------------------

NewRoom == [queue |-> 0, sending |-> "no", claimed |-> FALSE, keys |-> FALSE, busy |-> "no",
            upload |-> None, from |-> 0, checked |-> FALSE]

NewEnc == [key |-> None, out |-> {}, index |-> [s \in Session |-> 0],
           state |-> [s \in Session |-> "usable"], old |-> {},
           inbound |-> [s \in Session |-> Nothing]]

Init ==
  /\ room = NewRoom /\ enc = NewEnc /\ calls = <<>>
  /\ db = [queue |-> <<>>, running |-> <<>>,
           row |-> [s \in Session |-> [type |-> "none", pickle |-> "out", index |-> 0,
                                       state |-> "usable"]]]
  /\ wire = [shared |-> [s \in Session |-> Nothing], last |-> [s \in Session |-> Nothing],
             created |-> 0, given |-> 0, changes |-> 0, starts |-> 0]

\* The program ends, at any time, and starts again with what the database has.
Restart ==
  /\ wire.starts < MaxStarts
  /\ room' = NewRoom /\ enc' = NewEnc /\ calls' = <<>>
  /\ db' = [db EXCEPT !.queue = <<>>, !.running = <<>>]
  /\ wire' = [wire EXCEPT !.starts = @ + 1]

Return == EncryptReturns \/ SetReturns \/ SetInReturns \/ RmReturns \/ LookupReturns
Worker == WorkerTakes \/ WorkerStores \/ WorkerLooksUp
Answer == KeysClaimed \/ KeysUploaded \/ UploadFailed \/ FileUploaded \/ MessageSent

Next == Return \/ Worker \/ Answer \/ Send \/ DeviceRemoved \/ MembersChanged \/ Restart

Spec == Init /\ [][Next]_vars

-----------------------------------------------------------------------------
(* What must hold.                                                         *)

\* The session a start would take up is ahead of every message that was sent
\* with it: a message is on its way only once the session is stored, and no
\* older pickle is stored over a newer one, in whatever order the calls that
\* wait put their tasks before those of the others.
SavedIsAhead ==
  \A s \in Session :
    db.row[s].type = "out" /\ db.row[s].pickle = "out" /\ db.row[s].state = "usable"
      => db.row[s].index > wire.last[s]

\* The key that is uploaded is still that of the next message when the answer
\* comes: nothing is encrypted while a room's key is on its way.
UploadIsCurrent ==
  room.upload # None =>
    room.sending \notin {"file", "encrypting"} /\ room.from = enc.index[room.upload]

Sessions == INSTANCE Ratchet WITH MaxIndex <- MaxMessages,
                                  shared <- wire.shared, last <- wire.last

\* No index of a session is used for two messages, and none before its key was
\* shared, over all starts: the room implements Ratchet.
ImplementsRatchet == Sessions!Spec

-----------------------------------------------------------------------------
(* What comments of the code say, and the code does not do: see README.md. *)

\* A message is encrypted.
Encrypts == room'.sending = "encrypting" /\ room.sending # "encrypting"

\* cm_enc_has_room_group_key(): "This should be checked before sending each
\* message as self may rotate the key after certain count or time".  A session
\* that was rotated or invalidated is not used for another message.
UsableEncrypts ==
  [][Encrypts => enc.state[enc'.key] = "usable"]_vars

\* cm_enc_rm_room_group_key(): "The in session pair of the same is not removed
\* as it may be useful to decrypt yet to receive messages".  The client can
\* decrypt what it sent last with each session, from memory or from the database.
OwnAreReadable ==
  \A s \in Session : wire.last[s] # Nothing =>
    \/ enc.inbound[s] \in 0..wire.last[s]
    \/ enc.inbound[s] = Nothing /\ db.row[s].type = "in" /\ db.row[s].index <= wire.last[s]

===============================================================================
