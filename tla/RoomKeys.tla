------------------------------- MODULE RoomKeys -------------------------------
(***************************************************************************)
(* Sending in encrypted rooms: the message queue of CmRoom                 *)
(* (src/src/cm-room.c), the device lists CmUserList keeps for all rooms of *)
(* a client (src/src/users/cm-user-list.c), and the outbound group session *)
(* CmEnc holds for a room (src/src/cm-enc.c).                              *)
(*                                                                         *)
(* Before a room sends, it walks through four requests, each started by    *)
(* the callback of the one before: load the members, load the devices of   *)
(* the members that changed, claim a one-time key for each device, upload  *)
(* the session's key to those devices.  The device requests of all rooms   *)
(* share one queue, and one request is under way at a time.  Meanwhile the *)
(* sync loop brings users whose devices changed, and members that come and *)
(* go.                                                                     *)
(***************************************************************************)
EXTENDS Integers, Sequences, SequencesExt

CONSTANTS
  Room,
  NoRoom,      \* no device request is under way (current_request is NULL)
  User,
  Me,          \* the user of this client
  Device,
  Owner,       \* the user of each device
  MembersOf,   \* who the server says has joined each room
  MaxMessages, \* bound: the messages queued in one room
  MaxChanges,  \* bound: the devices added and removed on the server
  Files,       \* the messages that are files; the others are text
  Events,      \* what else the sync loop brings: "join", "leave", "encryption"
  Fails        \* the requests that may fail, see AllFails

AllFails == {"members", "query", "claim", "upload", "file", "send",
             "omit",     \* the server leaves users out of the answer to a query
             "no_keys"}  \* the server has no one-time key left for a device

ASSUME RoomKeysAssumption ==
  /\ NoRoom \notin Room
  /\ IsFiniteSet(User) /\ Me \in User
  /\ Owner \in [Device -> User]
  /\ MembersOf \in [Room -> SUBSET User]
  /\ MaxMessages \in Nat
  /\ MaxChanges \in Nat
  /\ Files \subseteq 1..MaxMessages
  /\ Events \subseteq {"join", "leave", "encryption"}
  /\ Fails \subseteq AllFails

VARIABLES
  room,    \* the fields of each struct _CmRoom
  list,    \* the fields of struct _CmUserList, with the devices of its CmUsers
  server   \* external: what the homeserver knows

vars == <<room, list, server>>

Message == 1..MaxMessages

Rooms ==
  [ encrypted       : BOOLEAN,
    members         : SUBSET User,      \* joined_members
    members_loaded  : BOOLEAN,
    changed_users   : SUBSET User,
    changed_devices : SUBSET Device,
    keys_claimed    : BOOLEAN,
    one_time_keys   : SUBSET Device,    \* the devices a one-time key was claimed for
    busy     : SUBSET {"members", "query", "claim", "upload"},  \* joined_members_loading,
                                        \* querying_keys, claiming_keys, uploading_keys
    loaded   : BOOLEAN,         \* the load of devices ended without a request
    claim    : SUBSET Device,   \* what the claim in flight asks for...
    refused  : BOOLEAN,         \* ... or the claim was refused
    upload   : SUBSET Device,   \* who holds the session after the upload in flight
    has_key  : BOOLEAN,         \* CmEnc has an outbound group session for the room
    holders  : SUBSET Device,   \* the devices its key was uploaded to
    queue    : Seq(Message),    \* message_queue
    sending  : Message \cup {0},   \* the message is_sending_message stands for
    uploading: BOOLEAN,         \* its file is being uploaded
    finished : Seq([msg : Message, ok : BOOLEAN]) ]

List ==
  [ known  : [User -> SUBSET Device],   \* cm_user_get_devices()
    changed: SUBSET User,               \* changed_users
    queue  : Seq(Room),                 \* device_request_queue
    current: Room \cup {NoRoom},        \* current_request, is_requesting_device
    asked  : SUBSET User,               \* the users of the request in flight
    read   : BOOLEAN,                   \* the server has answered it...
    answer : [User -> SUBSET Device] ]  \* ... with these devices

Server ==
  [ devices: [User -> SUBSET Device],
    unseen : SUBSET User,    \* users the next /sync says have changed devices
    changes: 0..MaxChanges ]

TypeOK ==
  /\ room \in [Room -> Rooms]
  /\ list \in List
  /\ server \in Server

DevicesOf(u) == {d \in Device : Owner[d] = u}
KnownDevices(l, users) == UNION {l.known[u] : u \in users}

-----------------------------------------------------------------------------
(* CmUserList.  A call or callback takes the client's state w, a record of *)
(* the rooms and the list, to the next one.                                *)

Client == [room |-> room, list |-> list]
Becomes(w) == room' = w.room /\ list' = w.list

\* request_device_keys_from_queue(): the users leave changed_users, so that
\* they are there again if they change while the request is under way
StartRequest(w) ==
  IF w.list.current # NoRoom \/ w.list.queue = <<>> THEN w
  ELSE LET r     == Head(w.list.queue)
           users == w.room[r].changed_users
       IN  [w EXCEPT !.list.queue = Tail(@), !.list.current = r, !.list.asked = users,
                     !.list.changed = @ \ users, !.list.read = FALSE]

\* remove_unlisted_users(): users whose devices are known and have not changed.
\* A user in the request that is under way is not looked for: the code looks
\* for the pointer to the user ID in an array of pointers to users.
Unlisted(l, users) == {u \in users : u \notin l.changed /\ l.known[u] # {}}

\* A load that needs no request, and never calls back.
SilentLoadDevices(w, r) ==
  LET users == w.room[r].changed_users \ Unlisted(w.list, w.room[r].changed_users)
      next  == [w EXCEPT !.room[r].changed_users = users]
  IN  StartRequest(IF users = {} THEN next ELSE [next EXCEPT !.list.queue = Append(@, r)])

\* cm_user_list_load_devices_async (list, room->changed_users): the array is
\* the room's own, so what is removed from one is removed from the other
LoadDevices(w, r) ==
  LET users == w.room[r].changed_users \ Unlisted(w.list, w.room[r].changed_users)
      next  == [w EXCEPT !.room[r].changed_users = users]
  IN  StartRequest(IF users = {} THEN [next EXCEPT !.room[r].loaded = TRUE]
                   ELSE [next EXCEPT !.list.queue = Append(@, r)])

\* room_user_changed().  What changed_devices had of the user is replaced, not
\* extended: it is looked up with the user, and inserted with the user's ID.
room_user_changed(rm, u, added, removed) ==
  IF ~rm.encrypted \/ u \notin rm.members THEN rm
  ELSE IF removed # {}
  THEN [rm EXCEPT !.has_key = FALSE, !.holders = {}, !.keys_claimed = FALSE,
                  !.changed_users = rm.members, !.changed_devices = {}]
  ELSE IF added # {}
  THEN [rm EXCEPT !.changed_devices = (@ \ DevicesOf(u)) \cup added]
  ELSE rm

\* One user of the answer to r's request: cm_user_set_devices(), the signal to
\* every room, and the user is removed from the array of the request.
UserLoaded(w, r, u) ==
  LET old == w.list.known[u]
      new == w.list.answer[u]
      told == [q \in Room |-> room_user_changed(w.room[q], u, new \ old, old \ new)]
  IN  [ room |-> [told EXCEPT ![r].changed_users = @ \ {u}],
        list |-> [w.list EXCEPT !.known[u] = new] ]

\* The users leave changed_users at the end of the request too, with what
\* changed while it was under way.
LateNoRequest(w) ==
  [w EXCEPT !.list.current = NoRoom, !.list.asked = {}, !.list.read = FALSE,
            !.list.answer = [u \in User |-> {}], !.list.changed = @ \ w.list.asked]

NoRequest(w) ==
  [w EXCEPT !.list.current = NoRoom, !.list.asked = {}, !.list.read = FALSE,
            !.list.answer = [u \in User |-> {}]]

\* A request that ends without a look at the queue
LastRequest(w) == NoRequest(w)

\* The end of device_keys_query_cb(), in which the next request is sent
EndRequest(w) == StartRequest(NoRequest(w))

-----------------------------------------------------------------------------
(* CmRoom.                                                                 *)

\* cm_user_list_claim_keys_async(), for the devices that were added since the
\* last claim if there are any, and else for all devices of all members
ClaimKeys(w, r) ==
  LET rm      == w.room[r]
      added   == rm.changed_devices
      devices == IF added # {} THEN added ELSE KnownDevices(w.list, rm.members)
      users   == IF added # {} THEN {Owner[d] : d \in added} ELSE rm.members
      refused == users \cap w.list.changed # {}
  IN  [w EXCEPT !.room[r].busy = {"claim"}, !.room[r].changed_devices = {},
                !.room[r].refused = refused,
                !.room[r].claim = IF refused THEN {} ELSE devices]

\* cm_user_list_upload_keys_async(), with cm_enc_create_out_group_keys(): the
\* room's session, or a new one if it has none
UploadKeys(w, r) ==
  [w EXCEPT !.room[r].busy = {"upload"},
            !.room[r].upload = w.room[r].holders \cup w.room[r].one_time_keys]

\* Without a look at the requests that are under way
HastyEnsureKeys(w, r) ==
  LET rm == w.room[r]
  IN  IF ~rm.members_loaded THEN [w EXCEPT !.room[r].busy = {"members"}]
      ELSE IF rm.changed_users # {}
      THEN LoadDevices([w EXCEPT !.room[r].busy = {"query"},
                                 !.room[r].keys_claimed = FALSE], r)
      ELSE IF ~rm.keys_claimed \/ rm.changed_devices # {} THEN ClaimKeys(w, r)
      ELSE IF rm.one_time_keys # {} THEN UploadKeys(w, r)
      ELSE w

ensure_encryption_keys(w, r) ==
  LET rm == w.room[r]
  IN  IF rm.busy # {} THEN w
      ELSE IF ~rm.members_loaded THEN [w EXCEPT !.room[r].busy = {"members"}]
      ELSE IF rm.changed_users # {}
      THEN LoadDevices([w EXCEPT !.room[r].busy = {"query"},
                                 !.room[r].keys_claimed = FALSE], r)
      ELSE IF ~rm.keys_claimed \/ rm.changed_devices # {} THEN ClaimKeys(w, r)
      ELSE IF rm.one_time_keys # {} THEN UploadKeys(w, r)
      ELSE w

NeedsKeys(rm) ==
  ~rm.has_key \/ rm.changed_users # {} \/ ~rm.keys_claimed \/ rm.one_time_keys # {}

\* Without a look at is_sending_message
HastySend(w, r) ==
  LET rm == w.room[r]
  IN  IF rm.queue = <<>> THEN w
      ELSE IF rm.encrypted /\ NeedsKeys(rm) THEN ensure_encryption_keys(w, r)
      ELSE [w EXCEPT !.room[r].queue = Tail(@), !.room[r].sending = Head(rm.queue),
                     !.room[r].uploading = Head(rm.queue) \in Files]

room_send_message_from_queue(w, r) ==
  LET rm == w.room[r]
  IN  IF rm.queue = <<>> \/ rm.sending # 0 THEN w
      ELSE IF rm.encrypted /\ NeedsKeys(rm) THEN ensure_encryption_keys(w, r)
      ELSE [w EXCEPT !.room[r].queue = Tail(@), !.room[r].sending = Head(rm.queue),
                     !.room[r].uploading = Head(rm.queue) \in Files]

\* room_find_user() for a user that is not listed as a member yet
FindUser(rm, users) ==
  [rm EXCEPT !.members = @ \cup users,
             !.changed_users = IF rm.encrypted THEN @ \cup (users \ rm.members) ELSE @]

\* The request of this kind ends for room r.
Ended(w, r, kind) == [w EXCEPT !.room[r].busy = @ \ {kind}]

MayFail(kind) == kind \in Fails

-----------------------------------------------------------------------------
(* Answers.                                                                *)

\* get_joined_members_cb()
MembersLoaded(r) ==
  /\ "members" \in room[r].busy
  /\ LET w == Ended(Client, r, "members")
         found == [w EXCEPT !.room[r] = [FindUser(@, MembersOf[r]) EXCEPT !.members_loaded = TRUE]]
     IN  \/ Becomes(room_send_message_from_queue(found, r))
         \/ MayFail("members") /\ Becomes(w)
  /\ UNCHANGED server

\* The server reads the device lists a request asks for (external).
ServerAnswers ==
  /\ list.current # NoRoom /\ ~list.read
  /\ list' = [list EXCEPT !.read = TRUE,
                !.answer = [u \in User |-> IF u \in list.asked THEN server.devices[u] ELSE {}]]
  /\ UNCHANGED <<room, server>>

\* The users of the answer to r's request, in its order
UsersLoaded(r, order) ==
  LET Loaded[n \in 0..Len(order)] ==
        IF n = 0 THEN Client ELSE UserLoaded(Loaded[n - 1], r, order[n])
  IN  Loaded[Len(order)]

\* device_keys_query_cb(), then room_load_device_keys_cb()
DevicesLoaded(r) ==
  /\ list.current = r /\ list.read
  /\ \E users \in IF MayFail("omit") THEN SUBSET list.asked ELSE {list.asked} :
       \E order \in SetToSeqs(users) :
         LET w == EndRequest(UsersLoaded(r, order))
         IN  Becomes(room_send_message_from_queue(Ended(w, r, "query"), r))
  /\ UNCHANGED server

\* The same, with an error: the users of the array are marked as changed again.
LoadFailed(r) ==
  /\ list.current = r /\ MayFail("query")
  /\ LET w == [Client EXCEPT !.list.changed = @ \cup room[r].changed_users]
     IN  Becomes(Ended(EndRequest(w), r, "query"))
  /\ UNCHANGED server

\* room_load_device_keys_cb() for a load with nothing to load
NothingToLoad(r) ==
  /\ room[r].loaded
  /\ LET w == [Client EXCEPT !.room[r].loaded = FALSE]
     IN  Becomes(room_send_message_from_queue(Ended(w, r, "query"), r))
  /\ UNCHANGED server

\* claim_keys_cb() and room_claim_keys_cb().  The server gives a key for each
\* device it has, and for one it removed only later; a device the client has
\* dropped meanwhile is ignored.
KeysClaimed(r) ==
  LET known == room[r].claim \cap KnownDevices(list, User)
      given == {d \in known : d \in server.devices[Owner[d]]}
  IN /\ "claim" \in room[r].busy /\ ~room[r].refused
     /\ \E keys \in SUBSET known :
          /\ MayFail("no_keys") \/ given \subseteq keys
          /\ LET w == [Client EXCEPT !.room[r].one_time_keys = keys,
                         !.room[r].keys_claimed = TRUE, !.room[r].claim = {}]
             IN  Becomes(room_send_message_from_queue(Ended(w, r, "claim"), r))
     /\ UNCHANGED server

\* room_claim_keys_cb() with an error: the devices to claim for are forgotten
ClaimFailed(r) ==
  /\ "claim" \in room[r].busy
  /\ room[r].refused \/ MayFail("claim")
  /\ Becomes(Ended([Client EXCEPT !.room[r].one_time_keys = {}, !.room[r].claim = {},
                                  !.room[r].refused = FALSE], r, "claim"))
  /\ UNCHANGED server

\* upload_group_keys_cb(), with cm_enc_set_room_group_key(), and room_upload_keys_cb()
KeysUploaded(r) ==
  /\ "upload" \in room[r].busy
  /\ LET w == Ended([Client EXCEPT !.room[r].upload = {}], r, "upload")
         set == [w EXCEPT !.room[r].has_key = TRUE, !.room[r].holders = room[r].upload,
                          !.room[r].one_time_keys = {}]
     IN  \/ Becomes(room_send_message_from_queue(set, r))
         \/ MayFail("upload") /\ Becomes(w)
  /\ UNCHANGED server

Returned(w, r, ok) ==
  [w EXCEPT !.room[r].sending = 0, !.room[r].uploading = FALSE,
            !.room[r].finished = Append(@, [msg |-> w.room[r].sending, ok |-> ok])]

\* room_send_file_cb(): the event is encrypted only now
FileUploaded(r) ==
  /\ room[r].uploading
  /\ \/ Becomes([Client EXCEPT !.room[r].uploading = FALSE])
     \/ MayFail("file") /\ Becomes(room_send_message_from_queue(Returned(Client, r, FALSE), r))
  /\ UNCHANGED server

\* A message that returns when none is being sent
EarlyMessageSent(r) ==
  /\ ~room[r].uploading
  /\ \E ok \in BOOLEAN : (ok \/ MayFail("send")) /\ Becomes(Returned(Client, r, ok))
  /\ UNCHANGED server

\* send_cb(), which does not go on with the queue
MessageSent(r) ==
  /\ room[r].sending # 0 /\ ~room[r].uploading
  /\ \E ok \in BOOLEAN : (ok \/ MayFail("send")) /\ Becomes(Returned(Client, r, ok))
  /\ UNCHANGED server

-----------------------------------------------------------------------------
(* The application and the sync loop.                                      *)

Queued(r) == Len(room[r].queue) + Len(room[r].finished) + IF room[r].sending = 0 THEN 0 ELSE 1

\* cm_room_send_text_async() and cm_room_send_file_async()
Send(r) ==
  /\ Queued(r) < MaxMessages
  /\ LET rm == FindUser(room[r], {Me})
         w == [Client EXCEPT !.room[r] = [rm EXCEPT !.queue = Append(@, Queued(r) + 1)]]
     IN  Becomes(room_send_message_from_queue(w, r))
  /\ UNCHANGED server

\* cm_room_load_joined_members_async()
LoadMembers(r) ==
  /\ ~room[r].members_loaded /\ "members" \notin room[r].busy
  /\ Becomes([Client EXCEPT !.room[r].busy = @ \cup {"members"}])
  /\ UNCHANGED server

\* The sync loop brings an event: cm_room_event_list_parse_events() takes its
\* sender for a member; of a member that leaves cm_room_update_user() drops.
MemberSeen(r) ==
  /\ "join" \in Events
  /\ \E u \in User \ room[r].members : Becomes([Client EXCEPT !.room[r] = FindUser(@, {u})])
  /\ UNCHANGED server

MemberLeft(r) ==
  /\ "leave" \in Events
  /\ \E u \in room[r].members \ {Me} : Becomes([Client EXCEPT !.room[r].members = @ \ {u}])
  /\ UNCHANGED server

EncryptionEnabled(r) ==
  /\ "encryption" \in Events
  /\ ~room[r].encrypted
  /\ Becomes([Client EXCEPT !.room[r].encrypted = TRUE])
  /\ UNCHANGED server

\* A user adds or removes a device (external).
DeviceChanged(d) ==
  LET u == Owner[d]
  IN /\ server.changes < MaxChanges
     /\ server' = [server EXCEPT !.changes = @ + 1, !.unseen = @ \cup {u},
                     !.devices[u] = IF d \in @ THEN @ \ {d} ELSE @ \cup {d}]
     /\ UNCHANGED <<room, list>>

\* handle_device_list(): cm_user_list_device_changed(), then
\* cm_room_user_changed() for every room
ChangesSeen ==
  /\ server.unseen # {}
  /\ room' = [r \in Room |->
       [room[r] EXCEPT !.changed_users =
          IF room[r].encrypted THEN @ \cup (server.unseen \cap room[r].members) ELSE @]]
  /\ list' = [list EXCEPT !.changed = @ \cup server.unseen]
  /\ server' = [server EXCEPT !.unseen = {}]

-----------------------------------------------------------------------------

\* The rooms as cm_room_new() leaves them, encrypted or not yet.
NewRooms ==
  [ encrypted: BOOLEAN, members: {{}}, members_loaded: {FALSE}, changed_users: {{}},
    changed_devices: {{}}, keys_claimed: {FALSE}, one_time_keys: {{}}, busy: {{}},
    loaded: {FALSE}, claim: {{}}, refused: {FALSE}, upload: {{}}, has_key: {FALSE},
    holders: {{}}, queue: {<<>>}, sending: {0}, uploading: {FALSE}, finished: {<<>>} ]

Init ==
  /\ room \in [Room -> NewRooms]
  /\ \A r \in Room : "encryption" \notin Events => room[r].encrypted
  /\ list = [ known |-> [u \in User |-> {}], changed |-> {}, queue |-> <<>>,
              current |-> NoRoom, asked |-> {}, read |-> FALSE,
              answer |-> [u \in User |-> {}] ]
  /\ server \in [ devices: [User -> SUBSET Device], unseen: {{}}, changes: {0} ]
  /\ \A u \in User : server.devices[u] # {} /\ server.devices[u] \subseteq DevicesOf(u)

Answer(r) ==
  \/ MembersLoaded(r) \/ DevicesLoaded(r) \/ LoadFailed(r) \/ NothingToLoad(r)
  \/ KeysClaimed(r) \/ ClaimFailed(r) \/ KeysUploaded(r)
  \/ FileUploaded(r) \/ MessageSent(r)

Next ==
  \/ \E r \in Room : Answer(r)
  \/ ServerAnswers
  \/ \E r \in Room : Send(r) \/ LoadMembers(r) \/ MemberSeen(r) \/ MemberLeft(r)
                       \/ EncryptionEnabled(r)
  \/ \E d \in Device : DeviceChanged(d)
  \/ ChangesSeen

Spec == Init /\ [][Next]_vars

-----------------------------------------------------------------------------
(* What must hold.                                                         *)

Waits(r) == {i \in 1..Len(list.queue) : list.queue[i] = r}

\* A room that loads devices waits for exactly one thing: its turn in the
\* queue, the request that is under way, or the callback of a load that needed
\* none.  No room is forgotten, and no request ends for a room twice.
QueriesAreAnswered ==
  \A r \in Room :
    /\ \A i, j \in Waits(r) : i = j
    /\ "query" \in room[r].busy <=> Waits(r) # {} \/ list.current = r \/ room[r].loaded
    /\ ~(Waits(r) # {} /\ list.current = r)
    /\ room[r].loaded => Waits(r) = {} /\ list.current # r

\* The steps towards a key are taken one at a time, and a room whose turn comes
\* still has users to ask for: request_device_keys_from_queue() never leaves a
\* current_request behind that the next request would find (its g_assert).
OneStepAtATime ==
  /\ \A r \in Room : \A a, b \in room[r].busy : a = b
  /\ list.current # NoRoom => list.asked # {}
  /\ list.current = NoRoom => list.queue = <<>>

BeingLoaded(u) ==
  u \in list.asked /\ (list.read => list.answer[u] = server.devices[u])

\* The device lists are never wrong unnoticed: where the devices a client knows
\* of a user are not the user's devices, the user is marked as changed, the next
\* /sync will say so, or a request that has not been answered yet, or has with
\* the right devices, is under way.
StaleDevicesAreMarked ==
  \A u \in User :
    list.known[u] # {} /\ list.known[u] # server.devices[u]
      => u \in list.changed \cup server.unseen \/ BeingLoaded(u)

Messages == INSTANCE Outbox WITH waiting  <- [r \in Room |-> room[r].queue],
                                 sending  <- [r \in Room |-> room[r].sending],
                                 finished <- [r \in Room |-> room[r].finished]

\* Each message is sent once, in the order of the calls: the rooms implement Outbox.
ImplementsOutbox == Messages!Spec

(* Under fairness: every request is answered in the end.                   *)
Fairness ==
  /\ WF_vars(ServerAnswers)
  /\ \A r \in Room : WF_vars(Answer(r))
FairSpec == Spec /\ Fairness

\* A message that is queued in a room is sent in the end.
QueuedIsSent ==
  \A r \in Room : room[r].queue # <<>> ~> room[r].queue = <<>>

-----------------------------------------------------------------------------
(* What comments of the code say, and the code does not do: see README.md. *)

\* The room encrypts a message: a text when it is taken from the queue, a file
\* after it was uploaded.
Encrypts(r) ==
  /\ room'[r].encrypted /\ room'[r].sending # 0 /\ ~room'[r].uploading
  /\ room'[r].sending # room[r].sending \/ room[r].uploading

\* room_user_changed(): "If any device got removed, create a new key and
\* invalidate old".  No message is encrypted with a session whose key went to a
\* device that is known to be removed.
RemovedDeviceHasOldKey ==
  [][ \A r \in Room : Encrypts(r) => room'[r].holders \subseteq KnownDevices(list', User) ]_vars

===============================================================================
