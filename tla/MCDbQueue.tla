------------------------------- MODULE MCDbQueue -------------------------------
\* DbQueue with one account, one user and one room, and each kind of call.
EXTENDS DbQueue

CONSTANTS u, r, dev, inbound, outbound, f, t1, t2, e1, e2, x

Echo(txn) ==
  [uid |-> NULL, txn |-> txn, sender |-> u, message |-> FALSE, replaces |-> NULL]
Message(id, txn, of) ==
  [uid |-> id, txn |-> txn, sender |-> u, message |-> TRUE, replaces |-> of]

\* A file of the current version with an account and a room, one of version 1,
\* one of a version to come, and none
Current == SaveRoom(SaveClient(Created(NoTables), t1, TRUE).db, r, t1, "join", NULL, TRUE).db
MCFiles == {NoTables, Current, [Current EXCEPT !.version = 1],
            [Current EXCEPT !.version = 3]}

Calls ==
  {SaveClientCall(t, TRUE) : t \in {t1, t2}} \cup
  {SaveRoomCall(r, t, "join", NULL, TRUE) : t \in {t1, t2}} \cup
  {AddSessionCall(z, r, TRUE) : z \in {inbound, outbound}} \cup
  {MarkUserDeviceChangeCall({u}, TRUE),
   UpdateUserDevicesCall(u, {dev}, {}, FALSE),
   UpdateDeviceCall(u, dev, TRUE),
   AddRoomEventsCall(r, <<Echo(x)>>, FALSE),
   AddRoomEventsCall(r, <<Message(e2, NULL, e1), Message(e1, x, NULL)>>, TRUE),
   GetPastEventsCall(r, NULL),
   LoadClientCall, DeleteClientCall, SaveFileEncCall(f), FindFileEncCall(f),
   LookupSessionCall(inbound), LookupRoomSessionCall(r), LookupOlmSessionCall(inbound)}

\* The third call is one that sees or settles what the others have done
MCRequests ==
  <<Calls, Calls,
    {req \in Calls : \/ req.op = "lookup_session"
                     \/ req.op = "save_room" /\ req.prev = t2}>>
=============================================================================
