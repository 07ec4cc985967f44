----------------------------- MODULE TimelineProofs -----------------------------
(***************************************************************************)
(* The events of a room: what is true of the tables, of the tasks and of   *)
(* the list in every state, for any history, page size, number of          *)
(* messages and number of starts.                                          *)
(*                                                                         *)
(* Stored says that the rows are a piece of the history, from lo to hi, in *)
(* its order, and that what is still in the queue adds the pieces next to  *)
(* it.  Listed says the same of the list, whose oldest event is at start.  *)
(***************************************************************************)
EXTENDS TimelineTypes

-----------------------------------------------------------------------------
(* What is stored.                                                         *)

\* The rows are the events after lo up to hi, in their order, and echoes of
\* messages that are none of these.
Piece(rows, h, lo, hi) ==
  /\ \A row \in rows : row.event.uid # NULL =>
       row.event.uid \in lo + 1 .. hi /\ row.event = h[row.event.uid]
  /\ \A u \in lo + 1 .. hi : \E row \in rows : row.event.uid = u
  /\ \A a, b \in rows : a.event.uid # NULL /\ b.event.uid # NULL =>
       (a.event.uid < b.event.uid <=> a.sorted_id < b.sorted_id)
  /\ \A row \in rows : row.event.uid = NULL =>
       /\ row.event.txn \in Txn /\ row.event = Echo(row.event.txn)
       /\ \A i \in DOMAIN h : h[i].txn = row.event.txn => i > hi

\* What a queue still adds to the rows: what was synced last, up to the token since,
\* and what was loaded last, from the token prev on
Adds(q, h, since, prev, lo, hi) ==
  /\ "next sync" \notin Thens(q) => hi = since
  /\ "loaded" \notin Thens(q) => lo = prev
  /\ \A i \in DOMAIN q :
       /\ q[i].then = "next sync" => q[i].events = SubSeq(h, hi + 1, since)
       /\ q[i].then = "loaded" => q[i].events = Reverse(SubSeq(h, prev + 1, lo))

Rest(lo, hi) ==
  /\ lo \in Nat /\ hi \in lo .. client.since /\ Place(shown.prev_batch) <= lo
  /\ Adds(queue, history, client.since, Place(shown.prev_batch), lo, hi)

\* The room is stored, or will be, and it is before its events are.
HasRoom(q, rooms) == room \in rooms \/ \E i \in DOMAIN q : q[i].op = "save_room"
RoomsFirst(q, rooms) ==
  \A i \in DOMAIN q : q[i].op = "add_events" =>
    room \in rooms \/ \E j \in 1 .. i - 1 : q[j].op = "save_room"
RoomFirst ==
  /\ client.since > 0 => HasRoom(queue, db.rooms)
  /\ RoomsFirst(queue, db.rooms)
  /\ room \in db.rooms => room \notin db.replaced /\ db.state[room] = "join"

\* The last save of the room has its token.
RoomSaves(q, stored, prev) ==
  /\ (\A i \in DOMAIN q : q[i].op # "save_room") => stored = prev
  /\ \A i \in DOMAIN q :
       q[i].op = "save_room" /\ (\A j \in i + 1 .. Len(q) : q[j].op # "save_room")
         => q[i].prev = prev

\* The last save of the client has its token, or another one is to follow.
ClientSaves(q, saving, stored, since) ==
  /\ saving = "no" => Place(stored) = since
  /\ saving = "saving" =>
       /\ \A i \in DOMAIN q : q[i].op = "save_client" => q[i].batch = since
       /\ (\A i \in DOMAIN q : q[i].op # "save_client") => Place(stored) = since

Saves ==
  /\ RoomSaves(queue, db.prev_batch[room], shown.prev_batch)
  /\ ClientSaves(queue, client.saving, db.next_batch, client.since)

\* Before the first answer of /sync there is nothing, and the first one has events
Fresh ==
  /\ history # <<>>
  /\ client.since = 0 =>
       /\ shown.prev_batch = NULL /\ shown.list = <<>> /\ shown.loading # "server"
       /\ db.next_batch = NULL /\ db.events[room] = {} /\ client.saving = "no"
       /\ \A i \in DOMAIN queue : queue[i].op \notin {"add_events", "save_client"}
       /\ \A i \in DOMAIN done : /\ done[i].task.op # "add_events"
                                 /\ done[i].task.then = "past" => done[i].result = <<>>
       /\ \A x \in Txn : message[x] = "new"

\* Loading goes on from where the token is, and our messages are later.
Tokened(lo) ==
  /\ client.since > 0 => Place(shown.prev_batch) < client.since
  /\ room \notin db.rooms => db.prev_batch[room] = NULL
  /\ shown.loading = "server" => shown.from = shown.prev_batch
  /\ \A i \in DOMAIN history : history[i].txn # NULL => i > lo

\* An event of the history between two tokens
IsSynced(e, h, from, to) == e.uid \in from + 1 .. to /\ e = h[e.uid]

\* The echo of a message that the token does not name
IsEcho(e, h, since) ==
  /\ e.txn \in Txn /\ ~e.message
  /\ e.uid # NULL => e.uid \in DOMAIN h /\ h[e.uid].txn = e.txn
  /\ \A i \in 1 .. since : h[i].txn # e.txn

\* Events that have been synced, and echoes of messages that have not.  What is
\* found in the tables has been synced.
Contents ==
  /\ \A i \in DOMAIN shown.list :
       \/ IsSynced(shown.list[i], history, Place(shown.prev_batch), client.since)
       \/ /\ IsEcho(shown.list[i], history, client.since)
          /\ message[shown.list[i].txn] # "new"
  /\ Distinct(shown.list)
  /\ \A i \in DOMAIN done : done[i].task.then = "past" =>
       \A k \in DOMAIN done[i].result :
         IsSynced(done[i].result[k], history, Place(shown.prev_batch), client.since)

Stored(lo, hi) ==
  /\ Piece(db.events[room], history, lo, hi) /\ Rest(lo, hi)
  /\ RoomFirst /\ Saves /\ Fresh /\ Tokened(lo) /\ Contents

StoreInv == TypeInv /\ \E lo, hi \in Nat : Stored(lo, hi)

-----------------------------------------------------------------------------
(* What is shown.                                                          *)

\* No message from one place of the history to another
Quiet(h, from, to) == \A i \in from .. to : ~h[i].message

\* The messages from one place of the history to another
Between(h, from, to) == Messages(SubSeq(h, from, to))

\* The list begins with the event at start, has every message since then, and is
\* preceded by none unless it begins with one.
Whole(list, h, prev, since, start) ==
  /\ start \in prev + 1 .. since + 1
  /\ IF list = <<>> THEN start = since + 1 ELSE start <= since /\ list[1] = h[start]
  /\ \A i \in DOMAIN list : IsSynced(list[i], h, start - 1, since) \/ IsEcho(list[i], h, since)
  /\ Messages(list) = Between(h, start, since)
  /\ Quiet(h, prev + 1, start - 1) \/ (start <= since /\ h[start].message)

\* The database is asked for what is before start, by the event at start or, as there
\* is none, by the last row, which is the one before it.
AsksFor(from, start, to) == IF from = NULL THEN start = to + 1 ELSE from = start /\ start <= to

\* The rows reach up to the token when it is asked, or up to an answer of /sync that
\* is stored later.
Asked(q, list, since, start) ==
  /\ list = <<>> => "next sync" \notin Thens(q)
  /\ \A i \in DOMAIN q : q[i].then = "past" =>
       /\ (\A j \in DOMAIN q : j > i => q[j].then # "next sync") => AsksFor(q[i].from, start, since)
       /\ \A j \in DOMAIN q : j > i /\ q[j].then = "next sync" =>
            AsksFor(q[i].from, start, since - Len(q[j].events))

\* The messages before start, from one of them on, or none if there are none
IsPage(past, h, prev, start) ==
  \E g \in prev + 1 .. start :
    /\ past = Reverse(Between(h, g, start - 1))
    /\ IF past = <<>> THEN Quiet(h, prev + 1, start - 1) ELSE g < start /\ h[g].message

\* What the database has answered; if it was nothing the server is asked.
Answered(dn, h, prev, start, loading) ==
  /\ \A i \in DOMAIN dn : dn[i].task.then = "past" => IsPage(dn[i].result, h, prev, start)
  /\ loading = "server" => Quiet(h, prev + 1, start - 1)

\* The rows of a room come after the room.
NoRoom(d) == room \notin d.rooms => d.events[room] = {}

Listed(start) ==
  /\ Whole(shown.list, history, Place(shown.prev_batch), client.since, start)
  /\ Asked(queue, shown.list, client.since, start)
  /\ Answered(done, history, Place(shown.prev_batch), start, shown.loading)
  /\ NoRoom(db)

ListInv == StoreInv /\ \E start \in Nat : Listed(start)

-----------------------------------------------------------------------------
(* A piece of the history in the tables.                                   *)

\* The IDs of a history
LEMMA Places ==
  ASSUME NEW h, IsHistory(h)
  PROVE  /\ Len(h) \in Nat /\ DOMAIN h = 1 .. Len(h) /\ h \in Seq(Plain)
         /\ \A i \in 1 .. Len(h) :
              /\ h[i] \in Plain /\ h[i].uid = i /\ i # NULL /\ i \in Uid
              /\ h[i].txn # NULL => h[i].message
         /\ \A i, j \in 1 .. Len(h) : h[i].txn = h[j].txn /\ h[i].txn # NULL => i = j
<1>1. Len(h) \in Nat /\ DOMAIN h = 1 .. Len(h) /\ h \in Seq(Plain) /\ Len(h) <= MaxEvents
  BY DEF IsHistory
<1>2. \A i \in 1 .. Len(h) : i \in Uid /\ i # NULL
  BY <1>1, HistoryAssumption, BoundsAssumption, NamesAssumption
<1> QED BY <1>1, <1>2 DEF IsHistory

\* A part of the history is what it was when there is one event more.
LEMMA PartGrows ==
  ASSUME NEW h, IsHistory(h), NEW e \in Plain, NEW g, g = Append(h, e), NEW from \in Nat,
         NEW to \in 0 .. Len(h), from > 0
  PROVE  SubSeq(g, from, to) = SubSeq(h, from, to)
<1>1. h \in Seq(Plain) /\ Len(h) \in Nat
  BY Places
<1>2. /\ g \in Seq(Plain) /\ Len(g) = Len(h) + 1
      /\ \A i \in 1 .. Len(h) : g[i] = h[i]
  BY <1>1
<1>3. PICK s, t : s = SubSeq(h, from, to) /\ t = SubSeq(g, from, to)
  OBVIOUS
<1>4. /\ s \in Seq(Plain) /\ t \in Seq(Plain) /\ Len(s) = Len(t)
      /\ \A i \in 1 .. Len(s) : s[i] = h[from + i - 1] /\ t[i] = g[from + i - 1]
                                /\ from + i - 1 \in 1 .. Len(h)
  BY <1>1, <1>2, <1>3
<1>5. \A i \in 1 .. Len(s) : s[i] = t[i]
  BY <1>2, <1>4
<1>6. s = t
  BY <1>4, <1>5, SameSeq
<1> QED BY <1>3, <1>6

\* The rows are the same piece of a history that has got longer.
LEMMA PieceGrows ==
  ASSUME NEW h, IsHistory(h), NEW lo \in Nat, NEW hi \in Nat, hi <= Len(h), NEW rows,
         Piece(rows, h, lo, hi), NEW g, NEW e, Longer(g, h, e)
  PROVE  Piece(rows, g, lo, hi)
<1>1. Len(h) \in Nat /\ DOMAIN h = 1 .. Len(h) /\ DOMAIN g = 1 .. Len(h) + 1
      /\ \A i \in 1 .. Len(h) : g[i] = h[i]
  BY Places DEF Longer
<1>2. \A u \in lo + 1 .. hi : g[u] = h[u]
  BY <1>1
<1>3. ASSUME NEW row \in rows, row.event.uid = NULL, NEW i \in DOMAIN g,
             g[i].txn = row.event.txn
      PROVE  i > hi
  <2>1. CASE i \in 1 .. Len(h)
    BY <1>1, <1>3, <2>1 DEF Piece
  <2>2. CASE i = Len(h) + 1
    BY <1>1, <2>2
  <2> QED BY <1>1, <2>1, <2>2
<1> QED BY <1>2, <1>3 DEF Piece

\* The next event is added behind the rows; its echo goes.
LEMMA AppendNext ==
  ASSUME NEW h, IsHistory(h), NEW lo \in Nat, NEW hi \in Nat, lo <= hi, hi < Len(h),
         NEW rows, Piece(rows, h, lo, hi), IsRows(rows), NEW s \in Int,
         \A row \in rows : s > row.sorted_id, NEW new, Entered(rows, h[hi + 1], s, new)
  PROVE  Piece(new, h, lo, hi + 1)
<1>1. /\ Len(h) \in Nat /\ DOMAIN h = 1 .. Len(h)
      /\ \A i \in 1 .. Len(h) : h[i].uid = i /\ i # NULL
      /\ \A i, j \in 1 .. Len(h) : h[i].txn = h[j].txn /\ h[i].txn # NULL => i = j
  BY Places
<1>2. PICK e : e = h[hi + 1]
  OBVIOUS
<1>3. hi + 1 \in 1 .. Len(h) /\ e.uid = hi + 1 /\ e.uid # NULL
  BY <1>1, <1>2
<1>4. PICK kept : kept = But(rows, e.txn)
  OBVIOUS
<1>5. /\ kept \subseteq rows /\ \A row \in rows : row.event.uid # NULL => row \in kept
      /\ \A row \in kept : row.event.uid = NULL /\ e.txn # NULL => row.event.txn # e.txn
  BY <1>4 DEF But
<1>6. \A row \in rows : row.event.uid # NULL =>
        /\ row.event.uid \in lo + 1 .. hi /\ row.event = h[row.event.uid]
        /\ row.event.uid \in 1 .. Len(h) /\ row.event.uid # hi + 1
  BY <1>1 DEF Piece
<1>7. ~Stands(kept, e)
  <2>1. ASSUME NEW row \in kept, row.event.uid = e.uid PROVE FALSE
    BY <1>3, <1>5, <1>6, <2>1
  <2>2. ASSUME NEW row \in kept, e.txn # NULL, row.event.txn = e.txn PROVE FALSE
    <3>1. row.event.uid # NULL
      BY <1>5, <2>2
    <3>2. h[row.event.uid].txn = h[hi + 1].txn
      BY <1>2, <1>5, <1>6, <2>2, <3>1
    <3> QED BY <1>1, <1>2, <1>3, <1>5, <1>6, <2>2, <3>1, <3>2
  <2> QED BY <2>1, <2>2 DEF Stands
<1>8. PICK r : new = kept \cup {r} /\ r.event = e /\ r.sorted_id = s
  BY <1>2, <1>4, <1>7 DEF Entered
<1>9. \A u \in lo + 1 .. hi + 1 : u \in lo + 1 .. hi \/ u = hi + 1
  OBVIOUS
<1>10. \A row \in new : row.event.uid # NULL =>
         row.event.uid \in lo + 1 .. hi + 1 /\ row.event = h[row.event.uid]
  <2>1. \A u \in lo + 1 .. hi : u \in lo + 1 .. hi + 1
    OBVIOUS
  <2>2. hi + 1 \in lo + 1 .. hi + 1
    OBVIOUS
  <2> QED BY <1>2, <1>3, <1>5, <1>6, <1>8, <2>1, <2>2
<1>11. \A u \in lo + 1 .. hi + 1 : \E row \in new : row.event.uid = u
  <2>1. ASSUME NEW u \in lo + 1 .. hi PROVE \E row \in new : row.event.uid = u
    <3>1. PICK row \in rows : row.event.uid = u
      BY DEF Piece
    <3>2. u # NULL
      BY <1>1
    <3> QED BY <1>5, <1>8, <3>1, <3>2
  <2>2. \E row \in new : row.event.uid = hi + 1
    BY <1>3, <1>8
  <2> QED BY <1>9, <2>1, <2>2
<1>12. \A a, b \in new : a.event.uid # NULL /\ b.event.uid # NULL =>
         (a.event.uid < b.event.uid <=> a.sorted_id < b.sorted_id)
  <2>1. \A row \in kept : row.event.uid # NULL =>
          row.event.uid \in Int /\ row.event.uid < hi + 1 /\ row.sorted_id \in Int
          /\ row.sorted_id < s
    BY <1>5, <1>6 DEF IsRows
  <2>2. \A a, b \in kept : a.event.uid # NULL /\ b.event.uid # NULL =>
          (a.event.uid < b.event.uid <=> a.sorted_id < b.sorted_id)
    BY <1>5 DEF Piece
  <2> SUFFICES ASSUME NEW a \in new, NEW b \in new, a.event.uid # NULL, b.event.uid # NULL
               PROVE  a.event.uid < b.event.uid <=> a.sorted_id < b.sorted_id
    OBVIOUS
  <2>3. CASE a \in kept /\ b \in kept
    BY <2>2, <2>3
  <2>4. CASE a \in kept /\ b = r
    BY <1>3, <1>8, <2>1, <2>4
  <2>5. CASE a = r /\ b \in kept
    BY <1>3, <1>8, <2>1, <2>5
  <2>6. CASE a = r /\ b = r
    BY <1>3, <1>8, <2>6
  <2> QED BY <1>8, <2>3, <2>4, <2>5, <2>6
<1>13. ASSUME NEW row \in new, row.event.uid = NULL
       PROVE  /\ row.event.txn \in Txn /\ row.event = Echo(row.event.txn)
              /\ \A i \in DOMAIN h : h[i].txn = row.event.txn => i > hi + 1
  <2>1. row \in kept /\ row \in rows
    BY <1>3, <1>5, <1>8, <1>13
  <2>2. /\ row.event.txn \in Txn /\ row.event = Echo(row.event.txn)
        /\ \A i \in DOMAIN h : h[i].txn = row.event.txn => i > hi
    BY <1>13, <2>1 DEF Piece
  <2>3. row.event.txn # NULL
    BY <2>2, NamesAssumption
  <2>4. h[hi + 1].txn # row.event.txn
    BY <1>2, <1>5, <1>13, <2>1, <2>3
  <2>5. \A i \in DOMAIN h : h[i].txn = row.event.txn => i > hi + 1
    BY <1>1, <2>2, <2>4
  <2> QED BY <2>2, <2>5
<1> QED BY <1>10, <1>11, <1>12, <1>13 DEF Piece

\* The event before is added in front of the rows; it is not one of our messages.
LEMMA PrependNext ==
  ASSUME NEW h, IsHistory(h), NEW lo \in Nat, NEW hi \in Nat, lo <= hi, hi <= Len(h), lo > 0,
         h[lo].txn = NULL,
         NEW rows, Piece(rows, h, lo, hi), IsRows(rows), NEW s \in Int,
         \A row \in rows : s < row.sorted_id, NEW new, Entered(rows, h[lo], s, new)
  PROVE  Piece(new, h, lo - 1, hi)
<1>1. /\ Len(h) \in Nat /\ DOMAIN h = 1 .. Len(h)
      /\ \A i \in 1 .. Len(h) : h[i].uid = i /\ i # NULL
  BY Places
<1>2. PICK e : e = h[lo]
  OBVIOUS
<1>3. lo \in 1 .. Len(h) /\ e.uid = lo /\ e.uid # NULL /\ e.txn = NULL
  BY <1>1, <1>2
<1>4. But(rows, e.txn) = rows
  BY <1>3 DEF But
<1>5. \A row \in rows : row.event.uid # NULL =>
        /\ row.event.uid \in lo + 1 .. hi /\ row.event = h[row.event.uid]
        /\ row.event.uid # lo
  BY DEF Piece
<1>6. ~Stands(rows, e)
  BY <1>3, <1>5 DEF Stands
<1>7. PICK r : new = rows \cup {r} /\ r.event = e /\ r.sorted_id = s
  BY <1>2, <1>4, <1>6 DEF Entered
<1>8. \A u \in (lo - 1) + 1 .. hi : u \in lo + 1 .. hi \/ u = lo
  OBVIOUS
<1>9. \A row \in new : row.event.uid # NULL =>
        row.event.uid \in (lo - 1) + 1 .. hi /\ row.event = h[row.event.uid]
  <2>1. \A u \in lo + 1 .. hi : u \in (lo - 1) + 1 .. hi
    OBVIOUS
  <2>2. lo \in (lo - 1) + 1 .. hi
    OBVIOUS
  <2> QED BY <1>2, <1>3, <1>5, <1>7, <2>1, <2>2
<1>10. \A u \in (lo - 1) + 1 .. hi : \E row \in new : row.event.uid = u
  <2>1. ASSUME NEW u \in lo + 1 .. hi PROVE \E row \in new : row.event.uid = u
    BY <1>7 DEF Piece
  <2>2. \E row \in new : row.event.uid = lo
    BY <1>3, <1>7
  <2> QED BY <1>8, <2>1, <2>2
<1>11. \A a, b \in new : a.event.uid # NULL /\ b.event.uid # NULL =>
         (a.event.uid < b.event.uid <=> a.sorted_id < b.sorted_id)
  <2>1. \A row \in rows : row.event.uid # NULL =>
          row.event.uid \in Int /\ row.event.uid > lo /\ row.sorted_id \in Int
          /\ row.sorted_id > s
    BY <1>5 DEF IsRows
  <2>2. \A a, b \in rows : a.event.uid # NULL /\ b.event.uid # NULL =>
          (a.event.uid < b.event.uid <=> a.sorted_id < b.sorted_id)
    BY DEF Piece
  <2> SUFFICES ASSUME NEW a \in new, NEW b \in new, a.event.uid # NULL, b.event.uid # NULL
               PROVE  a.event.uid < b.event.uid <=> a.sorted_id < b.sorted_id
    OBVIOUS
  <2>3. CASE a \in rows /\ b \in rows
    BY <2>2, <2>3
  <2>4. CASE a \in rows /\ b = r
    BY <1>3, <1>7, <2>1, <2>4
  <2>5. CASE a = r /\ b \in rows
    BY <1>3, <1>7, <2>1, <2>5
  <2>6. CASE a = r /\ b = r
    BY <1>3, <1>7, <2>6
  <2> QED BY <1>7, <2>3, <2>4, <2>5, <2>6
<1>12. ASSUME NEW row \in new, row.event.uid = NULL
       PROVE  /\ row.event.txn \in Txn /\ row.event = Echo(row.event.txn)
              /\ \A i \in DOMAIN h : h[i].txn = row.event.txn => i > hi
  <2>1. row \in rows
    BY <1>3, <1>7, <1>12
  <2> QED BY <1>12, <2>1 DEF Piece
<1> QED BY <1>9, <1>10, <1>11, <1>12 DEF Piece

\* An echo is added once more, unless its message is there.
LEMMA EchoAgain ==
  ASSUME NEW h, IsHistory(h), NEW lo \in Nat, NEW hi \in Nat, lo <= hi, hi <= Len(h),
         \A i \in DOMAIN h : h[i].txn # NULL => i > lo, NEW x \in Txn,
         NEW rows, Piece(rows, h, lo, hi), NEW s, NEW new, Entered(rows, Echo(x), s, new)
  PROVE  Piece(new, h, lo, hi)
<1>1. /\ Len(h) \in Nat /\ DOMAIN h = 1 .. Len(h)
      /\ \A i \in 1 .. Len(h) : i # NULL
  BY Places
<1>2. PICK e : e = Echo(x)
  OBVIOUS
<1>3. e.uid = NULL /\ e.txn = x /\ x # NULL
  BY <1>2, EchoIs
<1>4. PICK kept : kept = But(rows, e.txn)
  OBVIOUS
<1>5. kept \subseteq rows /\ \A row \in rows : row.event.uid # NULL => row \in kept
  BY <1>4 DEF But
<1>6. Piece(kept, h, lo, hi)
  <2>1. \A u \in lo + 1 .. hi : \E row \in kept : row.event.uid = u
    <3> SUFFICES ASSUME NEW u \in lo + 1 .. hi PROVE \E row \in kept : row.event.uid = u
      OBVIOUS
    <3>1. PICK row \in rows : row.event.uid = u
      BY DEF Piece
    <3>2. u # NULL
      BY <1>1
    <3> QED BY <1>5, <3>1, <3>2
  <2> QED BY <1>5, <2>1 DEF Piece
<1>7. CASE Stands(kept, e)
  <2>1. new = kept
    BY <1>2, <1>4, <1>7 DEF Entered
  <2> QED BY <1>6, <2>1
<1>8. CASE ~Stands(kept, e)
  <2>1. PICK r : new = kept \cup {r} /\ r.event = e
    BY <1>2, <1>4, <1>8 DEF Entered
  <2>2. ASSUME NEW i \in DOMAIN h, h[i].txn = x PROVE i > hi
    <3> SUFFICES ASSUME i <= hi PROVE FALSE
      BY <1>1
    <3>1. i > lo
      BY <1>3, <2>2
    <3>2. i \in lo + 1 .. hi /\ i # NULL
      BY <1>1, <3>1
    <3>3. PICK row \in kept : row.event.uid = i
      BY <1>6, <3>2 DEF Piece
    <3>4. row.event = h[i]
      BY <1>6, <3>2, <3>3 DEF Piece
    <3> QED BY <1>3, <1>8, <2>2, <3>3, <3>4 DEF Stands
  <2>3. r.event.uid = NULL /\ r.event.txn \in Txn /\ r.event = Echo(r.event.txn)
        /\ \A i \in DOMAIN h : h[i].txn = r.event.txn => i > hi
    BY <1>2, <1>3, <2>1, <2>2
  <2> QED BY <1>6, <2>1, <2>3 DEF Piece
<1> QED BY <1>7, <1>8

\* A part of the history, backwards
LEMMA PartBackwards ==
  ASSUME NEW h, IsHistory(h), NEW lo \in 0 .. Len(h), NEW from \in 0 .. lo
  PROVE  \E events \in Seq(Plain) :
           /\ events = Reverse(SubSeq(h, from + 1, lo)) /\ Len(events) = lo - from
           /\ \A k \in 1 .. lo - from : events[k] = h[lo - k + 1]
<1>1. Len(h) \in Nat
  BY Places
<1>2. PICK start : start = from + 1
  OBVIOUS
<1>3. PICK part : part = SubSeq(h, start, lo)
  OBVIOUS
<1>4. start \in Nat /\ start > 0
  BY <1>1, <1>2
<1>5. /\ SubSeq(h, start, lo) \in Seq(Plain)
      /\ Len(SubSeq(h, start, lo)) = IF start <= lo THEN lo - start + 1 ELSE 0
      /\ \A i \in 1 .. Len(SubSeq(h, start, lo)) :
           SubSeq(h, start, lo)[i] = h[start + i - 1] /\ start + i - 1 \in start .. lo
  BY <1>4, PartIs
<1>6. /\ part \in Seq(Plain) /\ Len(part) = IF start <= lo THEN lo - start + 1 ELSE 0
      /\ \A i \in 1 .. Len(part) : part[i] = h[start + i - 1]
  BY <1>3, <1>5
<1>7. PICK events : events = Reverse(part)
  OBVIOUS
<1>8. /\ events \in Seq(Plain) /\ Len(events) = Len(part)
      /\ \A i \in 1 .. Len(part) : events[i] = part[Len(part) - i + 1]
  BY <1>6, <1>7, Backwards
<1>9. Len(part) = lo - from
  BY <1>1, <1>2, <1>6
<1>10. ASSUME NEW k \in 1 .. lo - from PROVE events[k] = h[lo - k + 1]
  <2>1. /\ k \in 1 .. Len(part) /\ Len(part) - k + 1 \in 1 .. Len(part)
        /\ start + (Len(part) - k + 1) - 1 = lo - k + 1
    BY <1>1, <1>2, <1>9
  <2> QED BY <1>6, <1>8, <2>1
<1> QED BY <1>2, <1>3, <1>7, <1>8, <1>9, <1>10

\* The rows while events are added behind them, each at a place above
LEMMA RowsUp ==
  ASSUME NEW rows, IsRows(rows), NEW events \in Seq(Plain), NEW first \in Int,
         \A row \in rows : first > row.sorted_id, NEW R, RowsAre(R, rows, events, first, 1)
  PROVE  \A k \in 0 .. Len(events) : IsRows(R[k]) /\ \A row \in R[k] : first + k > row.sorted_id
<1>1. PICK prepend : prepend = FALSE
  OBVIOUS
<1>2. prepend \in BOOLEAN /\ ~prepend
  BY <1>1
<1>3. RowsAre(R, rows, events, first, IF prepend THEN -1 ELSE 1)
  BY <1>2
<1>4. \A row \in rows : IF prepend THEN first < row.sorted_id ELSE first > row.sorted_id
  BY <1>2
<1>5. \A k \in 0 .. Len(events) :
        /\ IsRows(R[k])
        /\ \A row \in R[k] : IF prepend THEN first - k < row.sorted_id
                             ELSE first + k > row.sorted_id
  BY <1>2, <1>3, <1>4, RowsTyped
<1> QED BY <1>2, <1>5

\* The same in front of them
LEMMA RowsDown ==
  ASSUME NEW rows, IsRows(rows), NEW events \in Seq(Plain), NEW first \in Int,
         \A row \in rows : first < row.sorted_id, NEW R, RowsAre(R, rows, events, first, -1)
  PROVE  \A k \in 0 .. Len(events) : IsRows(R[k]) /\ \A row \in R[k] : first - k < row.sorted_id
<1>1. PICK prepend : prepend = TRUE
  OBVIOUS
<1>2. prepend \in BOOLEAN /\ prepend
  BY <1>1
<1>3. RowsAre(R, rows, events, first, IF prepend THEN -1 ELSE 1)
  BY <1>2
<1>4. \A row \in rows : IF prepend THEN first < row.sorted_id ELSE first > row.sorted_id
  BY <1>2
<1>5. \A k \in 0 .. Len(events) :
        /\ IsRows(R[k])
        /\ \A row \in R[k] : IF prepend THEN first - k < row.sorted_id
                             ELSE first + k > row.sorted_id
  BY <1>2, <1>3, <1>4, RowsTyped
<1> QED BY <1>2, <1>5

\* The events that follow are added one after the other.
LEMMA Appended ==
  ASSUME NEW h, IsHistory(h), NEW lo \in Nat, NEW hi \in Nat, lo <= hi, NEW to \in hi .. Len(h),
         NEW rows, Piece(rows, h, lo, hi), IsRows(rows), NEW first \in Int,
         \A row \in rows : first > row.sorted_id,
         NEW events, events = SubSeq(h, hi + 1, to), NEW R, RowsAre(R, rows, events, first, 1)
  PROVE  Piece(R[Len(events)], h, lo, to)
<1>1. Len(h) \in Nat
  BY Places
<1>2. PICK n : n = to - hi
  OBVIOUS
<1>3. /\ events \in Seq(Plain) /\ Len(events) = n /\ n \in Nat /\ hi + n = to
      /\ \A k \in 0 .. n - 1 : events[k + 1] = h[hi + k + 1]
  <2>1. hi + 1 \in Nat /\ hi + 1 > 0 /\ to \in 0 .. Len(h)
    BY <1>1
  <2>2. /\ events \in Seq(Plain) /\ Len(events) = IF hi + 1 <= to THEN to - (hi + 1) + 1 ELSE 0
        /\ \A i \in 1 .. Len(events) : events[i] = h[(hi + 1) + i - 1]
    BY <2>1, PartIs
  <2>3. Len(events) = n /\ n \in Nat /\ hi + n = to
    BY <1>1, <1>2, <2>2
  <2>4. ASSUME NEW k \in 0 .. n - 1 PROVE events[k + 1] = h[hi + k + 1]
    <3>1. k + 1 \in 1 .. Len(events) /\ (hi + 1) + (k + 1) - 1 = hi + k + 1
      BY <2>3
    <3> QED BY <2>2, <3>1
  <2> QED BY <2>2, <2>3, <2>4
<1>4. \A k \in 0 .. n : IsRows(R[k]) /\ \A row \in R[k] : first + k > row.sorted_id
  BY <1>3, RowsUp
<1>5. R[0] = rows /\ \A k \in 0 .. n - 1 : Entered(R[k], h[hi + k + 1], first + k, R[k + 1])
  <2>1. /\ R[0] = rows
        /\ \A k \in 0 .. n - 1 : Entered(R[k], events[k + 1], first + k * 1, R[k + 1])
    BY <1>3 DEF RowsAre
  <2>2. \A k \in 0 .. n - 1 : k * 1 = k
    OBVIOUS
  <2> QED BY <1>3, <2>1, <2>2
<1> DEFINE T == {k \in Nat : k <= n => Piece(R[k], h, lo, hi + k)}
<1>6. 0 \in T
  BY <1>5
<1>7. ASSUME NEW k \in Nat, k \in T
      PROVE  k + 1 \in T
  <2> SUFFICES ASSUME k + 1 <= n PROVE Piece(R[k + 1], h, lo, hi + (k + 1))
    OBVIOUS
  <2>1. k \in 0 .. n - 1 /\ k \in 0 .. n /\ Piece(R[k], h, lo, hi + k)
    BY <1>3, <1>7
  <2>2. PICK m : m = hi + k
    OBVIOUS
  <2>3. /\ m \in Nat /\ lo <= m /\ m < Len(h) /\ hi + k + 1 = m + 1 /\ hi + (k + 1) = m + 1
        /\ first + k \in Int
    BY <1>1, <1>3, <2>1, <2>2
  <2>4. IsRows(R[k]) /\ (\A row \in R[k] : first + k > row.sorted_id)
        /\ Entered(R[k], h[m + 1], first + k, R[k + 1]) /\ Piece(R[k], h, lo, m)
    BY <1>4, <1>5, <2>1, <2>2, <2>3
  <2>5. Piece(R[k + 1], h, lo, m + 1)
    BY <2>3, <2>4, AppendNext
  <2> QED BY <2>3, <2>5
<1> HIDE DEF T
<1>8. \A k \in Nat : k \in T
  BY <1>6, <1>7, Induction
<1> QED BY <1>3, <1>8 DEF T

\* The events before are added, the last of them first.
LEMMA Prepended ==
  ASSUME NEW h, IsHistory(h), NEW lo \in Nat, NEW hi \in Nat, lo <= hi, hi <= Len(h),
         NEW from \in 0 .. lo, \A i \in DOMAIN h : h[i].txn # NULL => i > lo,
         NEW rows, Piece(rows, h, lo, hi), IsRows(rows), NEW first \in Int,
         \A row \in rows : first < row.sorted_id,
         NEW events, events = Reverse(SubSeq(h, from + 1, lo)),
         NEW R, RowsAre(R, rows, events, first, -1)
  PROVE  Piece(R[Len(events)], h, from, hi)
<1>1. Len(h) \in Nat /\ DOMAIN h = 1 .. Len(h)
  BY Places
<1>2. PICK n : n = lo - from
  OBVIOUS
<1>3. /\ events \in Seq(Plain) /\ Len(events) = n /\ n \in Nat /\ lo - n = from
      /\ \A k \in 0 .. n - 1 : events[k + 1] = h[lo - k]
  <2>1. n \in Nat /\ lo - n = from /\ lo \in 0 .. Len(h)
    BY <1>1, <1>2
  <2>2. /\ events \in Seq(Plain) /\ Len(events) = lo - from
        /\ \A k \in 1 .. lo - from : events[k] = h[lo - k + 1]
    BY <2>1, PartBackwards
  <2>3. ASSUME NEW k \in 0 .. n - 1 PROVE events[k + 1] = h[lo - k]
    <3>1. k + 1 \in 1 .. lo - from /\ lo - (k + 1) + 1 = lo - k
      BY <1>1, <1>2
    <3> QED BY <2>2, <3>1
  <2> QED BY <1>2, <2>1, <2>2, <2>3
<1>4. \A k \in 0 .. n : IsRows(R[k]) /\ \A row \in R[k] : first - k < row.sorted_id
  BY <1>3, RowsDown
<1>5. R[0] = rows /\ \A k \in 0 .. n - 1 : Entered(R[k], h[lo - k], first - k, R[k + 1])
  <2>1. /\ R[0] = rows
        /\ \A k \in 0 .. n - 1 : Entered(R[k], events[k + 1], first + k * (-1), R[k + 1])
    BY <1>3 DEF RowsAre
  <2>2. \A k \in 0 .. n - 1 : first + k * (-1) = first - k
    OBVIOUS
  <2> QED BY <1>3, <2>1, <2>2
<1> DEFINE T == {k \in Nat : k <= n => Piece(R[k], h, lo - k, hi)}
<1>6. 0 \in T
  BY <1>5
<1>7. ASSUME NEW k \in Nat, k \in T
      PROVE  k + 1 \in T
  <2> SUFFICES ASSUME k + 1 <= n PROVE Piece(R[k + 1], h, lo - (k + 1), hi)
    OBVIOUS
  <2>1. k \in 0 .. n - 1 /\ k \in 0 .. n /\ Piece(R[k], h, lo - k, hi)
    BY <1>3, <1>7
  <2>2. PICK m : m = lo - k
    OBVIOUS
  <2>3. /\ m \in Nat /\ m > 0 /\ m <= hi /\ lo - (k + 1) = m - 1 /\ m \in 1 .. Len(h) /\ ~(m > lo)
        /\ first - k \in Int
    BY <1>1, <1>3, <2>1, <2>2
  <2>4. h[m].txn = NULL
    BY <1>1, <2>3
  <2>5. IsRows(R[k]) /\ (\A row \in R[k] : first - k < row.sorted_id)
        /\ Entered(R[k], h[m], first - k, R[k + 1]) /\ Piece(R[k], h, m, hi)
    BY <1>4, <1>5, <2>1, <2>2
  <2>6. Piece(R[k + 1], h, m - 1, hi)
    BY <2>3, <2>4, <2>5, PrependNext
  <2> QED BY <2>3, <2>6
<1> HIDE DEF T
<1>8. \A k \in Nat : k \in T
  BY <1>6, <1>7, Induction
<1> QED BY <1>3, <1>8 DEF T

\* An echo is added.
LEMMA EchoAdded ==
  ASSUME NEW h, IsHistory(h), NEW lo \in Nat, NEW hi \in Nat, lo <= hi, hi <= Len(h),
         \A i \in DOMAIN h : h[i].txn # NULL => i > lo, NEW x \in Txn,
         NEW rows, Piece(rows, h, lo, hi), NEW first, NEW events, events = <<Echo(x)>>,
         NEW R, RowsAre(R, rows, events, first, 1)
  PROVE  Piece(R[Len(events)], h, lo, hi)
<1>1. PICK e : e = Echo(x)
  OBVIOUS
<1>2. Len(events) = 1 /\ events[1] = e
  BY <1>1
<1>3. R[0] = rows /\ \E s : Entered(R[0], e, s, R[1])
  <2>1. 0 \in 0 .. Len(events) - 1 /\ 0 + 1 = 1
    BY <1>2
  <2> QED BY <1>2, <2>1 DEF RowsAre
<1>4. PICK s : Entered(rows, Echo(x), s, R[1])
  BY <1>1, <1>3
<1>5. Piece(R[1], h, lo, hi)
  BY <1>4, EchoAgain
<1> QED BY <1>2, <1>5

-----------------------------------------------------------------------------
(* What the queue still does, with one task more or less.                  *)

\* What a task does says what follows it.
LEMMA Kinds ==
  ASSUME NEW h, NEW t \in Task(h)
  PROVE  /\ t.op = "save_client" <=> t.then = "saved"
         /\ t.op = "save_room" <=> t.then = "nothing"
         /\ t.op = "add_events" <=> t.then \in {"next sync", "loaded", "send", "set id"}
         /\ t.op = "get_past" <=> t.then = "past"
BY TaskKinds DEF TaskIs

\* The places of a longer queue
LEMMA LongerIs ==
  ASSUME NEW p, NEW q, NEW t, Longer(p, q, t)
  PROVE  /\ Len(q) \in Nat /\ DOMAIN q = 1 .. Len(q) /\ Len(p) = Len(q) + 1
         /\ \A i \in DOMAIN p : (i \in DOMAIN q /\ p[i] = q[i]) \/ (i = Len(q) + 1 /\ p[i] = t)
         /\ \A i \in DOMAIN q : i \in DOMAIN p /\ p[i] = q[i]
         /\ Len(q) + 1 \in DOMAIN p /\ p[Len(q) + 1] = t /\ Len(q) + 1 \notin DOMAIN q
<1>1. PICK n : n = Len(q)
  OBVIOUS
<1>2. /\ n \in Nat /\ DOMAIN q = 1 .. n /\ DOMAIN p = 1 .. n + 1 /\ Len(p) = n + 1
      /\ \A i \in 1 .. n : p[i] = q[i]
      /\ p[n + 1] = t
  BY <1>1 DEF Longer
<1>3. /\ \A i \in 1 .. n + 1 : i \in 1 .. n \/ i = n + 1
      /\ \A i \in 1 .. n : i \in 1 .. n + 1
      /\ n + 1 \in 1 .. n + 1 /\ n + 1 \notin 1 .. n
  BY <1>2, OneMore
<1> QED BY <1>1, <1>2, <1>3, Zenon

\* The places of a queue without its first task
LEMMA LaterIs ==
  ASSUME NEW r, NEW q, Later(r, q)
  PROVE  /\ Len(q) \in Nat /\ DOMAIN q = 1 .. Len(q) /\ 1 \in DOMAIN q
         /\ \A i \in DOMAIN r : i \in Nat /\ i + 1 \in DOMAIN q /\ r[i] = q[i + 1]
         /\ \A i \in DOMAIN q : i = 1 \/ (i - 1 \in DOMAIN r /\ r[i - 1] = q[i])
<1>1. /\ Len(q) \in Nat /\ Len(q) > 0 /\ DOMAIN q = 1 .. Len(q) /\ DOMAIN r = 1 .. Len(q) - 1
      /\ \A i \in DOMAIN r : i + 1 \in DOMAIN q /\ r[i] = q[i + 1]
  BY DEF Later
<1>2. ASSUME NEW i \in DOMAIN q, i # 1 PROVE i - 1 \in DOMAIN r /\ r[i - 1] = q[i]
  <2>1. i \in 1 .. Len(q) /\ i - 1 \in 1 .. Len(q) - 1 /\ (i - 1) + 1 = i
    BY <1>1, <1>2
  <2> QED BY <1>1, <2>1
<1>3. 1 \in DOMAIN q /\ \A i \in DOMAIN r : i \in Nat
  BY <1>1
<1> QED BY <1>1, <1>2, <1>3

\* A task that adds no events of the server
LEMMA AddsPut ==
  ASSUME NEW p, NEW q, NEW t, Longer(p, q, t), Wider(Thens(p), Thens(q), t.then),
         t.then \notin {"next sync", "loaded"},
         NEW h, NEW since, NEW prev, NEW lo, NEW hi, Adds(q, h, since, prev, lo, hi)
  PROVE  Adds(p, h, since, prev, lo, hi)
<1>1. \A i \in DOMAIN p : (i \in DOMAIN q /\ p[i] = q[i]) \/ p[i] = t
  BY LongerIs
<1> QED BY <1>1 DEF Adds, Wider

\* A queue that adds none
LEMMA AddsNone ==
  ASSUME NEW q, {"next sync", "loaded"} \cap Thens(q) = {}, NEW h, NEW hi, NEW lo
  PROVE  Adds(q, h, hi, lo, lo, hi)
<1>1. \A i \in DOMAIN q : q[i].then \notin {"next sync", "loaded"}
  BY DEF Thens
<1> QED BY <1>1 DEF Adds

\* What was synced is to be added.
LEMMA AddsSynced ==
  ASSUME NEW p, NEW q, NEW t, Longer(p, q, t), Wider(Thens(p), Thens(q), t.then),
         t.then = "next sync", "next sync" \notin Thens(q),
         NEW h, NEW since, NEW prev, NEW lo, NEW hi, Adds(q, h, hi, prev, lo, hi),
         t.events = SubSeq(h, hi + 1, since)
  PROVE  Adds(p, h, since, prev, lo, hi)
<1>1. \A i \in DOMAIN p : (i \in DOMAIN q /\ p[i] = q[i]) \/ p[i] = t
  BY LongerIs
<1>2. \A i \in DOMAIN q : q[i].then # "next sync"
  BY DEF Thens
<1> QED BY <1>1, <1>2 DEF Adds, Wider

\* What was loaded is to be added.
LEMMA AddsLoaded ==
  ASSUME NEW p, NEW q, NEW t, Longer(p, q, t), Wider(Thens(p), Thens(q), t.then),
         t.then = "loaded", "loaded" \notin Thens(q),
         NEW h, NEW since, NEW prev, NEW lo, NEW hi, Adds(q, h, since, lo, lo, hi),
         t.events = Reverse(SubSeq(h, prev + 1, lo))
  PROVE  Adds(p, h, since, prev, lo, hi)
<1>1. \A i \in DOMAIN p : (i \in DOMAIN q /\ p[i] = q[i]) \/ p[i] = t
  BY LongerIs
<1>2. \A i \in DOMAIN q : q[i].then # "loaded"
  BY DEF Thens
<1> QED BY <1>1, <1>2 DEF Adds, Wider

\* What is left to be added, once a task is done
StillAdds(t, r, h, since, prev, lo, hi) ==
  /\ t.then \notin {"next sync", "loaded"} => Adds(r, h, since, prev, lo, hi)
  /\ t.then = "next sync" =>
       t.events = SubSeq(h, hi + 1, since) /\ Adds(r, h, since, prev, lo, since)
  /\ t.then = "loaded" =>
       t.events = Reverse(SubSeq(h, prev + 1, lo)) /\ Adds(r, h, since, prev, prev, hi)

\* One task is done; the rows have what it was to add.
LEMMA AddsTaken ==
  ASSUME NEW r, NEW q, NEW t, Later(r, q), t = q[1], Wider(Thens(q), Thens(r), t.then),
         t.then # "nothing" => t.then \notin Thens(r),
         NEW h, NEW since, NEW prev, NEW lo, NEW hi, Adds(q, h, since, prev, lo, hi)
  PROVE  StillAdds(t, r, h, since, prev, lo, hi)
<1>1. \A i \in DOMAIN r : i + 1 \in DOMAIN q /\ r[i] = q[i + 1]
  BY LaterIs
<1>2. 1 \in DOMAIN q
  BY LaterIs
<1>3. \A i \in DOMAIN r : /\ r[i].then = "next sync" => r[i].events = SubSeq(h, hi + 1, since)
                          /\ r[i].then = "loaded" => r[i].events = Reverse(SubSeq(h, prev + 1, lo))
  BY <1>1 DEF Adds
<1>4. \A i \in DOMAIN r : r[i].then \in Thens(r)
  BY DEF Thens
<1>5. CASE t.then \notin {"next sync", "loaded"}
  BY <1>3, <1>5 DEF StillAdds, Adds, Wider
<1>6. CASE t.then = "next sync"
  <2>1. t.events = SubSeq(h, hi + 1, since)
    BY <1>2, <1>6 DEF Adds
  <2>2. \A i \in DOMAIN r : r[i].then # "next sync"
    BY <1>4, <1>6
  <2>3. "loaded" \notin Thens(r) => lo = prev
    BY <1>6 DEF Adds, Wider
  <2> QED BY <1>3, <1>6, <2>1, <2>2, <2>3 DEF StillAdds, Adds
<1>7. CASE t.then = "loaded"
  <2>1. t.events = Reverse(SubSeq(h, prev + 1, lo))
    BY <1>2, <1>7 DEF Adds
  <2>2. \A i \in DOMAIN r : r[i].then # "loaded"
    BY <1>4, <1>7
  <2>3. "next sync" \notin Thens(r) => hi = since
    BY <1>7 DEF Adds, Wider
  <2> QED BY <1>3, <1>7, <2>1, <2>2, <2>3 DEF StillAdds, Adds
<1> QED BY <1>5, <1>6, <1>7

\* The room is before a task that is put behind the others.
LEMMA RoomsFirstPut ==
  ASSUME NEW p, NEW q, NEW t, Longer(p, q, t), NEW rooms, RoomsFirst(q, rooms),
         t.op = "add_events" => HasRoom(q, rooms)
  PROVE  /\ RoomsFirst(p, rooms)
         /\ HasRoom(q, rooms) \/ t.op = "save_room" => HasRoom(p, rooms)
<1>1. /\ Len(q) \in Nat /\ DOMAIN q = 1 .. Len(q)
      /\ \A i \in DOMAIN p : (i \in DOMAIN q /\ p[i] = q[i]) \/ (i = Len(q) + 1 /\ p[i] = t)
      /\ \A i \in DOMAIN q : i \in DOMAIN p /\ p[i] = q[i]
      /\ Len(q) + 1 \in DOMAIN p /\ p[Len(q) + 1] = t
  BY LongerIs
<1>2. HasRoom(q, rooms) \/ t.op = "save_room" => HasRoom(p, rooms)
  BY <1>1 DEF HasRoom
<1>3. ASSUME NEW i \in DOMAIN p, p[i].op = "add_events", room \notin rooms
      PROVE  \E j \in 1 .. i - 1 : p[j].op = "save_room"
  <2>1. CASE i \in DOMAIN q /\ p[i] = q[i]
    <3>1. PICK j \in 1 .. i - 1 : q[j].op = "save_room"
      BY <1>3, <2>1 DEF RoomsFirst
    <3>2. j \in DOMAIN q
      BY <1>1, <2>1
    <3> QED BY <1>1, <3>1, <3>2
  <2>2. CASE i = Len(q) + 1 /\ p[i] = t
    <3>1. PICK j \in DOMAIN q : q[j].op = "save_room"
      BY <1>3, <2>2 DEF HasRoom
    <3>2. j \in 1 .. i - 1
      BY <1>1, <2>2
    <3> QED BY <1>1, <3>1, <3>2
  <2> QED BY <1>1, <2>1, <2>2
<1> QED BY <1>2, <1>3 DEF RoomsFirst

\* The first task is done, which may have been the one that stores the room.
LEMMA RoomsFirstTaken ==
  ASSUME NEW r, NEW q, NEW t, Later(r, q), t = q[1], NEW rooms, RoomsFirst(q, rooms)
  PROVE  /\ t.op = "add_events" => room \in rooms
         /\ t.op # "save_room" => RoomsFirst(r, rooms) /\ (HasRoom(q, rooms) => HasRoom(r, rooms))
<1>1. /\ 1 \in DOMAIN q
      /\ \A i \in DOMAIN r : i \in Nat /\ i + 1 \in DOMAIN q /\ r[i] = q[i + 1]
      /\ \A i \in DOMAIN q : i = 1 \/ (i - 1 \in DOMAIN r /\ r[i - 1] = q[i])
  BY LaterIs
<1>2. t.op = "add_events" => room \in rooms
  BY <1>1 DEF RoomsFirst
<1>3. t.op # "save_room" /\ HasRoom(q, rooms) => HasRoom(r, rooms)
  BY <1>1 DEF HasRoom
<1>4. ASSUME t.op # "save_room", NEW i \in DOMAIN r, r[i].op = "add_events", room \notin rooms
      PROVE  \E j \in 1 .. i - 1 : r[j].op = "save_room"
  <2>1. i + 1 \in DOMAIN q /\ q[i + 1].op = "add_events" /\ i \in Nat
    BY <1>1, <1>4
  <2>2. PICK k \in 1 .. (i + 1) - 1 : q[k].op = "save_room"
    BY <1>4, <2>1 DEF RoomsFirst
  <2>3. k # 1 /\ k - 1 \in 1 .. i - 1 /\ k - 1 \in DOMAIN r /\ (k - 1) + 1 = k
    <3>1. k # 1
      BY <1>4, <2>2
    <3>2. Len(q) \in Nat /\ DOMAIN q = 1 .. Len(q) /\ DOMAIN r = 1 .. Len(q) - 1
      BY DEF Later
    <3> QED BY <2>1, <2>2, <3>1, <3>2
  <2>4. r[k - 1] = q[k]
    BY <1>1, <2>3
  <2> QED BY <2>2, <2>3, <2>4
<1> QED BY <1>2, <1>3, <1>4 DEF RoomsFirst

\* The last save of the room, with one task more
LEMMA RoomSavesPut ==
  ASSUME NEW p, NEW q, NEW t, Longer(p, q, t), NEW stored, NEW prev,
         IF t.op = "save_room" THEN t.prev = prev ELSE RoomSaves(q, stored, prev)
  PROVE  RoomSaves(p, stored, prev)
<1>1. /\ Len(q) \in Nat /\ DOMAIN q = 1 .. Len(q) /\ Len(p) = Len(q) + 1
      /\ \A i \in DOMAIN p : (i \in DOMAIN q /\ p[i] = q[i]) \/ (i = Len(q) + 1 /\ p[i] = t)
      /\ \A i \in DOMAIN q : i \in DOMAIN p /\ p[i] = q[i]
      /\ Len(q) + 1 \in DOMAIN p /\ p[Len(q) + 1] = t
  BY LongerIs
<1>2. CASE t.op = "save_room"
  <2>1. ASSUME NEW i \in DOMAIN q PROVE Len(q) + 1 \in i + 1 .. Len(p)
    BY <1>1
  <2>2. \A i \in DOMAIN p : (\A j \in i + 1 .. Len(p) : p[j].op # "save_room") => p[i] = t
    BY <1>1, <1>2, <2>1
  <2> QED BY <1>1, <1>2, <2>2 DEF RoomSaves
<1>3. CASE t.op # "save_room"
  <2>1. (\A i \in DOMAIN p : p[i].op # "save_room") => stored = prev
    BY <1>1, <1>3 DEF RoomSaves
  <2>2. ASSUME NEW i \in DOMAIN p, p[i].op = "save_room",
               \A j \in i + 1 .. Len(p) : p[j].op # "save_room"
        PROVE  p[i].prev = prev
    <3>1. i \in DOMAIN q /\ p[i] = q[i]
      BY <1>1, <1>3, <2>2
    <3>2. ASSUME NEW j \in i + 1 .. Len(q) PROVE q[j].op # "save_room"
      <4>1. j \in DOMAIN q /\ j \in i + 1 .. Len(p)
        BY <1>1, <3>1
      <4> QED BY <1>1, <2>2, <4>1
    <3> QED BY <1>3, <2>2, <3>1, <3>2 DEF RoomSaves
  <2> QED BY <2>1, <2>2 DEF RoomSaves
<1> QED BY <1>2, <1>3

\* ... and with one less
LEMMA RoomSavesTaken ==
  ASSUME NEW r, NEW q, NEW t, Later(r, q), t = q[1], NEW stored, NEW prev,
         RoomSaves(q, stored, prev)
  PROVE  RoomSaves(r, IF t.op = "save_room" THEN t.prev ELSE stored, prev)
<1>1. /\ Len(q) \in Nat /\ DOMAIN q = 1 .. Len(q) /\ DOMAIN r = 1 .. Len(q) - 1
      /\ Len(r) = Len(q) - 1 /\ Len(q) > 0
      /\ \A i \in DOMAIN r : i + 1 \in DOMAIN q /\ r[i] = q[i + 1]
      /\ \A i \in DOMAIN q : i = 1 \/ (i - 1 \in DOMAIN r /\ r[i - 1] = q[i])
  BY LaterIs DEF Later
<1>2. ASSUME NEW i \in DOMAIN r, r[i].op = "save_room",
             \A j \in i + 1 .. Len(r) : r[j].op # "save_room"
      PROVE  r[i].prev = prev
  <2>1. i + 1 \in DOMAIN q /\ q[i + 1].op = "save_room" /\ i \in 1 .. Len(q) - 1
    BY <1>1, <1>2
  <2>2. ASSUME NEW j \in (i + 1) + 1 .. Len(q) PROVE q[j].op # "save_room"
    <3>1. j \in DOMAIN q /\ j # 1 /\ j - 1 \in i + 1 .. Len(r)
      BY <1>1, <2>1
    <3> QED BY <1>1, <1>2, <3>1
  <2>3. q[i + 1].prev = prev
    BY <2>1, <2>2 DEF RoomSaves
  <2> QED BY <1>1, <2>3
<1>3. ASSUME \A i \in DOMAIN r : r[i].op # "save_room"
      PROVE  (IF t.op = "save_room" THEN t.prev ELSE stored) = prev
  <2>1. \A i \in DOMAIN q : i = 1 \/ q[i].op # "save_room"
    BY <1>1, <1>3
  <2>2. CASE t.op = "save_room"
    <3>1. 1 \in DOMAIN q /\ \A j \in 1 + 1 .. Len(q) : j \in DOMAIN q /\ j # 1
      BY <1>1
    <3>2. \A j \in 1 + 1 .. Len(q) : q[j].op # "save_room"
      BY <2>1, <3>1
    <3>3. q[1].prev = prev
      BY <2>2, <3>1, <3>2 DEF RoomSaves
    <3> QED BY <2>2, <3>3
  <2>3. CASE t.op # "save_room"
    <3>1. \A i \in DOMAIN q : q[i].op # "save_room"
      BY <2>1, <2>3
    <3> QED BY <2>3, <3>1 DEF RoomSaves
  <2> QED BY <2>2, <2>3
<1> QED BY <1>2, <1>3 DEF RoomSaves

\* The last save of the client, with one task more
LEMMA ClientSavesPut ==
  ASSUME NEW p, NEW q, NEW t, Longer(p, q, t), NEW saving, NEW stored, NEW since,
         IF t.op = "save_client"
         THEN /\ saving = "saving" /\ t.batch = since
              /\ \A i \in DOMAIN q : q[i].op # "save_client"
         ELSE ClientSaves(q, saving, stored, since)
  PROVE  ClientSaves(p, saving, stored, since)
<1>1. /\ \A i \in DOMAIN p : (i \in DOMAIN q /\ p[i] = q[i]) \/ p[i] = t
      /\ \A i \in DOMAIN q : i \in DOMAIN p /\ p[i] = q[i]
      /\ Len(q) + 1 \in DOMAIN p /\ p[Len(q) + 1] = t
  BY LongerIs
<1> QED BY <1>1 DEF ClientSaves

\* ... and with one less
LEMMA ClientSavesTaken ==
  ASSUME NEW r, NEW q, NEW t, Later(r, q), t = q[1], NEW saving, NEW stored, NEW since,
         ClientSaves(q, saving, stored, since),
         t.op = "save_client" =>
           /\ saving # "no" /\ Place(t.batch) = t.batch
           /\ \A i \in DOMAIN r : r[i].op # "save_client"
  PROVE  ClientSaves(r, saving, IF t.op = "save_client" THEN t.batch ELSE stored, since)
<1>1. /\ 1 \in DOMAIN q /\ \A i \in DOMAIN r : i + 1 \in DOMAIN q /\ r[i] = q[i + 1]
      /\ \A i \in DOMAIN q : i = 1 \/ (i - 1 \in DOMAIN r /\ r[i - 1] = q[i])
  BY LaterIs
<1> QED BY <1>1 DEF ClientSaves

-----------------------------------------------------------------------------
(* Steps that leave the tables, the queue and the tokens alone.            *)

\* What is true of the bounds of the rows
LEMMA Bounds ==
  ASSUME TypeInv, NEW lo \in Nat, NEW hi \in Nat, Stored(lo, hi)
  PROVE  /\ lo <= hi /\ hi <= client.since /\ client.since \in Nat
         /\ client.since <= Len(history) /\ Len(history) \in Nat /\ Len(history) > 0
         /\ Place(shown.prev_batch) \in 0 .. lo /\ IsHistory(history)
         /\ Piece(db.events[room], history, lo, hi) /\ IsRows(db.events[room])
         /\ DOMAIN history = 1 .. Len(history)
<1>1. IsHistory(history) /\ Len(history) \in Nat /\ DOMAIN history = 1 .. Len(history)
  BY Places DEF TypeInv
<1>2. Len(history) > 0
  <2>1. history \in Seq(Plain) /\ history # <<>>
    BY <1>1, Places DEF Stored, Fresh
  <2> QED BY <1>1, <2>1
<1>3. client.since \in 0 .. Len(history) /\ client.since \in Nat
  BY <1>1, ClientIs DEF TypeInv
<1>4. hi \in lo .. client.since /\ Place(shown.prev_batch) <= lo
  BY DEF Stored, Rest
<1>5. Place(shown.prev_batch) \in Nat
  BY NamesAssumption DEF TypeInv, IsShown, Tokens, Place
<1>6. IsRows(db.events[room])
  BY DEF TypeInv, IsTables
<1> QED BY <1>1, <1>2, <1>3, <1>4, <1>5, <1>6 DEF Stored

\* The elements of a sequence are in another one.
Fewer(s, t) == \A i \in DOMAIN s : \E j \in DOMAIN t : s[i] = t[j]

\* A message goes on from another state than the first one.
GoesOn(m, n) == \A x \in Txn : n[x] = m[x] \/ (m[x] # "new" /\ n[x] # "new")

\* A step that changes none of this
Still ==
  /\ history' = history /\ db' = db /\ queue' = queue
  /\ client'.since = client.since /\ client'.saving = client.saving
  /\ shown'.prev_batch = shown.prev_batch

\* What is stored depends on nothing else.
LEMMA StoredKept ==
  ASSUME NEW lo, NEW hi, Stored(lo, hi), Still, Fresh', Contents',
         shown'.loading = "server" => shown'.from = shown'.prev_batch
  PROVE  Stored(lo, hi)'
<1>1. Piece(db.events[room], history, lo, hi)' /\ Rest(lo, hi)' /\ RoomFirst' /\ Saves'
  BY DEF Stored, Still, Rest, RoomFirst, Saves
<1>2. Tokened(lo)'
  BY DEF Stored, Still, Tokened
<1> QED BY <1>1, <1>2 DEF Stored

\* Nothing begins before the first answer.
LEMMA FreshKept ==
  ASSUME Fresh, Still, Fewer(done', done),
         client.since = 0 => /\ shown'.list = <<>> /\ shown'.loading # "server"
                             /\ \A x \in Txn : message'[x] = "new"
  PROVE  Fresh'
<1>1. client.since = 0 => \A i \in DOMAIN done' :
         /\ done'[i].task.op # "add_events"
         /\ done'[i].task.then = "past" => done'[i].result = <<>>
  BY DEF Fresh, Fewer
<1> QED BY <1>1 DEF Fresh, Still

\* The list is the same.
LEMMA ContentsKept ==
  ASSUME TypeInv, Contents, Still, Fewer(done', done), shown'.list = shown.list,
         GoesOn(message, message')
  PROVE  Contents'
<1>1. \A i \in DOMAIN done' : done'[i].task.then = "past" =>
        \A k \in DOMAIN done'[i].result :
          IsSynced(done'[i].result[k], history, Place(shown.prev_batch), client.since)
  BY DEF Contents, Fewer
<1>2. \A i \in DOMAIN shown.list :
        \/ IsSynced(shown.list[i], history, Place(shown.prev_batch), client.since)
        \/ /\ IsEcho(shown.list[i], history, client.since)
           /\ message'[shown.list[i].txn] # "new"
  BY DEF Contents, GoesOn, IsEcho
<1> QED BY <1>1, <1>2 DEF Contents, Still

\* Both together
LEMMA StoredStill ==
  ASSUME TypeInv, NEW lo, NEW hi, Stored(lo, hi), Still, Fewer(done', done),
         shown'.list = shown.list, GoesOn(message, message'),
         shown'.loading = "server" => shown.loading = "server" /\ shown'.from = shown.from
  PROVE  Stored(lo, hi)'
<1>1. Contents'
  BY ContentsKept DEF Stored
<1>2. Fresh'
  <2>1. client.since = 0 => /\ shown'.list = <<>> /\ shown'.loading # "server"
                            /\ \A x \in Txn : message'[x] = "new"
    BY DEF Stored, Fresh, GoesOn
  <2> QED BY <2>1, FreshKept DEF Stored
<1>3. shown'.loading = "server" => shown'.from = shown'.prev_batch
  BY DEF Stored, Tokened, Still
<1> QED BY <1>1, <1>2, <1>3, StoredKept

\* The tasks that are left are some of those that were there.
LEMMA FewerLeft ==
  ASSUME NEW s
  PROVE  /\ Fewer(s, s)
         /\ \A h : IsDone(s, h) /\ s # <<>> => Fewer(Tail(s), s) /\ Head(s) = s[1] /\ 1 \in DOMAIN s
<1>1. ASSUME NEW h, IsDone(s, h), s # <<>>
      PROVE  Fewer(Tail(s), s) /\ Head(s) = s[1] /\ 1 \in DOMAIN s
  <2>1. s \in Seq(Range(s))
    BY <1>1 DEF IsDone
  <2>2. /\ Head(s) = s[1] /\ Len(s) \in Nat /\ Len(s) > 0 /\ DOMAIN s = 1 .. Len(s)
        /\ \A i \in DOMAIN Tail(s) : i + 1 \in DOMAIN s /\ Tail(s)[i] = s[i + 1]
    BY <1>1, <2>1, TakeFirst
  <2> QED BY <2>2 DEF Fewer
<1> QED BY <1>1 DEF Fewer

\* The steps that change no more than that
LEMMA QuietStored ==
  ASSUME TypeInv, NEW lo, NEW hi, Stored(lo, hi),
         \/ \E found \in BOOLEAN : RoomListed(found)
         \/ LoadFailed \/ NextSync \/ HistoryStored
         \/ \E x \in Txn : StartSending(x) \/ SendFailed(x)
  PROVE  Stored(lo, hi)'
<1> USE DEF TypeInv
<1>1. DOMAIN shown = DOMAIN NewRoom /\ {"since", "saving", "sync"} \subseteq DOMAIN client
  BY DEF IsShown, IsClient, NewRoom
<1>2. message \in [Txn -> MessageStates]
  BY DEF Sending
<1>3. ASSUME NEW found \in BOOLEAN, RoomListed(found) PROVE Stored(lo, hi)'
  <2>1. /\ Still /\ done' = done /\ message' = message /\ shown'.list = shown.list
        /\ shown'.loading = "server" => shown.loading = "server" /\ shown'.from = shown.from
    BY <1>1, <1>3 DEF RoomListed, Still, NewRoom
  <2>2. Fewer(done', done) /\ GoesOn(message, message')
    BY <2>1, FewerLeft DEF GoesOn
  <2> QED BY <2>1, <2>2, StoredStill
<1>4. ASSUME LoadFailed PROVE Stored(lo, hi)'
  <2>1. /\ Still /\ done' = done /\ message' = message /\ shown'.list = shown.list
        /\ shown'.loading # "server"
    BY <1>1, <1>4 DEF LoadFailed, Still, NewRoom
  <2>2. Fewer(done', done) /\ GoesOn(message, message')
    BY <2>1, FewerLeft DEF GoesOn
  <2> QED BY <2>1, <2>2, StoredStill
<1>5. ASSUME NextSync PROVE Stored(lo, hi)'
  <2>1. /\ Still /\ done # <<>> /\ done' = Tail(done) /\ message' = message /\ shown' = shown
    BY <1>1, <1>5 DEF NextSync, Follows, Still
  <2>2. Fewer(done', done) /\ GoesOn(message, message')
    BY <2>1, FewerLeft DEF GoesOn
  <2> QED BY <2>1, <2>2, StoredStill
<1>6. ASSUME HistoryStored PROVE Stored(lo, hi)'
  <2>1. /\ Still /\ done # <<>> /\ done' = Tail(done) /\ message' = message
        /\ shown'.list = shown.list /\ shown'.loading # "server"
    BY <1>1, <1>6 DEF HistoryStored, Follows, Still, NewRoom
  <2>2. Fewer(done', done) /\ GoesOn(message, message')
    BY <2>1, FewerLeft DEF GoesOn
  <2> QED BY <2>1, <2>2, StoredStill
<1>7. ASSUME NEW x \in Txn, StartSending(x) PROVE Stored(lo, hi)'
  <2>1. /\ Still /\ done # <<>> /\ done' = Tail(done) /\ shown' = shown
        /\ message' = [message EXCEPT ![x] = "sending"]
        /\ Head(done).task.then = "send" /\ Head(done).task.events[1].txn = x
    BY <1>7 DEF StartSending, Follows, Still
  <2>2. Fewer(done', done) /\ Head(done) = done[1] /\ 1 \in DOMAIN done
    BY <2>1, FewerLeft
  <2>3. message[x] = "storing"
    BY <2>1, <2>2 DEF Sending
  <2>4. GoesOn(message, message')
    BY <1>2, <2>1, <2>3 DEF GoesOn
  <2> QED BY <2>1, <2>2, <2>4, StoredStill
<1>8. ASSUME NEW x \in Txn, SendFailed(x) PROVE Stored(lo, hi)'
  <2>1. /\ Still /\ done' = done /\ shown' = shown
        /\ message' = [message EXCEPT ![x] = "failed"] /\ message[x] # "new"
    BY <1>8 DEF SendFailed, Still
  <2>2. Fewer(done', done) /\ GoesOn(message, message')
    BY <1>2, <2>1, FewerLeft DEF GoesOn
  <2> QED BY <2>1, <2>2, StoredStill
<1> QED BY <1>3, <1>4, <1>5, <1>6, <1>7, <1>8

-----------------------------------------------------------------------------
(* The list, with synced events more.                                      *)

\* Synced events, and echoes of messages that have not been synced
Lists(list, h, from, to, m) ==
  /\ \A i \in DOMAIN list :
       \/ IsSynced(list[i], h, from, to)
       \/ IsEcho(list[i], h, to) /\ m[list[i].txn] # "new"
  /\ Distinct(list)

\* The list, at another place, together with synced events
LEMMA ListsMore ==
  ASSUME NEW h, IsHistory(h), NEW from \in Nat, NEW to \in Nat, to <= Len(h), NEW m,
         NEW a, Lists(a, h, from, to, m), NEW c, NEW skip \in Int,
         \A i \in DOMAIN c : \/ IsSynced(c[i], h, from, to)
                             \/ i \in Int /\ i - skip \in DOMAIN a /\ c[i] = a[i - skip]
  PROVE  Lists(c, h, from, to, m)
<1>1. ASSUME NEW e, IsSynced(e, h, from, to)
      PROVE  /\ e.txn # NULL => e.message
             /\ ~\E f : IsEcho(f, h, to) /\ f.txn = e.txn
  <2>1. PICK u : u = e.uid
    OBVIOUS
  <2>2. u \in 1 .. to /\ u \in 1 .. Len(h) /\ e = h[u]
    BY <1>1, <2>1 DEF IsSynced
  <2>3. e.txn # NULL => e.message
    BY <2>2, Places
  <2> QED BY <2>2, <2>3 DEF IsEcho
<1>2. \A i \in DOMAIN c : \/ IsSynced(c[i], h, from, to)
                          \/ IsEcho(c[i], h, to) /\ m[c[i].txn] # "new"
  BY DEF Lists
<1>3. ASSUME NEW i \in DOMAIN c, NEW j \in DOMAIN c, c[i].txn = c[j].txn, c[i].txn # NULL,
             ~c[i].message
      PROVE  i = j
  <2>1. ~IsSynced(c[i], h, from, to) /\ IsEcho(c[i], h, to)
    BY <1>1, <1>2, <1>3
  <2>2. ~IsSynced(c[j], h, from, to)
    BY <1>1, <1>3, <2>1
  <2>3. /\ i \in Int /\ i - skip \in DOMAIN a /\ c[i] = a[i - skip]
        /\ j \in Int /\ j - skip \in DOMAIN a /\ c[j] = a[j - skip]
    BY <2>1, <2>2
  <2>4. i - skip = j - skip
    BY <1>3, <2>3 DEF Lists, Distinct
  <2> QED BY <2>3, <2>4
<1> QED BY <1>2, <1>3 DEF Lists, Distinct

\* Synced events that are put before the list, or behind it
LEMMA ListsShown ==
  ASSUME NEW h, IsHistory(h), NEW from \in Nat, NEW to \in Nat, to <= Len(h), NEW m,
         NEW a \in Seq(Plain), Lists(a, h, from, to, m), NEW events \in Seq(Plain),
         \A k \in DOMAIN events : IsSynced(events[k], h, from, to)
  PROVE  /\ Lists(Shown(a, events, FALSE), h, from, to, m)
         /\ Lists(Shown(a, events, TRUE), h, from, to, m)
<1> DEFINE S == {e \in Plain : IsSynced(e, h, from, to)}
<1>1. PICK new : new = NotLast(a, events)
  OBVIOUS
<1>2. new \in Seq(S) /\ new \in Seq(Plain)
  <2>1. events \in Seq(S)
    <3>1. \A k \in 1 .. Len(events) : events[k] \in S
      OBVIOUS
    <3> QED BY <3>1
  <2>2. \A set : Picked(events, set) \in Seq(S \cap set)
    BY <2>1, PickedSet
  <2>3. NotLast(a, events) \in Seq(S)
    <3>1. \A set : Picked(events, set) \in Seq(S)
      BY <2>2, SeqNarrow
    <3> QED BY <2>1, <3>1 DEF NotLast
  <2> HIDE DEF S
  <2>4. S \subseteq Plain
    BY DEF S
  <2> QED BY <1>1, <2>3, <2>4, SeqWider
<1>3. \A k \in 1 .. Len(new) : IsSynced(new[k], h, from, to)
  BY <1>2
<1>4. /\ Reverse(new) \in Seq(Plain) /\ Len(Reverse(new)) = Len(new)
      /\ \A i \in 1 .. Len(new) : Reverse(new)[i] = new[Len(new) - i + 1]
  BY <1>2, Backwards
<1>5. \A k \in 1 .. Len(new) : IsSynced(Reverse(new)[k], h, from, to)
  <2>1. \A k \in 1 .. Len(new) : Len(new) - k + 1 \in 1 .. Len(new)
    BY <1>2
  <2> QED BY <1>3, <1>4, <2>1
<1>6. Lists(Reverse(new) \o a, h, from, to, m)
  <2>1. PICK c, b : c = Reverse(new) \o a /\ b = Reverse(new)
    OBVIOUS
  <2>2. /\ Len(b) \in Nat /\ DOMAIN c = 1 .. Len(b) + Len(a) /\ DOMAIN a = 1 .. Len(a)
        /\ \A i \in 1 .. Len(b) : c[i] = b[i]
        /\ \A i \in 1 .. Len(b) + Len(a) :
             i > Len(b) => i - Len(b) \in 1 .. Len(a) /\ c[i] = a[i - Len(b)]
    BY <1>4, <2>1, ListConcat
  <2>3. \A i \in DOMAIN c : \/ IsSynced(c[i], h, from, to)
                            \/ i \in Int /\ i - Len(b) \in DOMAIN a /\ c[i] = a[i - Len(b)]
    BY <1>4, <1>5, <2>1, <2>2
  <2>4. Len(b) \in Int
    BY <2>2
  <2> QED BY <2>1, <2>3, <2>4, ListsMore
<1>7. Lists(a \o new, h, from, to, m)
  <2>1. PICK c, z : c = a \o new /\ z = 0
    OBVIOUS
  <2>2. /\ Len(a) \in Nat /\ DOMAIN c = 1 .. Len(a) + Len(new) /\ DOMAIN a = 1 .. Len(a)
        /\ \A i \in 1 .. Len(a) : c[i] = a[i]
        /\ \A i \in 1 .. Len(a) + Len(new) :
             i > Len(a) => i - Len(a) \in 1 .. Len(new) /\ c[i] = new[i - Len(a)]
    BY <1>2, <2>1, ListConcat
  <2>3. ASSUME NEW i \in DOMAIN c
        PROVE  IsSynced(c[i], h, from, to) \/ (i \in Int /\ i - z \in DOMAIN a /\ c[i] = a[i - z])
    <3>1. i \in Int /\ i - z = i
      BY <2>1, <2>2
    <3>2. CASE i > Len(a)
      BY <1>3, <2>2, <3>2
    <3>3. CASE ~(i > Len(a))
      <4>1. i \in 1 .. Len(a)
        BY <2>2, <3>3
      <4> QED BY <2>2, <3>1, <4>1, Zenon
    <3> QED BY <3>2, <3>3
  <2>4. z \in Int
    BY <2>1
  <2> QED BY <2>1, <2>3, <2>4, ListsMore
<1> QED BY <1>1, <1>6, <1>7 DEF Shown

\* Lists and what is found
LEMMA ContentsAre ==
  ASSUME TypeInv, NEW lo \in Nat, NEW hi \in Nat, Stored(lo, hi)
  PROVE  /\ Lists(shown.list, history, Place(shown.prev_batch), client.since, message)
         /\ shown.list \in Seq(Plain)
  BY DEF Stored, Contents, Lists, TypeInv, IsShown

-----------------------------------------------------------------------------
(* Steps that change the list only.                                        *)

\* What the step does, with what was found
LEMMA PastLoadedIs ==
  ASSUME TypeInv, PastLoaded
  PROVE  \E events \in Seq(Plain) :
           /\ Still /\ done # <<>> /\ done' = Tail(done) /\ message' = message /\ client' = client
           /\ Head(done) = done[1] /\ 1 \in DOMAIN done /\ done[1].task.then = "past"
           /\ events = done[1].result /\ shown' = PastShown(shown, events)
           /\ shown'.list = IF events = <<>> THEN shown.list ELSE Shown(shown.list, events, FALSE)
           /\ shown'.loading = IF events = <<>> /\ shown.prev_batch # NULL THEN "server" ELSE "no"
           /\ shown'.from = IF events = <<>> /\ shown.prev_batch # NULL THEN shown.prev_batch
                            ELSE shown.from
<1>1. PICK e : e = Head(done)
  OBVIOUS
<1>2. /\ history' = history /\ client' = client /\ message' = message /\ db' = db
      /\ done' = Tail(done) /\ done # <<>> /\ e.task.then = "past" /\ queue' = queue
      /\ shown' = PastShown(shown, e.result)
  <2>1. shown' = LET events == Head(done).result
                 IN  IF events # <<>>
                     THEN [shown EXCEPT !.loading = "no", !.list = Shown(@, events, FALSE)]
                     ELSE IF shown.prev_batch = NULL THEN [shown EXCEPT !.loading = "no"]
                     ELSE [shown EXCEPT !.loading = "server", !.from = shown.prev_batch]
    BY DEF PastLoaded
  <2>2. [shown EXCEPT !.loading = "no", !.list = Shown(@, e.result, FALSE)] =
          [shown EXCEPT !.loading = "no", !.list = Shown(shown.list, e.result, FALSE)]
    BY DEF TypeInv, IsShown
  <2> QED BY <1>1, <2>1, <2>2 DEF PastLoaded, Follows, PastShown
<1>3. e = done[1] /\ e.result \in Seq(Plain) /\ 1 \in DOMAIN done
  <2>1. Later(Tail(done), done) /\ e = done[1] /\ (e.task.then = "past" => e.result \in Seq(Plain))
    BY <1>1, <1>2, DoneTaken DEF TypeInv
  <2> QED BY <1>2, <2>1 DEF Later
<1>4. DOMAIN shown = DOMAIN NewRoom
  BY DEF TypeInv, IsShown, NewRoom
<1>5. PICK events, listed : events = e.result /\ listed = Shown(shown.list, events, FALSE)
  OBVIOUS
<1>6. shown' = IF events # <<>> THEN [shown EXCEPT !.loading = "no", !.list = listed]
               ELSE IF shown.prev_batch = NULL THEN [shown EXCEPT !.loading = "no"]
               ELSE [shown EXCEPT !.loading = "server", !.from = shown.prev_batch]
  BY <1>2, <1>5 DEF PastShown
<1>7. /\ {"list", "loading", "from", "prev_batch"} \subseteq DOMAIN shown
  BY <1>4 DEF NewRoom
<1>8. /\ shown'.list = IF events = <<>> THEN shown.list ELSE listed
      /\ shown'.loading = IF events = <<>> /\ shown.prev_batch # NULL THEN "server" ELSE "no"
      /\ shown'.from = IF events = <<>> /\ shown.prev_batch # NULL THEN shown.prev_batch
                       ELSE shown.from
      /\ shown'.prev_batch = shown.prev_batch
  BY <1>6, <1>7
<1> QED BY <1>1, <1>2, <1>3, <1>5, <1>8 DEF Still

\* What was found is shown.
LEMMA PastLoadedStored ==
  ASSUME TypeInv, NEW lo \in Nat, NEW hi \in Nat, Stored(lo, hi), PastLoaded
  PROVE  Stored(lo, hi)'
<1>1. PICK events \in Seq(Plain) :
        /\ Still /\ done # <<>> /\ done' = Tail(done) /\ message' = message /\ client' = client
        /\ Head(done) = done[1] /\ 1 \in DOMAIN done /\ done[1].task.then = "past"
        /\ events = done[1].result /\ shown' = PastShown(shown, events)
        /\ shown'.list = IF events = <<>> THEN shown.list ELSE Shown(shown.list, events, FALSE)
        /\ shown'.loading = IF events = <<>> /\ shown.prev_batch # NULL THEN "server" ELSE "no"
        /\ shown'.from = IF events = <<>> /\ shown.prev_batch # NULL THEN shown.prev_batch
                         ELSE shown.from
  BY PastLoadedIs
<1>2. Fewer(done', done)
  BY <1>1, FewerLeft DEF TypeInv
<1>3. PICK from, to : from = Place(shown.prev_batch) /\ to = client.since
  OBVIOUS
<1>4. /\ IsHistory(history) /\ from \in Nat /\ to \in Nat /\ to <= Len(history)
      /\ Lists(shown.list, history, from, to, message) /\ shown.list \in Seq(Plain)
  BY <1>3, Bounds, ContentsAre
<1>5. \A k \in DOMAIN events : IsSynced(events[k], history, from, to)
  BY <1>1, <1>3 DEF Stored, Contents
<1>6. Lists(shown'.list, history, from, to, message)
  <2>1. Lists(Shown(shown.list, events, FALSE), history, from, to, message)
    BY <1>4, <1>5, ListsShown
  <2> QED BY <1>1, <1>4, <2>1
<1>7. Contents'
  <2>1. \A i \in DOMAIN done' : done'[i].task.then = "past" =>
          \A k \in DOMAIN done'[i].result : IsSynced(done'[i].result[k], history, from, to)
    BY <1>2, <1>3 DEF Stored, Contents, Fewer
  <2>2. /\ Place(shown'.prev_batch) = from /\ client'.since = to /\ history' = history
        /\ message' = message
    BY <1>1, <1>3 DEF Still
  <2> QED BY <1>6, <2>1, <2>2 DEF Contents, Lists
<1>8. Fresh'
  <2>1. client.since = 0 => /\ events = <<>> /\ shown.prev_batch = NULL /\ shown.list = <<>>
                            /\ \A x \in Txn : message[x] = "new"
    BY <1>1 DEF Stored, Fresh
  <2>2. client.since = 0 => /\ shown'.list = <<>> /\ shown'.loading # "server"
                            /\ \A x \in Txn : message'[x] = "new"
    BY <1>1, <2>1
  <2> QED BY <1>1, <1>2, <2>2, FreshKept DEF Stored
<1>9. shown'.loading = "server" => shown'.from = shown'.prev_batch
  BY <1>1 DEF Still
<1> QED BY <1>1, <1>7, <1>8, <1>9, StoredKept

\* The echo gets its ID.
LEMMA SetIdStored ==
  ASSUME TypeInv, NEW lo \in Nat, NEW hi \in Nat, Stored(lo, hi), NEW x \in Txn, SetId(x)
  PROVE  Stored(lo, hi)'
<1>1. PICK e : e = Head(done)
  OBVIOUS
<1>2. PICK uid : uid = UidOf(x)
  OBVIOUS
<1>3. /\ history' = history /\ client' = client /\ db' = db /\ done' = Tail(done)
      /\ done # <<>> /\ e.task.then = "set id" /\ queue' = queue /\ e.task.events[1].txn = x
      /\ message' = [message EXCEPT ![x] = "sent"]
  BY <1>1 DEF SetId, Follows
<1>4. message[x] = "restoring" /\ message \in [Txn -> MessageStates] /\ x \in Txns(history)
  <2>1. Later(Tail(done), done) /\ e = done[1]
    BY <1>1, <1>3, DoneTaken DEF TypeInv
  <2>2. 1 \in DOMAIN done
    BY <2>1 DEF Later
  <2> QED BY <1>3, <2>1, <2>2 DEF TypeInv, Sending
<1>5. uid \in DOMAIN history /\ history[uid].txn = x /\ uid \in Uid
  BY <1>2, <1>4, UidIs DEF TypeInv
<1>6. PICK list, listed : list = shown.list /\ listed = WithId(list, x, uid)
  OBVIOUS
<1>7. shown' = [shown EXCEPT !.list = listed]
  BY <1>2, <1>6 DEF SetId, WithId, TypeInv, IsShown
<1>8. {"list", "loading", "from", "prev_batch"} \subseteq DOMAIN shown
  BY DEF TypeInv, IsShown
<1>9. /\ shown'.list = listed /\ shown'.loading = shown.loading /\ shown'.from = shown.from
      /\ shown'.prev_batch = shown.prev_batch
  BY <1>7, <1>8
<1>10. Still /\ Fewer(done', done) /\ GoesOn(message, message')
  <2>1. Fewer(done', done)
    BY <1>3, FewerLeft DEF TypeInv
  <2> QED BY <1>3, <1>4, <1>9, <2>1 DEF Still, GoesOn
<1>11. client.since # 0
  BY <1>4 DEF Stored, Fresh
<1>12. PICK from, to : from = Place(shown.prev_batch) /\ to = client.since
  OBVIOUS
<1>13. /\ IsHistory(history) /\ from \in Nat /\ to \in Nat /\ to <= Len(history)
       /\ Lists(list, history, from, to, message) /\ list \in Seq(Plain)
  BY <1>6, <1>12, Bounds, ContentsAre
<1>14. /\ listed \in Seq(Plain) /\ DOMAIN listed = DOMAIN list
       /\ \A i \in DOMAIN list :
              listed[i] = IF list[i] = Echo(x) THEN [Echo(x) EXCEPT !.uid = uid] ELSE list[i]
  <2>1. /\ WithId(list, x, uid) \in Seq(Plain) /\ Len(WithId(list, x, uid)) = Len(list)
        /\ \A i \in 1 .. Len(list) :
              WithId(list, x, uid)[i] = IF list[i] = Echo(x) THEN [Echo(x) EXCEPT !.uid = uid]
                                        ELSE list[i]
    BY <1>5, <1>13, WithIdTyped
  <2>2. DOMAIN list = 1 .. Len(list) /\ DOMAIN listed = 1 .. Len(listed)
    BY <1>6, <1>13, <2>1
  <2> QED BY <1>6, <2>1, <2>2, Zenon
<1>15. PICK o : o = [Echo(x) EXCEPT !.uid = uid]
  OBVIOUS
<1>16. /\ Echo(x).uid = NULL /\ Echo(x).txn = x /\ ~Echo(x).message
       /\ o.uid = uid /\ o.txn = x /\ ~o.message
  <2>1. Echo(x).uid = NULL /\ Echo(x).txn = x /\ ~Echo(x).message
    BY EchoIs
  <2> QED BY <1>15, <2>1 DEF Echo, Posted
<1>17. Lists(listed, history, from, to, message')
  <2>1. \A i \in DOMAIN list : listed[i].txn = list[i].txn
      /\ (listed[i].message <=> list[i].message)
    BY <1>14, <1>15, <1>16
  <2>2. Distinct(listed)
    BY <1>13, <1>14, <2>1 DEF Lists, Distinct
  <2>3. ASSUME NEW i \in DOMAIN list
        PROVE  \/ IsSynced(listed[i], history, from, to)
               \/ IsEcho(listed[i], history, to) /\ message'[listed[i].txn] # "new"
    <3>1. \/ IsSynced(list[i], history, from, to)
          \/ IsEcho(list[i], history, to) /\ message'[list[i].txn] # "new"
      BY <1>10, <1>13 DEF Lists, GoesOn, IsEcho
    <3>2. CASE list[i] # Echo(x)
      BY <1>14, <3>1, <3>2
    <3>3. CASE list[i] = Echo(x)
      <4>1. ~IsSynced(list[i], history, from, to)
        <5>1. \A k \in from + 1 .. to : k \in 1 .. Len(history)
          BY <1>13
        <5> QED BY <1>13, <1>16, <3>3, <5>1, Places DEF IsSynced
      <4>2. IsEcho(o, history, to) /\ message'[o.txn] # "new"
        BY <1>5, <1>16, <3>1, <3>3, <4>1 DEF IsEcho
      <4> QED BY <1>14, <1>15, <3>3, <4>2
    <3> QED BY <3>2, <3>3
  <2> QED BY <1>14, <2>2, <2>3 DEF Lists
<1>18. Contents'
  <2>1. \A i \in DOMAIN done' : done'[i].task.then = "past" =>
          \A k \in DOMAIN done'[i].result : IsSynced(done'[i].result[k], history, from, to)
    BY <1>10, <1>12 DEF Stored, Contents, Fewer
  <2>2. /\ Place(shown'.prev_batch) = from /\ client'.since = to /\ history' = history
        /\ shown'.list = listed
    BY <1>9, <1>10, <1>12 DEF Still
  <2> QED BY <1>17, <2>1, <2>2 DEF Contents, Lists
<1>19. Fresh'
  BY <1>10, <1>11, FreshKept DEF Stored
<1>20. shown'.loading = "server" => shown'.from = shown'.prev_batch
  BY <1>9 DEF Stored, Tokened
<1> QED BY <1>10, <1>18, <1>19, <1>20, StoredKept

-----------------------------------------------------------------------------
(* The history grows.                                                      *)

\* A part of the history that is there stays as it is.
LEMMA ListsGrow ==
  ASSUME NEW h, IsHistory(h), NEW g, NEW e, Longer(g, h, e), NEW from \in Nat, NEW to \in Nat,
         to <= Len(h), NEW x
  PROVE  /\ IsSynced(x, h, from, to) => IsSynced(x, g, from, to)
         /\ IsEcho(x, h, to) => IsEcho(x, g, to)
<1>1. /\ \A i \in DOMAIN h : i \in DOMAIN g /\ g[i] = h[i]
      /\ Len(h) \in Nat /\ DOMAIN h = 1 .. Len(h)
  BY LongerIs
<1>2. \A i \in from + 1 .. to : i \in DOMAIN h
  BY <1>1
<1>3. \A i \in 1 .. to : i \in DOMAIN h
  BY <1>1
<1>4. IsSynced(x, h, from, to) => IsSynced(x, g, from, to)
  BY <1>1, <1>2 DEF IsSynced
<1>5. ASSUME IsEcho(x, h, to) PROVE IsEcho(x, g, to)
  <2>1. x.uid # NULL => x.uid \in DOMAIN g /\ g[x.uid].txn = x.txn
    BY <1>1, <1>5 DEF IsEcho
  <2>2. \A i \in 1 .. to : g[i].txn # x.txn
    BY <1>1, <1>3, <1>5 DEF IsEcho
  <2> QED BY <1>5, <2>1, <2>2 DEF IsEcho
<1> QED BY <1>4, <1>5

\* What a queue adds stays the same.
LEMMA AddsGrow ==
  ASSUME NEW h, IsHistory(h), NEW e \in Plain, NEW g, g = Append(h, e), NEW q,
         NEW lo \in Nat, NEW hi \in Nat, NEW since \in Nat, since <= Len(h), lo <= since,
         NEW prev \in Nat, Adds(q, h, since, prev, lo, hi)
  PROVE  Adds(q, g, since, prev, lo, hi)
<1>1. Len(h) \in Nat
  BY Places
<1>2. SubSeq(g, hi + 1, since) = SubSeq(h, hi + 1, since)
  <2>1. PICK from : from = hi + 1
    OBVIOUS
  <2>2. from \in Nat /\ from > 0 /\ since \in 0 .. Len(h)
    BY <1>1, <2>1
  <2>3. SubSeq(g, from, since) = SubSeq(h, from, since)
    BY <2>2, PartGrows
  <2> QED BY <2>1, <2>3
<1>3. SubSeq(g, prev + 1, lo) = SubSeq(h, prev + 1, lo)
  <2>1. PICK from : from = prev + 1
    OBVIOUS
  <2>2. from \in Nat /\ from > 0 /\ lo \in 0 .. Len(h)
    BY <1>1, <2>1
  <2>3. SubSeq(g, from, lo) = SubSeq(h, from, lo)
    BY <2>2, PartGrows
  <2> QED BY <2>1, <2>3
<1> QED BY <1>2, <1>3 DEF Adds

\* What is stored stays what it is.
LEMMA StoredGrows ==
  ASSUME TypeInv, NEW lo \in Nat, NEW hi \in Nat, Stored(lo, hi), NEW e \in Plain,
         history' = Append(history, e), Longer(history', history, e),
         client' = client, shown' = shown, db' = db, queue' = queue, done' = done,
         GoesOn(message, message'),
         client.since = 0 => \A x \in Txn : message'[x] = "new"
  PROVE  Stored(lo, hi)'
<1>1. PICK h, g : h = history /\ g = history'
  OBVIOUS
<1>2. PICK from, to : from = Place(shown.prev_batch) /\ to = client.since
  OBVIOUS
<1>3. /\ IsHistory(h) /\ from \in Nat /\ to \in Nat /\ to <= Len(h) /\ lo <= hi /\ hi <= to
      /\ Len(h) \in Nat /\ from <= lo /\ Piece(db.events[room], h, lo, hi)
      /\ Longer(g, h, e) /\ g = Append(h, e)
  BY <1>1, <1>2, Bounds
<1>4. Piece(db.events[room], g, lo, hi)
  <2>1. hi <= Len(h)
    BY <1>3
  <2> QED BY <1>3, <2>1, PieceGrows
<1>5. Adds(queue, g, to, from, lo, hi)
  <2>1. Adds(queue, h, to, from, lo, hi)
    BY <1>1, <1>2 DEF Stored, Rest
  <2>2. lo <= to
    BY <1>3
  <2> QED BY <1>3, <2>1, <2>2, AddsGrow
<1>6. Rest(lo, hi)'
  BY <1>1, <1>2, <1>5 DEF Stored, Rest
<1>7. RoomFirst' /\ Saves'
  BY DEF Stored, RoomFirst, Saves
<1>8. \A i \in DOMAIN g : (i \in DOMAIN h /\ g[i] = h[i]) \/ i = Len(h) + 1
  BY <1>3, LongerIs
<1>9. Tokened(lo)'
  <2>1. \A i \in DOMAIN g : g[i].txn # NULL => i > lo
    <3>1. Len(h) + 1 > lo
      BY <1>3
    <3> QED BY <1>1, <1>8, <3>1 DEF Stored, Tokened
  <2> QED BY <1>1, <2>1 DEF Stored, Tokened
<1>10. Fresh'
  <2>1. history' # <<>>
    <3>1. Len(g) = Len(h) + 1
      BY <1>3, LongerIs
    <3> QED BY <1>1, <1>3, <3>1
  <2> QED BY <2>1 DEF Stored, Fresh
<1>11. Contents'
  <2>1. \A i \in DOMAIN shown.list :
          \/ IsSynced(shown.list[i], g, from, to)
          \/ IsEcho(shown.list[i], g, to) /\ message'[shown.list[i].txn] # "new"
    <3>1. \A i \in DOMAIN shown.list :
            \/ IsSynced(shown.list[i], h, from, to)
            \/ IsEcho(shown.list[i], h, to) /\ message'[shown.list[i].txn] # "new"
      BY <1>1, <1>2 DEF Stored, Contents, GoesOn, IsEcho
    <3>2. \A x : /\ IsSynced(x, h, from, to) => IsSynced(x, g, from, to)
                 /\ IsEcho(x, h, to) => IsEcho(x, g, to)
      BY <1>3, ListsGrow
    <3> QED BY <3>1, <3>2
  <2>2. \A i \in DOMAIN done : done[i].task.then = "past" =>
          \A k \in DOMAIN done[i].result : IsSynced(done[i].result[k], g, from, to)
    <3>1. \A x : IsSynced(x, h, from, to) => IsSynced(x, g, from, to)
      BY <1>3, ListsGrow
    <3> QED BY <1>1, <1>2, <3>1 DEF Stored, Contents
  <2>3. Distinct(shown.list)
    BY DEF Stored, Contents
  <2> QED BY <1>1, <1>2, <2>1, <2>2, <2>3 DEF Contents
<1> QED BY <1>1, <1>4, <1>6, <1>7, <1>9, <1>10, <1>11 DEF Stored

\* Somebody posts, or the server takes a message.
LEMMA PostStored ==
  ASSUME TypeInv, NEW lo \in Nat, NEW hi \in Nat, Stored(lo, hi),
         \/ \E m \in BOOLEAN : Post(m)
         \/ \E x \in Txn : Accept(x)
  PROVE  Stored(lo, hi)'
<1>1. IsHistory(history) /\ message \in [Txn -> MessageStates]
  BY DEF TypeInv, Sending
<1>2. ASSUME NEW m \in BOOLEAN, Post(m) PROVE Stored(lo, hi)'
  <2>1. PICK e : e = Posted(Len(history) + 1, NULL, other, m)
    OBVIOUS
  <2>2. /\ Len(history) < MaxEvents /\ history' = Append(history, e)
        /\ client' = client /\ shown' = shown /\ db' = db /\ queue' = queue /\ done' = done
        /\ message' = message
    BY <1>2, <2>1 DEF Post
  <2>3. e \in Plain /\ e.uid = Len(history) + 1 /\ e.txn = NULL
    BY <1>1, <2>1, <2>2, PostedIs, NamesAssumption
  <2>4. Longer(history', history, e)
    BY <1>1, <2>2, <2>3, HistoryGrows
  <2>5. GoesOn(message, message') /\ (client.since = 0 => \A x \in Txn : message'[x] = "new")
    BY <2>2 DEF GoesOn, Stored, Fresh
  <2> QED BY <2>2, <2>3, <2>4, <2>5, StoredGrows
<1>3. ASSUME NEW x \in Txn, Accept(x) PROVE Stored(lo, hi)'
  <2>1. PICK e, b : e = Posted(Len(history) + 1, x, me, b) /\ b = TRUE
    OBVIOUS
  <2>2. /\ Len(history) < MaxEvents /\ history' = Append(history, e)
        /\ client' = client /\ shown' = shown /\ db' = db /\ queue' = queue /\ done' = done
        /\ message' = [message EXCEPT ![x] = "accepted"] /\ message[x] = "sending"
    BY <1>3, <2>1 DEF Accept
  <2>3. e \in Plain /\ e.uid = Len(history) + 1 /\ e.txn = x /\ e.message
    <3>1. b \in BOOLEAN /\ x \in Txn \cup {NULL} /\ me \in User
      BY <2>1, NamesAssumption
    <3>2. e \in Plain /\ e.uid = Len(history) + 1 /\ e.txn = x /\ e.message = b
      <4>1. IsHistory(history) /\ Len(history) < MaxEvents
        BY <1>1, <2>2
      <4>2. e = Posted(Len(history) + 1, x, me, b)
        BY <2>1
      <4> QED BY <3>1, <4>1, <4>2, PostedIs
    <3> QED BY <2>1, <3>2
  <2>4. x \notin Txns(history)
    BY <2>2 DEF TypeInv, Sending
  <2>5. Longer(history', history, e)
    BY <1>1, <2>2, <2>3, <2>4, HistoryGrows
  <2>6. GoesOn(message, message') /\ client.since # 0
    BY <1>1, <2>2 DEF GoesOn, Stored, Fresh
  <2> QED BY <2>2, <2>3, <2>5, <2>6, StoredGrows
<1> QED BY <1>2, <1>3

-----------------------------------------------------------------------------
(* Steps that put a task into the queue.                                   *)

\* What the queue is to do about the events, the room and the client
QueueIs(q, h, c, s, d, lo, hi) ==
  /\ Adds(q, h, c.since, Place(s.prev_batch), lo, hi)
  /\ c.since > 0 => HasRoom(q, d.rooms)
  /\ RoomsFirst(q, d.rooms)
  /\ RoomSaves(q, d.prev_batch[room], s.prev_batch)
  /\ ClientSaves(q, c.saving, d.next_batch, c.since)

\* A task that is put behind the others
LEMMA PutIs ==
  ASSUME NEW h, NEW q, IsQueue(q, h), NEW t \in Task(h), NEW p, p = Append(q, t)
  PROVE  IsQueue(p, h) /\ Longer(p, q, t) /\ Wider(Thens(p), Thens(q), t.then)
<1>1. q \in Seq(Task(h))
  BY DEF IsQueue
<1>2. PICK n : n = Len(q)
  OBVIOUS
<1>3. /\ n \in Nat /\ DOMAIN q = 1 .. n /\ DOMAIN p = 1 .. n + 1 /\ Len(p) = n + 1
      /\ \A i \in 1 .. n : p[i] = q[i]
      /\ p[n + 1] = t /\ p \in Seq(Task(h))
  BY <1>1, <1>2
<1>4. Longer(p, q, t)
  BY <1>2, <1>3 DEF Longer
<1>5. Wider(Thens(p), Thens(q), t.then)
  <2>1. /\ \A i \in DOMAIN p : (i \in DOMAIN q /\ p[i] = q[i]) \/ p[i] = t
        /\ \A i \in DOMAIN q : i \in DOMAIN p /\ p[i] = q[i]
        /\ n + 1 \in DOMAIN p /\ p[n + 1] = t
    BY <1>2, <1>4, LongerIs
  <2> QED BY <2>1 DEF Wider, Thens
<1> QED BY <1>3, <1>4, <1>5 DEF IsQueue

\* It changes nothing of what the queue is to do.
LEMMA QueueIsPut ==
  ASSUME NEW h, NEW p, NEW q, NEW t \in Task(h), Longer(p, q, t),
         Wider(Thens(p), Thens(q), t.then),
         NEW c, NEW s, NEW d, NEW lo, NEW hi, QueueIs(q, h, c, s, d, lo, hi),
         \/ t.op = "get_past"
         \/ t.then \in {"send", "set id"} /\ c.since > 0
         \/ t.op = "save_room" /\ t.prev = s.prev_batch
  PROVE  QueueIs(p, h, c, s, d, lo, hi)
<1>1. PICK since, prev : since = c.since /\ prev = Place(s.prev_batch)
  OBVIOUS
<1>2. /\ t.then \notin {"next sync", "loaded"} /\ t.op # "save_client"
      /\ t.op = "add_events" => c.since > 0
  BY Kinds
<1>3. Adds(p, h, since, prev, lo, hi)
  BY <1>1, <1>2, AddsPut DEF QueueIs
<1>4. RoomsFirst(p, d.rooms) /\ (HasRoom(q, d.rooms) => HasRoom(p, d.rooms))
  <2>1. t.op = "add_events" => HasRoom(q, d.rooms)
    BY <1>2 DEF QueueIs
  <2>2. RoomsFirst(q, d.rooms)
    BY DEF QueueIs
  <2> QED BY <2>1, <2>2, RoomsFirstPut
<1>5. RoomSaves(p, d.prev_batch[room], s.prev_batch)
  <2>1. IF t.op = "save_room" THEN t.prev = s.prev_batch
        ELSE RoomSaves(q, d.prev_batch[room], s.prev_batch)
    BY <1>2, Kinds DEF QueueIs
  <2> QED BY <2>1, RoomSavesPut
<1>6. ClientSaves(p, c.saving, d.next_batch, c.since)
  BY <1>2, ClientSavesPut DEF QueueIs
<1> QED BY <1>1, <1>3, <1>4, <1>5, <1>6 DEF QueueIs

\* The tables and the tokens stay, the queue and the list change.
Held ==
  /\ history' = history /\ db' = db /\ client'.since = client.since
  /\ shown'.prev_batch = shown.prev_batch

\* What is stored is the same if the queue is to do the same.
LEMMA StoredQueued ==
  ASSUME NEW lo, NEW hi, Stored(lo, hi), Held,
         QueueIs(queue', history, client', shown', db, lo, hi), Fresh', Contents',
         shown'.loading = "server" => shown'.from = shown'.prev_batch
  PROVE  Stored(lo, hi)'
<1>1. Rest(lo, hi)'
  BY DEF Stored, Held, Rest, QueueIs
<1>2. RoomFirst' /\ Saves'
  BY DEF Stored, Held, RoomFirst, Saves, QueueIs
<1>3. Piece(db.events[room], history, lo, hi)'
  BY DEF Stored, Held
<1>4. Tokened(lo)'
  BY DEF Stored, Held, Tokened
<1> QED BY <1>1, <1>2, <1>3, <1>4 DEF Stored

\* The queue is to do that.
LEMMA QueueIsSo ==
  ASSUME NEW lo, NEW hi, Stored(lo, hi)
  PROVE  QueueIs(queue, history, client, shown, db, lo, hi)
BY DEF Stored, Rest, RoomFirst, Saves, QueueIs

\* Nothing begins before the first answer, but a question may be asked.
LEMMA FreshQueued ==
  ASSUME Fresh, Held, Fewer(done', done),
         client.since = 0 =>
           /\ shown'.list = <<>> /\ shown'.loading # "server" /\ client'.saving = "no"
           /\ \A i \in DOMAIN queue' : queue'[i].op \notin {"add_events", "save_client"}
           /\ \A x \in Txn : message'[x] = "new"
  PROVE  Fresh'
<1>1. client.since = 0 => \A i \in DOMAIN done' :
         /\ done'[i].task.op # "add_events"
         /\ done'[i].task.then = "past" => done'[i].result = <<>>
  BY DEF Fresh, Fewer
<1> QED BY <1>1 DEF Fresh, Held

\* The list is what it should be.
LEMMA ContentsQueued ==
  ASSUME Contents, Held, Fewer(done', done),
         Lists(shown'.list, history, Place(shown.prev_batch), client.since, message')
  PROVE  Contents'
<1>1. \A i \in DOMAIN done' : done'[i].task.then = "past" =>
        \A k \in DOMAIN done'[i].result :
          IsSynced(done'[i].result[k], history, Place(shown.prev_batch), client.since)
  BY DEF Contents, Fewer
<1> QED BY <1>1 DEF Contents, Held, Lists

\* A question is put into a queue with or without something before it.
LEMMA Asking ==
  ASSUME TypeInv, NEW lo \in Nat, NEW hi \in Nat, Stored(lo, hi), NEW p, IsQueue(p, history),
         QueueIs(p, history, client, shown, db, lo, hi),
         client.since = 0 =>
           \A i \in DOMAIN p : p[i].op \notin {"add_events", "save_client"},
         Held, client' = client, done' = done, message' = message, shown'.list = shown.list,
         shown'.loading # "server",
         queue' = p \/ queue' = Append(p, GettingPast(Oldest(shown.list)))
  PROVE  Stored(lo, hi)'
<1>1. PICK t : t = GettingPast(Oldest(shown.list))
  OBVIOUS
<1>2. t \in Task(history) /\ t.op = "get_past"
  <2>1. shown.list \in Seq(Plain)
    BY DEF TypeInv, IsShown
  <2>2. Oldest(shown.list) \in Uid \cup {NULL}
    BY <2>1, OldestIs
  <2> QED BY <1>1, <2>2, TasksAre DEF GettingPast
<1>3. PICK r : r = Append(p, t)
  OBVIOUS
<1>4. Longer(r, p, t) /\ Wider(Thens(r), Thens(p), t.then)
  BY <1>2, <1>3, PutIs
<1>5. QueueIs(r, history, client, shown, db, lo, hi)
  BY <1>2, <1>4, QueueIsPut
<1>6. QueueIs(queue', history, client', shown', db, lo, hi)
  <2>1. QueueIs(queue', history, client, shown, db, lo, hi)
    BY <1>1, <1>3, <1>5
  <2> QED BY <2>1 DEF QueueIs, Held
<1>7. \A i \in DOMAIN r : (i \in DOMAIN p /\ r[i] = p[i]) \/ r[i] = t
  BY <1>4, LongerIs
<1>8. Fewer(done', done) /\ GoesOn(message, message')
  BY FewerLeft DEF GoesOn
<1>9. Fresh'
  <2>1. client.since = 0 =>
           \A i \in DOMAIN queue' : queue'[i].op \notin {"add_events", "save_client"}
    BY <1>1, <1>2, <1>3, <1>7
  <2>2. client.since = 0 =>
           /\ shown'.list = <<>> /\ shown'.loading # "server" /\ client'.saving = "no"
           /\ \A x \in Txn : message'[x] = "new"
    BY DEF Stored, Fresh
  <2> QED BY <1>8, <2>1, <2>2, FreshQueued DEF Stored
<1>10. Contents'
  BY <1>8, ContentsAre, ContentsQueued DEF Stored
<1> QED BY <1>6, <1>9, <1>10, StoredQueued

\* Past events are asked for.
LEMMA LoadPastStored ==
  ASSUME TypeInv, NEW lo \in Nat, NEW hi \in Nat, Stored(lo, hi), LoadPast
  PROVE  Stored(lo, hi)'
<1>1. {"list", "loading", "from", "prev_batch"} \subseteq DOMAIN shown
  BY DEF TypeInv, IsShown
<1>2. /\ history' = history /\ message' = message /\ db' = db /\ client' = client /\ done' = done
      /\ \/ queue' = queue /\ shown' = [shown EXCEPT !.loading = "state"]
         \/ /\ queue' = Append(queue, GettingPast(Oldest(shown.list)))
            /\ shown' = [shown EXCEPT !.loading = "db"]
  BY DEF LoadPast
<1>3. Held /\ shown'.list = shown.list /\ shown'.loading # "server"
  BY <1>1, <1>2 DEF Held
<1>4. IsQueue(queue, history) /\ QueueIs(queue, history, client, shown, db, lo, hi)
  BY QueueIsSo DEF TypeInv
<1>5. client.since = 0 => \A i \in DOMAIN queue : queue[i].op \notin {"add_events", "save_client"}
  BY DEF Stored, Fresh
<1> QED BY <1>2, <1>3, <1>4, <1>5, Asking

\* The state of the room is there; the room is saved.
LEMMA StateLoadedStored ==
  ASSUME TypeInv, NEW lo \in Nat, NEW hi \in Nat, Stored(lo, hi), StateLoaded
  PROVE  Stored(lo, hi)'
<1>1. {"list", "loading", "from", "prev_batch", "synced"} \subseteq DOMAIN shown
  BY DEF TypeInv, IsShown
<1>2. PICK t, p, u : /\ t = SavingRoom(shown.prev_batch) /\ p = Append(queue, t)
                     /\ u = GettingPast(Oldest(shown.list))
  OBVIOUS
<1>3. t \in Task(history) /\ t.op = "save_room" /\ t.prev = shown.prev_batch
  <2>1. shown.prev_batch \in Tokens(history)
    BY DEF TypeInv, IsShown
  <2> QED BY <1>2, <2>1, TasksAre DEF SavingRoom
<1>4. u \in Task(history)
  <2>1. shown.list \in Seq(Plain)
    BY DEF TypeInv, IsShown
  <2>2. Oldest(shown.list) \in Uid \cup {NULL}
    BY <2>1, OldestIs
  <2> QED BY <1>2, <2>2, TasksAre
<1>5. IsQueue(p, history) /\ Longer(p, queue, t) /\ Wider(Thens(p), Thens(queue), t.then)
  BY <1>2, <1>3, PutIs DEF TypeInv
<1>6. /\ history' = history /\ message' = message /\ db' = db /\ client' = client /\ done' = done
      /\ queue' = p \/ queue' = Append(p, u)
  <2>1. queue' = p \o (IF shown.loading = "state" THEN <<u>> ELSE <<>>)
    BY <1>2 DEF StateLoaded
  <2>2. p \in Seq(Task(history))
    BY <1>5 DEF IsQueue
  <2>3. p \o <<u>> = Append(p, u) /\ p \o <<>> = p
    BY <1>4, <2>2, JoinIs
  <2> QED BY <2>1, <2>3 DEF StateLoaded
<1>7. Held /\ shown'.list = shown.list /\ shown'.loading # "server"
  <2>1. PICK loading : loading = (IF shown.loading = "state" THEN "db" ELSE "no")
    OBVIOUS
  <2>2. shown' = [shown EXCEPT !.synced = TRUE, !.loading = loading]
    BY <1>1, <2>1 DEF StateLoaded
  <2>3. loading # "server"
    BY <2>1
  <2> QED BY <1>1, <1>6, <2>2, <2>3 DEF Held
<1>8. QueueIs(p, history, client, shown, db, lo, hi)
  <2>1. QueueIs(queue, history, client, shown, db, lo, hi)
    BY QueueIsSo
  <2> QED BY <1>3, <1>5, <2>1, QueueIsPut
<1>9. client.since = 0 => \A i \in DOMAIN p : p[i].op \notin {"add_events", "save_client"}
  <2>1. \A i \in DOMAIN p : (i \in DOMAIN queue /\ p[i] = queue[i]) \/ p[i] = t
    BY <1>5, LongerIs
  <2> QED BY <1>3, <2>1 DEF Stored, Fresh
<1> QED BY <1>2, <1>5, <1>6, <1>7, <1>8, <1>9, Asking

-----------------------------------------------------------------------------
(* Sending, and saving the client.                                         *)

\* What a queue does not do if nothing is to follow it
LEMMA QueueKinds ==
  ASSUME TypeInv
  PROVE  /\ "saved" \notin Thens(queue) => \A i \in DOMAIN queue : queue[i].op # "save_client"
         /\ \A i \in DOMAIN queue : queue[i] \in Task(history) /\ queue[i].then \in Thens(queue)
<1>1. \A i \in DOMAIN queue : queue[i] \in Task(history) /\ queue[i].then \in Thens(queue)
  BY DEF TypeInv, IsQueue, Thens
<1>2. \A i \in DOMAIN queue : queue[i].op = "save_client" => queue[i].then = "saved"
  BY <1>1, Kinds
<1> QED BY <1>1, <1>2

\* A task that stores an echo
LEMMA EchoTask ==
  ASSUME TypeInv, NEW x \in Txn, NEW then \in {"send", "set id"},
         then = "set id" => x \in Txns(history), NEW t, t = Adding(<<Echo(x)>>, FALSE, then)
  PROVE  t \in Task(history) /\ t.then = then /\ t.op = "add_events"
<1>1. t \in Task(history)
  <2>1. CASE then = "send"
    <3>1. t = Adding(<<Echo(x)>>, FALSE, "send")
      BY <2>1
    <3> QED BY <3>1, TasksAre
  <2>2. CASE then = "set id"
    <3>1. t = Adding(<<Echo(x)>>, FALSE, "set id") /\ x \in Txn \cap Txns(history)
      BY <2>2
    <3> QED BY <3>1, TasksAre
  <2> QED BY <2>1, <2>2
<1>2. t.then = then /\ t.op = "add_events"
  <2>1. \A es, k : /\ Adding(es, FALSE, k).then = k
                   /\ Adding(es, FALSE, k).op = "add_events"
    BY DEF Adding
  <2> QED BY <2>1, Zenon
<1> QED BY <1>1, <1>2

\* The echo of a new message is the only thing of it.
LEMMA EchoLists ==
  ASSUME NEW h, IsHistory(h), NEW from \in Nat, NEW to \in Nat, to <= Len(h), NEW m, NEW n,
         NEW list \in Seq(Plain), Lists(list, h, from, to, m), NEW x \in Txn, m[x] = "new",
         n[x] # "new", \A y \in Txn : y # x => n[y] = m[y], x \notin Txns(h)
  PROVE  Lists(Append(list, Echo(x)), h, from, to, n)
<1>1. PICK e, listed : e = Echo(x) /\ listed = Append(list, e)
  OBVIOUS
<1>2. e \in Plain /\ e.uid = NULL /\ e.txn = x /\ ~e.message /\ x # NULL
  BY <1>1, EchoIs
<1>3. Longer(listed, list, e)
  BY <1>1, <1>2 DEF Longer
<1>4. /\ \A i \in DOMAIN listed : (i \in DOMAIN list /\ listed[i] = list[i])
                                  \/ (i = Len(list) + 1 /\ listed[i] = e)
  BY <1>3, LongerIs
<1>5. \A i \in 1 .. Len(h) : h[i].txn # x
  <2>1. DOMAIN h = 1 .. Len(h)
    BY Places
  <2> QED BY <1>2, <2>1 DEF Txns
<1>6. IsEcho(e, h, to)
  <2>1. \A i \in 1 .. to : i \in 1 .. Len(h)
    BY Places
  <2> QED BY <1>2, <1>5, <2>1 DEF IsEcho
<1>7. ASSUME NEW i \in DOMAIN list PROVE list[i].txn # x
  <2>1. \/ IsSynced(list[i], h, from, to)
        \/ IsEcho(list[i], h, to) /\ m[list[i].txn] # "new"
    BY DEF Lists
  <2>2. \A k \in from + 1 .. to : k \in 1 .. Len(h)
    BY Places
  <2> QED BY <1>5, <2>1, <2>2 DEF IsSynced
<1>8. \A i \in DOMAIN listed :
       \/ IsSynced(listed[i], h, from, to)
       \/ IsEcho(listed[i], h, to) /\ n[listed[i].txn] # "new"
  <2>1. ASSUME NEW i \in DOMAIN list
        PROVE  \/ IsSynced(list[i], h, from, to)
               \/ IsEcho(list[i], h, to) /\ n[list[i].txn] # "new"
    <3>1. \/ IsSynced(list[i], h, from, to)
          \/ IsEcho(list[i], h, to) /\ m[list[i].txn] # "new"
      BY DEF Lists
    <3>2. IsEcho(list[i], h, to) => list[i].txn \in Txn
      BY DEF IsEcho
    <3> QED BY <1>7, <3>1, <3>2
  <2> QED BY <1>2, <1>4, <1>6, <2>1
<1>9. Distinct(listed)
  BY <1>2, <1>4, <1>7 DEF Lists, Distinct
<1> QED BY <1>1, <1>8, <1>9 DEF Lists

\* A message is sent: its echo is shown, and is to be stored.
LEMMA SendStored ==
  ASSUME TypeInv, NEW lo \in Nat, NEW hi \in Nat, Stored(lo, hi), ~EmptySends, NEW x \in Txn,
         Send(x)
  PROVE  Stored(lo, hi)'
<1>1. PICK t, listed : t = Adding(<<Echo(x)>>, FALSE, "send")
    /\ listed = Append(shown.list, Echo(x))
  OBVIOUS
<1>2. {"list", "loading", "from", "prev_batch"} \subseteq DOMAIN shown
  BY DEF TypeInv, IsShown
<1>3. message \in [Txn -> MessageStates] /\ (message[x] = "new" => x \notin Txns(history))
  BY DEF TypeInv, Sending
<1>4. /\ history' = history /\ client' = client /\ db' = db /\ done' = done
      /\ message[x] = "new" /\ message' = [message EXCEPT ![x] = "storing"]
      /\ shown' = [shown EXCEPT !.list = listed] /\ queue' = Append(queue, t)
      /\ shown.list # <<>>
  BY <1>1, <1>2 DEF Send
<1>5. /\ Held /\ shown'.list = listed /\ shown'.loading = shown.loading
      /\ shown'.from = shown.from
  BY <1>2, <1>4 DEF Held
<1>6. client.since \in Nat /\ client.since > 0
  <2>1. client.since # 0 /\ client.since \in Nat
    BY <1>4, Bounds DEF Stored, Fresh
  <2> QED BY <2>1
<1>7. t \in Task(history) /\ t.then = "send" /\ t.op = "add_events"
  <2>1. PICK then : then = "send"
    OBVIOUS
  <2> QED BY <1>1, <2>1, EchoTask
<1>8. QueueIs(queue', history, client', shown', db, lo, hi)
  <2>1. Longer(queue', queue, t) /\ Wider(Thens(queue'), Thens(queue), t.then)
    BY <1>4, <1>7, PutIs DEF TypeInv
  <2>2. QueueIs(queue, history, client, shown, db, lo, hi)
    BY QueueIsSo
  <2>3. QueueIs(queue', history, client, shown, db, lo, hi)
    BY <1>6, <1>7, <2>1, <2>2, QueueIsPut
  <2> QED BY <1>4, <1>5, <2>3 DEF QueueIs, Held
<1>9. Fewer(done', done)
  BY <1>4, FewerLeft
<1>10. Fresh'
  BY <1>5, <1>6, <1>9, FreshQueued DEF Stored
<1>11. Contents'
  <2>1. PICK from, to : from = Place(shown.prev_batch) /\ to = client.since
    OBVIOUS
  <2>2. /\ IsHistory(history) /\ from \in Nat /\ to \in Nat /\ to <= Len(history)
        /\ Lists(shown.list, history, from, to, message) /\ shown.list \in Seq(Plain)
    BY <2>1, Bounds, ContentsAre
  <2>3. message'[x] # "new" /\ \A y \in Txn : y # x => message'[y] = message[y]
    BY <1>3, <1>4
  <2>4. Lists(listed, history, from, to, message')
    BY <1>1, <1>3, <1>4, <2>2, <2>3, EchoLists
  <2> QED BY <1>5, <1>9, <2>1, <2>4, ContentsQueued DEF Stored
<1>12. shown'.loading = "server" => shown'.from = shown'.prev_batch
  BY <1>5 DEF Stored, Tokened, Held
<1> QED BY <1>5, <1>8, <1>10, <1>11, <1>12, StoredQueued

\* The message is stored again.
LEMMA SentStored ==
  ASSUME TypeInv, NEW lo \in Nat, NEW hi \in Nat, Stored(lo, hi), NEW x \in Txn, Sent(x)
  PROVE  Stored(lo, hi)'
<1>1. PICK t : t = Adding(<<Echo(x)>>, FALSE, "set id")
  OBVIOUS
<1>2. message \in [Txn -> MessageStates] /\ (message[x] = "accepted" => x \in Txns(history))
  BY DEF TypeInv, Sending
<1>3. /\ history' = history /\ client' = client /\ db' = db /\ done' = done /\ shown' = shown
      /\ message[x] = "accepted" /\ message' = [message EXCEPT ![x] = "restoring"]
      /\ queue' = Append(queue, t)
  BY <1>1 DEF Sent
<1>4. Held
  BY <1>3 DEF Held
<1>5. client.since \in Nat /\ client.since > 0
  <2>1. client.since # 0 /\ client.since \in Nat
    BY <1>3, Bounds DEF Stored, Fresh
  <2> QED BY <2>1
<1>6. t \in Task(history) /\ t.then = "set id" /\ t.op = "add_events"
  <2>1. PICK then : then = "set id"
    OBVIOUS
  <2> QED BY <1>1, <1>2, <1>3, <2>1, EchoTask
<1>7. QueueIs(queue', history, client', shown', db, lo, hi)
  <2>1. Longer(queue', queue, t) /\ Wider(Thens(queue'), Thens(queue), t.then)
    BY <1>3, <1>6, PutIs DEF TypeInv
  <2>2. QueueIs(queue, history, client, shown, db, lo, hi)
    BY QueueIsSo
  <2>3. QueueIs(queue', history, client, shown, db, lo, hi)
    BY <1>5, <1>6, <2>1, <2>2, QueueIsPut
  <2> QED BY <1>3, <2>3
<1>8. Fewer(done', done) /\ GoesOn(message, message')
  BY <1>2, <1>3, FewerLeft DEF GoesOn
<1>9. Fresh'
  BY <1>4, <1>5, <1>8, FreshQueued DEF Stored
<1>10. Contents'
  <2>1. Lists(shown'.list, history, Place(shown.prev_batch), client.since, message')
    <3>1. Lists(shown.list, history, Place(shown.prev_batch), client.since, message)
      BY ContentsAre
    <3>2. Lists(shown.list, history, Place(shown.prev_batch), client.since, message')
      BY <1>8, <3>1 DEF Lists, GoesOn, IsEcho
    <3> QED BY <1>3, <3>2
  <2> QED BY <1>4, <1>8, <2>1, ContentsQueued DEF Stored
<1>11. shown'.loading = "server" => shown'.from = shown'.prev_batch
  BY <1>3 DEF Stored, Tokened
<1> QED BY <1>4, <1>7, <1>9, <1>10, <1>11, StoredQueued

-----------------------------------------------------------------------------

\* A save of the client is put into the queue, or follows the one that is there.
LEMMA SavingStored ==
  ASSUME TypeInv, NEW lo \in Nat, NEW hi \in Nat, Stored(lo, hi), Held,
         client.since > 0 \/ (client'.saving = "no" /\ queue' = queue),
         shown' = shown, message' = message, Fewer(done', done),
         \/ /\ queue' = Append(queue, SavingClient(client.since)) /\ client'.saving = "saving"
            /\ "saved" \notin Thens(queue)
         \/ queue' = queue /\ ClientSaves(queue, client'.saving, db.next_batch, client.since)
  PROVE  Stored(lo, hi)'
<1>1. client.since \in 0 .. Len(history) /\ client.since \in Nat
  BY Bounds
<1>2. QueueIs(queue, history, client, shown, db, lo, hi)
  BY QueueIsSo
<1>3. QueueIs(queue', history, client', shown', db, lo, hi)
  <2>1. CASE queue' = queue /\ ClientSaves(queue, client'.saving, db.next_batch, client.since)
    BY <1>2, <2>1 DEF QueueIs, Held
  <2>2. CASE /\ queue' = Append(queue, SavingClient(client.since)) /\ client'.saving = "saving"
             /\ "saved" \notin Thens(queue)
    <3>1. PICK t, p : t = SavingClient(client.since) /\ p = Append(queue, t)
      OBVIOUS
    <3>2. /\ t \in Task(history) /\ t.op = "save_client" /\ t.then = "saved"
          /\ t.batch = client.since
      BY <1>1, <3>1, TasksAre DEF SavingClient
    <3>3. Longer(p, queue, t) /\ Wider(Thens(p), Thens(queue), t.then)
      BY <3>1, <3>2, PutIs DEF TypeInv
    <3>4. Adds(p, history, client.since, Place(shown.prev_batch), lo, hi)
      <4>1. PICK since, prev : since = client.since /\ prev = Place(shown.prev_batch)
        OBVIOUS
      <4>2. Adds(p, history, since, prev, lo, hi)
        BY <1>2, <3>2, <3>3, <4>1, AddsPut DEF QueueIs
      <4> QED BY <4>1, <4>2
    <3>5. RoomsFirst(p, db.rooms) /\ (HasRoom(queue, db.rooms) => HasRoom(p, db.rooms))
      <4>1. RoomsFirst(queue, db.rooms) /\ t.op # "add_events"
        BY <1>2, <3>2 DEF QueueIs
      <4> QED BY <3>3, <4>1, RoomsFirstPut
    <3>6. RoomSaves(p, db.prev_batch[room], shown.prev_batch)
      <4>1. t.op # "save_room" /\ RoomSaves(queue, db.prev_batch[room], shown.prev_batch)
        BY <1>2, <3>2 DEF QueueIs
      <4> QED BY <3>3, <4>1, RoomSavesPut
    <3>7. ClientSaves(p, client'.saving, db.next_batch, client.since)
      <4>1. \A i \in DOMAIN queue : queue[i].op # "save_client"
        BY <2>2, Kinds, QueueKinds
      <4> QED BY <2>2, <3>2, <3>3, <4>1, ClientSavesPut
    <3>8. queue' = p
      BY <2>2, <3>1
    <3> QED BY <1>2, <3>4, <3>5, <3>6, <3>7, <3>8 DEF QueueIs, Held
  <2> QED BY <2>1, <2>2
<1>4. Fresh'
  <2>1. client.since = 0 => queue' = queue /\ client'.saving = "no"
    BY <1>1
  <2>2. client.since = 0 =>
           /\ shown'.list = <<>> /\ shown'.loading # "server" /\ client'.saving = "no"
           /\ \A i \in DOMAIN queue' : queue'[i].op \notin {"add_events", "save_client"}
           /\ \A x \in Txn : message'[x] = "new"
    BY <2>1 DEF Stored, Fresh
  <2> QED BY <2>2, FreshQueued DEF Stored
<1>5. Contents'
  BY ContentsAre, ContentsQueued DEF Stored
<1>6. shown'.loading = "server" => shown'.from = shown'.prev_batch
  BY DEF Stored, Tokened
<1> QED BY <1>3, <1>4, <1>5, <1>6, StoredQueued

\* An answer without events
LEMMA SyncEmptyStored ==
  ASSUME TypeInv, NEW lo \in Nat, NEW hi \in Nat, Stored(lo, hi), SyncEmpty
  PROVE  Stored(lo, hi)'
<1>1. /\ history' = history /\ message' = message /\ db' = db /\ shown' = shown /\ done' = done
      /\ client.since = Len(history)
      /\ queue' = IF client.saving = "no" THEN Append(queue, SavingClient(client.since)) ELSE queue
  BY DEF SyncEmpty
<1>2. client'.saving = (IF client.saving = "no" THEN "saving" ELSE "pending")
    /\ client'.since = client.since
  <2>1. {"since", "saving", "empty"} \subseteq DOMAIN client
    BY DEF TypeInv, IsClient
  <2> QED BY <2>1 DEF SyncEmpty
<1>3. Held /\ Fewer(done', done)
  BY <1>1, <1>2, FewerLeft DEF Held
<1>4. client.since > 0
  BY <1>1, Bounds
<1>5. CASE client.saving = "no"
  <2>1. "saved" \notin Thens(queue)
    BY <1>5 DEF TypeInv, Flags
  <2> QED BY <1>1, <1>2, <1>3, <1>4, <1>5, <2>1, SavingStored
<1>6. CASE client.saving # "no"
  <2>1. ClientSaves(queue, client'.saving, db.next_batch, client.since)
    BY <1>2, <1>6 DEF ClientSaves
  <2> QED BY <1>1, <1>3, <1>4, <1>6, <2>1, SavingStored
<1> QED BY <1>5, <1>6

\* The client has been saved.
LEMMA ClientSavedStored ==
  ASSUME TypeInv, NEW lo \in Nat, NEW hi \in Nat, Stored(lo, hi), ClientSaved
  PROVE  Stored(lo, hi)'
<1>1. PICK e, r : e = Head(done) /\ r = Tail(done)
  OBVIOUS
<1>2. /\ history' = history /\ shown' = shown /\ message' = message /\ db' = db /\ done' = r
      /\ done # <<>> /\ e.task.then = "saved"
  BY <1>1 DEF ClientSaved, Follows
<1>3. "saved" \notin Thens(queue) /\ e.task.then \in DoneThens(done)
  BY <1>1, <1>2, DoneTaken DEF TypeInv
<1>4. {"since", "saving"} \subseteq DOMAIN client
  BY DEF TypeInv, IsClient
<1>5. Fewer(done', done)
  BY <1>1, <1>2, FewerLeft DEF TypeInv
<1>6. client.saving \in {"saving", "pending"} /\ client.since \in Nat /\ client.since > 0
  <2>1. client.saving \in {"saving", "pending"}
    BY <1>2, <1>3 DEF TypeInv, Flags, IsClient
  <2>2. client.since # 0 /\ client.since \in Nat
    BY <2>1, Bounds DEF Stored, Fresh
  <2> QED BY <2>1, <2>2
<1>7. CASE client.saving = "saving"
  <2>1. client' = [client EXCEPT !.saving = "no"] /\ queue' = queue
    BY <1>7 DEF ClientSaved
  <2>2. Held /\ client'.saving = "no"
    BY <1>2, <1>4, <2>1 DEF Held
  <2>3. \A i \in DOMAIN queue : queue[i].op # "save_client"
    BY <1>3, QueueKinds
  <2>4. ClientSaves(queue, client'.saving, db.next_batch, client.since)
    BY <1>7, <2>2, <2>3 DEF Stored, Saves, ClientSaves
  <2> QED BY <1>2, <1>5, <1>6, <2>1, <2>2, <2>4, SavingStored
<1>8. CASE client.saving = "pending"
  <2>1. client' = [client EXCEPT !.saving = "saving"]
      /\ queue' = Append(queue, SavingClient(client.since))
    BY <1>8 DEF ClientSaved
  <2>2. Held /\ client'.saving = "saving"
    BY <1>2, <1>4, <2>1 DEF Held
  <2> QED BY <1>2, <1>3, <1>5, <1>6, <2>1, <2>2, SavingStored
<1> QED BY <1>6, <1>7, <1>8

-----------------------------------------------------------------------------
(* What is found in the tables.                                            *)

\* The messages of the rows have been synced.
LEMMA PastSynced ==
  ASSUME NEW d, IsRows(d.events[room]), NEW h, NEW lo, NEW hi, Piece(d.events[room], h, lo, hi),
         NEW sorted \in Int, NEW skip \in BOOLEAN, NEW past,
             past = PastEvents(d, room, sorted, skip)
  PROVE  past \in Seq(Plain) /\ \A k \in 1 .. Len(past) : IsSynced(past[k], h, lo, hi)
<1>1. PICK older, first, size :
        /\ older = OlderMessages(d.events[room], sorted)
        /\ first = IF skip THEN 1 ELSE 0
        /\ size = IF Cardinality(older) <= PageSize THEN Cardinality(older) ELSE PageSize
  OBVIOUS
<1>2. past \in Seq(Plain) /\ \A k \in 1 .. Len(past) : \E row \in older : past[k] = row.event
  BY <1>1, PastEventsAre
<1>3. ASSUME NEW row \in older PROVE IsSynced(row.event, h, lo, hi)
  <2>1. row \in d.events[room] /\ row.event.message
    BY <1>1, <1>3 DEF OlderMessages
  <2>2. row.event.uid # NULL
    <3>1. ASSUME row.event.uid = NULL PROVE FALSE
      <4>1. PICK x : x = row.event.txn
        OBVIOUS
      <4>2. x \in Txn /\ row.event = Echo(x)
        BY <2>1, <3>1, <4>1 DEF Piece
      <4>3. ~Echo(x).message
        BY <4>2, EchoIs
      <4> QED BY <2>1, <4>2, <4>3
    <3> QED BY <3>1
  <2> QED BY <2>1, <2>2 DEF Piece, IsSynced
<1> QED BY <1>2, <1>3

\* ... and so has what is found before an event.
LEMMA GetPastSynced ==
  ASSUME NEW d, IsRows(d.events[room]), NEW h, NEW lo, NEW hi, Piece(d.events[room], h, lo, hi),
         NEW from, NEW past, past = GetPastEvents(d, room, from).result
  PROVE  /\ \A k \in DOMAIN past : IsSynced(past[k], h, lo, hi)
         /\ d.events[room] = {} => past = <<>>
<1> DEFINE row == IF from = NULL
                  THEN {x \in d.events[room] : x.sorted_id = LastId(d, room)}
                  ELSE RowsOf(d, room, from)
           x == CHOOSE y \in row : TRUE
<1>1. PICK run : run = GetPastEvents(d, room, from)
  OBVIOUS
<1>2. \/ run = Done(d, <<>>)
      \/ /\ row # {} /\ run = Done(d, PastEvents(d, room, x.sorted_id, from # NULL))
         /\ d.events[room] # {}
  BY <1>1 DEF GetPastEvents
<1>3. row \subseteq d.events[room]
  BY DEF RowsOf
<1>4. row # {} => x \in d.events[room]
  BY <1>3
<1> HIDE DEF x, row
<1>5. row # {} => x.sorted_id \in Int
  BY <1>4 DEF IsRows
<1>6. \A r : Done(d, r).result = r
  BY DEF Done
<1>7. CASE run = Done(d, <<>>)
  <2>1. past = <<>>
    BY <1>1, <1>6, <1>7
  <2> QED BY <2>1
<1>8. CASE /\ row # {} /\ run = Done(d, PastEvents(d, room, x.sorted_id, from # NULL))
           /\ d.events[room] # {}
  <2>1. PICK skip, sorted : skip = (from # NULL) /\ sorted = x.sorted_id
    OBVIOUS
  <2>2. skip \in BOOLEAN /\ sorted \in Int /\ past = PastEvents(d, room, sorted, skip)
    BY <1>1, <1>5, <1>6, <1>8, <2>1
  <2>3. past \in Seq(Plain) /\ \A k \in 1 .. Len(past) : IsSynced(past[k], h, lo, hi)
    BY <2>2, PastSynced
  <2> QED BY <1>8, <2>3
<1> QED BY <1>2, <1>7, <1>8

\* Between other tokens
LEMMA SyncedWider ==
  ASSUME NEW lo \in Nat, NEW hi \in Nat, NEW from \in 0 .. lo, NEW to \in Nat, hi <= to, NEW h,
         NEW e
  PROVE  IsSynced(e, h, lo, hi) => IsSynced(e, h, from, to)
<1>1. \A u \in lo + 1 .. hi : u \in from + 1 .. to
  OBVIOUS
<1> QED BY <1>1 DEF IsSynced

-----------------------------------------------------------------------------
(* The worker runs a task.                                                 *)

\* A task leaves what the tables do not depend on.
LEMMA WorkedStored ==
  ASSUME TypeInv, NEW lo \in Nat, NEW hi \in Nat, Stored(lo, hi), NEW t, NEW r, NEW run,
         WorkStep(t, r, run), WorkParts(t, r, run), NEW from, NEW to,
         Adds(r, history, client.since, Place(shown.prev_batch), from, to),
         from \in Nat, to \in from .. client.since, Place(shown.prev_batch) <= from, from <= lo,
         Piece(db'.events[room], history, from, to),
         client.since > 0 => HasRoom(r, db'.rooms),
         RoomsFirst(r, db'.rooms),
         room \in db'.rooms => room \notin db'.replaced /\ db'.state[room] = "join",
         RoomSaves(r, db'.prev_batch[room], shown.prev_batch),
         ClientSaves(r, client.saving, db'.next_batch, client.since),
         room \notin db'.rooms => db'.prev_batch[room] = NULL,
         client.since = 0 => db'.next_batch = NULL /\ db'.events[room] = {},
         t.then = "past" =>
           /\ client.since = 0 => run.result = <<>>
           /\ \A k \in DOMAIN run.result :
                IsSynced(run.result[k], history, Place(shown.prev_batch), client.since)
  PROVE  Stored(from, to)'
<1>1. /\ history' = history /\ client' = client /\ shown' = shown /\ message' = message
      /\ db' = run.db /\ queue' = r
      /\ done' = IF t.then = "nothing" THEN done
                 ELSE Append(done, [task |-> t, result |-> run.result])
  BY DEF WorkStep
<1>2. Later(r, queue) /\ t = queue[1] /\ 1 \in DOMAIN queue
  <2>1. Later(r, queue) /\ t = queue[1]
    BY DEF WorkParts
  <2> QED BY <2>1, LaterIs
<1>3. \A i \in DOMAIN done' : (i \in DOMAIN done /\ done'[i] = done[i]) \/
        (done'[i].task = t /\ done'[i].result = run.result /\ t.then # "nothing")
  <2>1. CASE t.then = "nothing"
    BY <1>1, <2>1
  <2>2. CASE t.then # "nothing"
    <3>1. PICK e : e = [task |-> t, result |-> run.result]
      OBVIOUS
    <3>2. done \in Seq(Range(done))
      BY DEF TypeInv, IsDone
    <3>3. done' = Append(done, e)
      BY <1>1, <2>2, <3>1
    <3>4. \A i \in DOMAIN done' : (i \in DOMAIN done /\ done'[i] = done[i]) \/ done'[i] = e
      BY <3>2, <3>3
    <3> QED BY <2>2, <3>1, <3>4
  <2> QED BY <2>1, <2>2
<1>4. Rest(from, to)' /\ RoomFirst' /\ Saves'
  BY <1>1 DEF Rest, RoomFirst, Saves
<1>5. Tokened(from)'
  <2>1. \A i \in DOMAIN history : history[i].txn # NULL => i > from
    <3>1. \A i \in DOMAIN history : i \in Nat
      BY Bounds
    <3> QED BY <3>1 DEF Stored, Tokened
  <2> QED BY <1>1, <2>1 DEF Stored, Tokened
<1>6. Fresh'
  <2>1. client.since = 0 =>
          /\ \A i \in DOMAIN r : r[i].op \notin {"add_events", "save_client"}
          /\ t.op # "add_events"
    BY <1>2, LaterIs DEF Stored, Fresh
  <2>2. client.since = 0 => \A i \in DOMAIN done' :
          /\ done'[i].task.op # "add_events"
          /\ done'[i].task.then = "past" => done'[i].result = <<>>
    BY <1>3, <2>1 DEF Stored, Fresh
  <2> QED BY <1>1, <2>1, <2>2 DEF Stored, Fresh
<1>7. Contents'
  <2>1. \A i \in DOMAIN done' : done'[i].task.then = "past" =>
          \A k \in DOMAIN done'[i].result :
            IsSynced(done'[i].result[k], history, Place(shown.prev_batch), client.since)
    BY <1>3 DEF Stored, Contents
  <2> QED BY <1>1, <2>1 DEF Stored, Contents
<1> QED BY <1>1, <1>4, <1>5, <1>6, <1>7 DEF Stored

\* A task that adds no events
LEMMA OtherWork ==
  ASSUME TypeInv, NEW lo \in Nat, NEW hi \in Nat, Stored(lo, hi), NEW t, NEW r, NEW run,
         WorkStep(t, r, run), WorkParts(t, r, run), t.op # "add_events"
  PROVE  Stored(lo, hi)'
<1>1. /\ Later(r, queue) /\ t = queue[1] /\ 1 \in DOMAIN queue /\ t \in Task(history)
      /\ Wider(Thens(queue), Thens(r), t.then) /\ Runs(db, t, run) /\ TaskIs(t, history)
      /\ t.then # "nothing" => t.then \notin Thens(r) \cup DoneThens(done)
      /\ IsQueue(r, history) /\ db' = run.db
  <2>1. Later(r, queue)
    BY DEF WorkParts
  <2>2. 1 \in DOMAIN queue
    BY <2>1, LaterIs
  <2> QED BY <2>2 DEF WorkParts, WorkStep
<1>2. PICK since, prev : since = client.since /\ prev = Place(shown.prev_batch)
  OBVIOUS
<1>3. /\ lo <= hi /\ hi <= since /\ since \in Nat /\ since <= Len(history) /\ prev \in 0 .. lo
      /\ Piece(db.events[room], history, lo, hi) /\ IsRows(db.events[room]) /\ Len(history) \in Nat
  BY <1>2, Bounds
<1>4. QueueIs(queue, history, client, shown, db, lo, hi)
  BY QueueIsSo
<1>5. t.then \notin {"next sync", "loaded"} /\ (t.op = "save_client" <=> t.then = "saved")
      /\ (t.op = "get_past" <=> t.then = "past")
  BY <1>1, Kinds
<1>6. Adds(r, history, since, prev, lo, hi)
  <2>1. Adds(queue, history, since, prev, lo, hi) /\ (t.then # "nothing" => t.then \notin Thens(r))
    BY <1>1, <1>2, <1>4 DEF QueueIs
  <2>2. StillAdds(t, r, history, since, prev, lo, hi)
    BY <1>1, <2>1, AddsTaken
  <2> QED BY <1>5, <2>2 DEF StillAdds
<1>7. t.op # "save_room" => /\ RoomsFirst(r, db.rooms)
                            /\ HasRoom(queue, db.rooms) => HasRoom(r, db.rooms)
  BY <1>1, <1>4, RoomsFirstTaken DEF QueueIs
<1>8. RoomSaves(r, IF t.op = "save_room" THEN t.prev ELSE db.prev_batch[room], shown.prev_batch)
  BY <1>1, <1>4, RoomSavesTaken DEF QueueIs
<1>9. t.op = "save_client" => t.batch \in 0 .. Len(history) /\ Place(t.batch) = t.batch
  <2>1. ASSUME t.op = "save_client" PROVE t.batch \in 0 .. Len(history)
    BY <1>1, <2>1, <1>5 DEF TaskIs
  <2>2. \A b \in 0 .. Len(history) : Place(b) = b
    <3>1. \A b \in 0 .. Len(history) : b \in Token
      BY HistoryAssumption, BoundsAssumption DEF TypeInv, IsHistory
    <3> QED BY <3>1, NamesAssumption DEF Place
  <2> QED BY <2>1, <2>2
<1>10. ClientSaves(r, client.saving, IF t.op = "save_client" THEN t.batch ELSE db.next_batch, since)
  <2>1. t.op = "save_client" => /\ client.saving # "no"
                                /\ \A i \in DOMAIN r : r[i].op # "save_client"
    <3>1. ASSUME t.op = "save_client" PROVE \A i \in DOMAIN r : r[i].op # "save_client"
      <4>1. \A i \in DOMAIN r : r[i] \in Task(history) /\ r[i].then \in Thens(r)
        BY <1>1 DEF IsQueue, Thens
      <4>2. \A i \in DOMAIN r : r[i].op = "save_client" => r[i].then = "saved"
        BY <4>1, Kinds
      <4> QED BY <1>1, <1>5, <3>1, <4>1, <4>2
    <3>2. t.op = "save_client" => client.saving # "no"
      BY <1>1, <1>5 DEF TypeInv, Flags, Wider
    <3> QED BY <3>1, <3>2
  <2>2. ClientSaves(queue, client.saving, db.next_batch, since)
    BY <1>2, <1>4 DEF QueueIs
  <2>3. t.op = "save_client" =>
           /\ client.saving # "no" /\ Place(t.batch) = t.batch
           /\ \A i \in DOMAIN r : r[i].op # "save_client"
    BY <1>9, <2>1
  <2> QED BY <1>1, <2>2, <2>3, ClientSavesTaken
<1>11. /\ since > 0 => HasRoom(queue, db.rooms)
       /\ room \in db.rooms => room \notin db.replaced /\ db.state[room] = "join"
       /\ room \notin db.rooms => db.prev_batch[room] = NULL
       /\ since = 0 => db.next_batch = NULL /\ db.events[room] = {} /\ t.op # "save_client"
  BY <1>1, <1>2 DEF Stored, RoomFirst, Tokened, Fresh
<1>12. Shape(db)
  BY DEF TypeInv, IsTables
<1>13. /\ db'.events = db.events
       /\ HasRoom(queue, db.rooms) => HasRoom(r, db'.rooms)
       /\ RoomsFirst(r, db'.rooms)
       /\ room \in db'.rooms => room \notin db'.replaced /\ db'.state[room] = "join"
       /\ db'.prev_batch[room] = IF t.op = "save_room" THEN t.prev ELSE db.prev_batch[room]
       /\ db'.next_batch = IF t.op = "save_client" THEN t.batch ELSE db.next_batch
       /\ room \notin db'.rooms => db'.prev_batch[room] = NULL
  <2>1. CASE t.op = "save_client" /\ SavesClient(db, run.db, t.batch)
    BY <1>1, <1>7, <1>11, <2>1 DEF SavesClient
  <2>2. CASE t.op = "save_room" /\ SavesRoom(db, run.db, t.prev)
    <3>1. /\ db'.events = db.events /\ room \in db'.rooms /\ room \notin db'.replaced
          /\ db'.next_batch = db.next_batch
          /\ db'.prev_batch = [db.prev_batch EXCEPT ![room] = t.prev]
          /\ db'.state = [db.state EXCEPT ![room] = "join"]
      BY <1>1, <2>2 DEF SavesRoom
    <3>2. db'.prev_batch[room] = t.prev /\ db'.state[room] = "join"
      BY <1>12, <3>1 DEF Shape
    <3> QED BY <2>2, <3>1, <3>2 DEF HasRoom, RoomsFirst
  <2>3. CASE t.op = "get_past" /\ run.db = db
    BY <1>1, <1>7, <1>11, <2>3
  <2> QED BY <1>1, <2>1, <2>2, <2>3 DEF Runs
<1>14. t.then = "past" =>
         /\ since = 0 => run.result = <<>>
         /\ \A k \in DOMAIN run.result : IsSynced(run.result[k], history, prev, since)
  <2>1. SUFFICES ASSUME t.then = "past"
                 PROVE  /\ since = 0 => run.result = <<>>
                        /\ \A k \in DOMAIN run.result :
                            IsSynced(run.result[k], history, prev, since)
    OBVIOUS
  <2>2. run.result = GetPastEvents(db, room, t.from).result
    BY <1>1, <1>5, <2>1 DEF Runs
  <2>3. PICK past : past = run.result
    OBVIOUS
  <2>4. /\ \A k \in DOMAIN past : IsSynced(past[k], history, lo, hi)
        /\ db.events[room] = {} => past = <<>>
    BY <1>3, <2>2, <2>3, GetPastSynced
  <2>5. \A e : IsSynced(e, history, lo, hi) => IsSynced(e, history, prev, since)
    BY <1>3, SyncedWider
  <2> QED BY <1>11, <2>3, <2>4, <2>5
<1>15. /\ hi \in lo .. since /\ prev <= lo /\ lo <= lo
  BY <1>3
<1>16. Piece(db'.events[room], history, lo, hi)
  BY <1>3, <1>13
<1>17. /\ RoomSaves(r, db'.prev_batch[room], shown.prev_batch)
       /\ ClientSaves(r, client.saving, db'.next_batch, since)
  BY <1>8, <1>10, <1>13
<1>18. since = 0 => db'.next_batch = NULL /\ db'.events[room] = {}
  BY <1>11, <1>13
<1>19. since > 0 => HasRoom(r, db'.rooms)
  BY <1>11, <1>13
<1> QED BY <1>2, <1>6, <1>13, <1>14, <1>15, <1>16, <1>17, <1>18, <1>19, WorkedStored

\* A task that adds events: the rows are what they were, with the events that have
\* been synced, or loaded, or with an echo.
LEMMA AddingWork ==
  ASSUME TypeInv, NEW lo \in Nat, NEW hi \in Nat, Stored(lo, hi), NEW t, NEW r, NEW run,
         WorkStep(t, r, run), WorkParts(t, r, run), t.op = "add_events"
  PROVE  \E from, to \in Nat : Stored(from, to)'
<1>1. /\ Later(r, queue) /\ t = queue[1] /\ 1 \in DOMAIN queue /\ t \in Task(history)
      /\ Wider(Thens(queue), Thens(r), t.then) /\ Runs(db, t, run) /\ TaskIs(t, history)
      /\ t.then # "nothing" => t.then \notin Thens(r) \cup DoneThens(done)
      /\ IsQueue(r, history) /\ db' = run.db
  <2>1. Later(r, queue)
    BY DEF WorkParts
  <2>2. 1 \in DOMAIN queue
    BY <2>1, LaterIs
  <2> QED BY <2>2 DEF WorkParts, WorkStep
<1>2. PICK since, prev : since = client.since /\ prev = Place(shown.prev_batch)
  OBVIOUS
<1>3. /\ lo <= hi /\ hi <= since /\ since \in Nat /\ since <= Len(history) /\ prev \in 0 .. lo
      /\ Piece(db.events[room], history, lo, hi) /\ IsRows(db.events[room]) /\ Len(history) \in Nat
      /\ IsHistory(history)
  BY <1>2, Bounds
<1>4. QueueIs(queue, history, client, shown, db, lo, hi)
  BY QueueIsSo
<1>5. t.then \in {"next sync", "loaded", "send", "set id"}
  BY <1>1, Kinds
<1>6. /\ t.then \in {"send", "set id"} => Adds(r, history, since, prev, lo, hi)
      /\ t.then = "next sync" =>
              t.events = SubSeq(history, hi + 1, since) /\ Adds(r, history, since, prev, lo, since)
      /\ t.then = "loaded" =>
              t.events = Reverse(SubSeq(history, prev + 1, lo))
                  /\ Adds(r, history, since, prev, prev, hi)
  <2>1. Adds(queue, history, since, prev, lo, hi) /\ (t.then # "nothing" => t.then \notin Thens(r))
    BY <1>1, <1>2, <1>4 DEF QueueIs
  <2>2. StillAdds(t, r, history, since, prev, lo, hi)
    BY <1>1, <2>1, AddsTaken
  <2> QED BY <2>2 DEF StillAdds
<1>7. room \in db.rooms /\ RoomsFirst(r, db.rooms)
    /\ (HasRoom(queue, db.rooms) => HasRoom(r, db.rooms))
  <2>1. RoomsFirst(queue, db.rooms)
    BY <1>4 DEF QueueIs
  <2> QED BY <1>1, <2>1, RoomsFirstTaken
<1>8. RoomSaves(r, db.prev_batch[room], shown.prev_batch)
  <2>1. RoomSaves(r, IF t.op = "save_room" THEN t.prev ELSE db.prev_batch[room], shown.prev_batch)
    BY <1>1, <1>4, RoomSavesTaken DEF QueueIs
  <2> QED BY <2>1
<1>9. ClientSaves(r, client.saving, db.next_batch, since)
  <2>1. ClientSaves(queue, client.saving, db.next_batch, since)
    BY <1>2, <1>4 DEF QueueIs
  <2>2. ClientSaves(r, client.saving,
                    IF t.op = "save_client" THEN t.batch ELSE db.next_batch, since)
    BY <1>1, <2>1, ClientSavesTaken
  <2> QED BY <2>2
<1>10. since # 0
  BY <1>1, <1>2 DEF Stored, Fresh
<1>11. PICK R, first, step, prepend :
         /\ Same(db, run.db) /\ prepend = t.prepend /\ prepend \in BOOLEAN
         /\ prepend <=> t.then = "loaded"
         /\ first = FirstPlace(db, room, prepend) /\ step = (IF prepend THEN -1 ELSE 1)
         /\ RowsAre(R, db.events[room], t.events, first, step)
         /\ R[Len(t.events)] = db'.events[room]
  <2>1. Same(db, run.db)
    BY <1>1, <1>5, <1>7, Kinds DEF Runs
  <2>2. PICK R : /\ RowsAre(R, db.events[room], t.events, FirstPlace(db, room, t.prepend),
                            IF t.prepend THEN -1 ELSE 1)
                 /\ R[Len(t.events)] = run.db.events[room]
    BY <1>1, <1>7 DEF Runs
  <2>3. t.prepend \in BOOLEAN /\ (t.prepend <=> t.then = "loaded")
    BY <1>1 DEF TaskIs
  <2> QED BY <1>1, <2>1, <2>2, <2>3
<1>12. /\ first \in Int
       /\ \A row \in db.events[room] : IF prepend THEN first < row.sorted_id
                                       ELSE first > row.sorted_id
  BY <1>3, <1>11, FirstPlaceIs
<1>13. \A i \in DOMAIN history : history[i].txn # NULL => i > lo
  BY DEF Stored, Tokened
<1>14. ASSUME NEW from \in Nat, NEW to \in from .. since, prev <= from, from <= lo,
              Adds(r, history, since, prev, from, to), Piece(db'.events[room], history, from, to)
       PROVE  Stored(from, to)'
  <2>1. /\ db'.rooms = db.rooms /\ db'.replaced = db.replaced /\ db'.state = db.state
        /\ db'.prev_batch = db.prev_batch /\ db'.next_batch = db.next_batch
    BY <1>1, <1>11 DEF Same
  <2>2. client.since > 0 => HasRoom(r, db'.rooms)
    BY <1>7, <2>1 DEF HasRoom
  <2>3. RoomsFirst(r, db'.rooms)
    BY <1>7, <2>1
  <2>4. room \in db'.rooms => room \notin db'.replaced /\ db'.state[room] = "join"
    BY <2>1 DEF Stored, RoomFirst
  <2>5. room \notin db'.rooms => db'.prev_batch[room] = NULL
    BY <1>7, <2>1
  <2>6. /\ RoomSaves(r, db'.prev_batch[room], shown.prev_batch)
        /\ ClientSaves(r, client.saving, db'.next_batch, client.since)
    BY <1>2, <1>8, <1>9, <2>1
  <2>7. t.then # "past" /\ client.since # 0
    BY <1>2, <1>5, <1>10
  <2>8. Adds(r, history, client.since, Place(shown.prev_batch), from, to)
    BY <1>2, <1>14
  <2>9. to \in from .. client.since /\ Place(shown.prev_batch) <= from
    BY <1>2, <1>14
  <2> QED BY <1>14, <2>2, <2>3, <2>4, <2>5, <2>6, <2>7, <2>8, <2>9, WorkedStored
<1>15. CASE t.then = "next sync"
  <2>1. step = 1 /\ \A row \in db.events[room] : first > row.sorted_id
    BY <1>11, <1>12, <1>15
  <2>2. PICK events : events = t.events
    OBVIOUS
  <2>3. since \in hi .. Len(history) /\ events = SubSeq(history, hi + 1, since)
        /\ RowsAre(R, db.events[room], events, first, 1)
    <3>1. since \in hi .. Len(history)
      BY <1>3
    <3>2. events = SubSeq(history, hi + 1, since)
      BY <1>6, <1>15, <2>2
    <3>3. RowsAre(R, db.events[room], events, first, 1)
      BY <1>11, <2>1, <2>2
    <3> QED BY <3>1, <3>2, <3>3
  <2>4. Piece(R[Len(events)], history, lo, since)
    BY <1>3, <1>12, <2>1, <2>3, Appended
  <2>5. since \in lo .. since /\ prev <= lo /\ lo <= lo
    BY <1>3
  <2>6. Stored(lo, since)'
    BY <1>6, <1>11, <1>14, <1>15, <2>2, <2>4, <2>5
  <2> QED BY <1>3, <2>6
<1>16. CASE t.then = "loaded"
  <2>1. step = -1 /\ \A row \in db.events[room] : first < row.sorted_id
    BY <1>11, <1>12, <1>16
  <2>2. PICK events : events = t.events
    OBVIOUS
  <2>3. events = Reverse(SubSeq(history, prev + 1, lo))
        /\ RowsAre(R, db.events[room], events, first, -1)
    BY <1>6, <1>11, <1>16, <2>1, <2>2
  <2>4. Piece(R[Len(events)], history, prev, hi)
    <3>1. hi <= Len(history)
      BY <1>3
    <3> QED BY <1>3, <1>12, <1>13, <2>1, <2>3, <3>1, Prepended
  <2>5. prev \in Nat /\ hi \in prev .. since /\ prev <= prev /\ prev <= lo
    BY <1>3
  <2>6. Stored(prev, hi)'
    BY <1>6, <1>11, <1>14, <1>16, <2>2, <2>4, <2>5
  <2> QED BY <2>5, <2>6
<1>17. CASE t.then \in {"send", "set id"}
  <2>1. PICK x \in Txn : t = Adding(<<Echo(x)>>, FALSE, t.then)
    BY <1>1, <1>17, SendTask
  <2>2. PICK events : events = t.events
    OBVIOUS
  <2>3. events = <<Echo(x)>>
    <3>1. \A es, k : Adding(es, FALSE, k).events = es
      BY DEF Adding
    <3> QED BY <2>1, <2>2, <3>1, Zenon
  <2>4. step = 1 /\ RowsAre(R, db.events[room], events, first, 1)
    BY <1>11, <1>17, <2>2
  <2>5. Piece(R[Len(events)], history, lo, hi)
    <3>1. hi <= Len(history)
      BY <1>3
    <3> QED BY <1>3, <1>13, <2>3, <2>4, <3>1, EchoAdded
  <2>6. hi \in lo .. since /\ prev <= lo /\ lo <= lo
    BY <1>3
  <2>7. Stored(lo, hi)'
    BY <1>6, <1>11, <1>14, <1>17, <2>2, <2>5, <2>6
  <2> QED BY <2>7
<1> QED BY <1>5, <1>15, <1>16, <1>17

\* The worker takes a task.
LEMMA WorkStored ==
  ASSUME TypeInv, NEW lo \in Nat, NEW hi \in Nat, Stored(lo, hi), Work
  PROVE  \E from, to \in Nat : Stored(from, to)'
<1>1. PICK t, r, run : WorkStep(t, r, run) /\ WorkParts(t, r, run)
  BY WorkIs
<1> QED BY <1>1, OtherWork, AddingWork

-----------------------------------------------------------------------------
(* An answer of /sync.                                                     *)

\* The events of the history after b
IsAnswer(events, h, b) ==
  /\ events \in Seq(Plain) /\ Len(events) > 0 /\ DOMAIN events = 1 .. Len(events)
  /\ \A k \in 1 .. Len(events) : b + k \in b + 1 .. Len(h) /\ events[k] = h[b + k]
  /\ \A u \in b + 1 .. Len(h) : \E k \in 1 .. Len(events) : events[k] = h[u]

\* The events of an answer
LEMMA AnswerIs ==
  ASSUME NEW h, IsHistory(h), NEW b \in Nat, b < Len(h), NEW events,
         events = SubSeq(h, b + 1, Len(h))
  PROVE  IsAnswer(events, h, b)
<1>1. PICK from, to : from = b + 1 /\ to = Len(h)
  OBVIOUS
<1>2. from \in Nat /\ from > 0 /\ to \in 0 .. Len(h) /\ to \in Nat
  BY <1>1, Places
<1>3. /\ SubSeq(h, from, to) \in Seq(Plain)
      /\ Len(SubSeq(h, from, to)) = IF from <= to THEN to - from + 1 ELSE 0
      /\ \A i \in 1 .. Len(SubSeq(h, from, to)) :
           SubSeq(h, from, to)[i] = h[from + i - 1] /\ from + i - 1 \in from .. to
  BY <1>2, PartIs
<1>4. Len(events) = to - b /\ events \in Seq(Plain)
  BY <1>1, <1>2, <1>3
<1>5. \A k \in 1 .. Len(events) : b + k \in b + 1 .. Len(h) /\ events[k] = h[b + k]
  <2>1. \A k \in 1 .. Len(events) : events[k] = h[from + k - 1] /\ from + k - 1 = b + k
    BY <1>1, <1>3, <1>4
  <2>2. \A k \in 1 .. Len(events) : b + k \in b + 1 .. Len(h)
    BY <1>1, <1>2, <1>4
  <2> QED BY <2>1, <2>2
<1>6. ASSUME NEW u \in b + 1 .. Len(h) PROVE \E k \in 1 .. Len(events) : events[k] = h[u]
  <2>1. PICK k : k = u - b
    OBVIOUS
  <2>2. k \in 1 .. Len(events) /\ b + k = u
    BY <1>1, <1>2, <1>4, <2>1
  <2> QED BY <1>5, <2>2
<1>7. Len(events) > 0 /\ DOMAIN events = 1 .. Len(events)
  BY <1>1, <1>2, <1>4
<1> QED BY <1>4, <1>5, <1>6, <1>7 DEF IsAnswer

\* Nothing of an answer is in the list already.
LEMMA NewIsAll ==
  ASSUME NEW h, IsHistory(h), NEW from \in Nat, NEW b \in Nat, NEW m,
         NEW list \in Seq(Plain), Lists(list, h, from, Len(h), m),
         \A i \in DOMAIN list : list[i].uid # NULL => list[i].uid <= b,
         NEW events, IsAnswer(events, h, b)
  PROVE  NotLast(list, events) = events
<1>1. CASE list = <<>>
  BY <1>1 DEF NotLast
<1>2. CASE list # <<>>
  <2>1. PICK e : e = list[Len(list)]
    OBVIOUS
  <2>2. Last(list) = e /\ Len(list) \in DOMAIN list
    BY <1>2, <2>1 DEF Last
  <2>3. e.uid # NULL => e.uid <= b
    BY <2>1, <2>2
  <2>4. ASSUME NEW k \in 1 .. Len(events) PROVE events[k] \in Event /\ events[k].uid # e.uid
    <3>1. b + k \in 1 .. Len(h) /\ b + k > b /\ events[k] = h[b + k]
      <4>1. b + k \in b + 1 .. Len(h) /\ events[k] = h[b + k]
        BY <2>4 DEF IsAnswer
      <4> QED BY <4>1
    <3>2. events[k].uid = b + k /\ b + k # NULL /\ events[k] \in Plain
      BY <3>1, Places
    <3> QED BY <2>3, <3>1, <3>2 DEF Plain
  <2>5. PICK set : set = {x \in Event : x.uid # e.uid}
    OBVIOUS
  <2>6. \A i \in DOMAIN events : events[i] \in set
    BY <2>4, <2>5 DEF IsAnswer
  <2>7. Picked(events, set) = events
    BY <2>6, PickedAll DEF IsAnswer
  <2>8. NotLast(list, events) = Picked(events, set)
    BY <1>2, <2>2, <2>5 DEF NotLast
  <2> QED BY <2>7, <2>8
<1> QED BY <1>1, <1>2

\* The list without the echoes of what has been synced now
LEMMA EchoesGone ==
  ASSUME NEW h, IsHistory(h), NEW from \in Nat, NEW b \in Nat, b < Len(h), NEW m,
         NEW list \in Seq(Plain), Lists(list, h, from, b, m), NEW events,
         events = SubSeq(h, b + 1, Len(h))
  PROVE  /\ Harmless(list, Removes(events))
         /\ WithoutEchoes(list, events) \in Seq(Plain)
         /\ Lists(WithoutEchoes(list, events), h, from, Len(h), m)
         /\ \A i \in DOMAIN WithoutEchoes(list, events) :
              WithoutEchoes(list, events)[i].uid # NULL => WithoutEchoes(list, events)[i].uid <= b
<1>1. IsAnswer(events, h, b)
  BY AnswerIs
<1>2. /\ Len(h) \in Nat /\ \A i, j \in 1 .. Len(h) : h[i].txn = h[j].txn /\ h[i].txn # NULL => i = j
      /\ \A i \in 1 .. Len(h) : h[i].uid = i /\ (h[i].txn # NULL => h[i].message) /\ i # NULL
  BY Places
<1>3. \A u \in b + 1 .. Len(h) : h[u].txn # NULL => h[u].txn \in Removes(events)
  <2>1. ASSUME NEW u \in b + 1 .. Len(h), h[u].txn # NULL PROVE h[u].txn \in Removes(events)
    <3>1. PICK k \in 1 .. Len(events) : events[k] = h[u]
      BY <1>1 DEF IsAnswer
    <3>2. u \in 1 .. Len(h)
      BY <1>2
    <3>3. events[k].message /\ k \in DOMAIN events
      BY <1>1, <1>2, <2>1, <3>1, <3>2 DEF IsAnswer
    <3> QED BY <2>1, <3>1, <3>3 DEF Removes
  <2> QED BY <2>1
<1>4. \A x \in Removes(events) : x # NULL /\ \E u \in b + 1 .. Len(h) : h[u].txn = x
  <2>1. \A k \in DOMAIN events : \E u \in b + 1 .. Len(h) : events[k] = h[u]
    BY <1>1 DEF IsAnswer
  <2> QED BY <2>1 DEF Removes
<1>5. \A i \in DOMAIN list : IsSynced(list[i], h, from, b) \/ IsEcho(list[i], h, b)
  BY DEF Lists
<1>6. ASSUME NEW e, IsSynced(e, h, from, b)
      PROVE  /\ e.txn \notin Removes(events) /\ e.uid <= b
             /\ IsSynced(e, h, from, Len(h))
  <2>1. PICK v : v = e.uid
    OBVIOUS
  <2>2. v \in from + 1 .. b /\ e = h[v]
    BY <1>6, <2>1 DEF IsSynced
  <2>3. v \in 1 .. Len(h) /\ v <= b /\ v \in from + 1 .. Len(h)
    BY <1>2, <2>2
  <2>4. ASSUME e.txn \in Removes(events) PROVE FALSE
    <3>1. PICK u \in b + 1 .. Len(h) : h[u].txn = e.txn
      BY <1>4, <2>4
    <3>2. u \in 1 .. Len(h) /\ u # v
      BY <1>2, <2>3
    <3>3. e.txn # NULL
      BY <1>4, <2>4
    <3> QED BY <1>2, <2>2, <2>3, <3>1, <3>2, <3>3
  <2> QED BY <2>1, <2>2, <2>3, <2>4 DEF IsSynced
<1>7. ASSUME NEW e, IsEcho(e, h, b), e.txn \notin Removes(events)
      PROVE  IsEcho(e, h, Len(h)) /\ e.uid = NULL
  <2>1. e.txn \in Txn /\ e.txn # NULL
    BY <1>7, NamesAssumption DEF IsEcho
  <2>2. ASSUME NEW i \in 1 .. Len(h), h[i].txn = e.txn PROVE FALSE
    <3>1. ~(i \in 1 .. b)
      BY <1>7, <2>2 DEF IsEcho
    <3>2. i \in b + 1 .. Len(h)
      BY <1>2, <3>1
    <3> QED BY <1>3, <1>7, <2>1, <2>2, <3>2
  <2>3. e.uid = NULL
    <3>1. DOMAIN h = 1 .. Len(h)
      BY Places
    <3> QED BY <1>7, <2>2, <3>1 DEF IsEcho
  <2> QED BY <1>7, <2>2, <2>3 DEF IsEcho
<1>8. Harmless(list, Removes(events))
  <2>1. \A i \in 1 .. Len(list) : IsSynced(list[i], h, from, b) \/ IsEcho(list[i], h, b)
    BY <1>5
  <2> QED BY <1>6, <2>1 DEF Harmless, IsEcho
<1>9. PICK left : left = WithoutEchoes(list, events)
  OBVIOUS
<1>10. Leaves(list, Removes(events), left)
  <2>1. Distinct(list)
    BY DEF Lists
  <2> QED BY <1>1, <1>8, <1>9, <2>1, EchoesRemoved DEF IsAnswer
<1>11. /\ left \in Seq(Plain) /\ Distinct(left)
       /\ \A i \in 1 .. Len(left) : \E j \in 1 .. Len(list) :
            left[i] = list[j] /\ list[j].txn \notin Removes(events)
  BY <1>10 DEF Leaves
<1>12. DOMAIN left = 1 .. Len(left) /\ DOMAIN list = 1 .. Len(list)
  BY <1>11
<1>13. ASSUME NEW i \in DOMAIN left
       PROVE  /\ IsSynced(left[i], h, from, Len(h))
                 \/ (IsEcho(left[i], h, Len(h)) /\ m[left[i].txn] # "new")
              /\ left[i].uid # NULL => left[i].uid <= b
  <2>1. PICK j \in DOMAIN list : left[i] = list[j] /\ list[j].txn \notin Removes(events)
    BY <1>11, <1>12
  <2>2. \/ IsSynced(list[j], h, from, b)
        \/ IsEcho(list[j], h, b) /\ m[list[j].txn] # "new"
    BY DEF Lists
  <2>3. CASE IsSynced(list[j], h, from, b)
    BY <1>6, <2>1, <2>3
  <2>4. CASE IsEcho(list[j], h, b) /\ m[list[j].txn] # "new"
    BY <1>7, <2>1, <2>4
  <2> QED BY <2>2, <2>3, <2>4
<1>14. Lists(left, h, from, Len(h), m)
  BY <1>11, <1>13 DEF Lists
<1> QED BY <1>8, <1>9, <1>11, <1>13, <1>14

\* What an answer adds: after b, to rows that reach that far
IsNext(b, from, lo, first, events, list, prev) ==
  /\ b \in Nat /\ b < Len(history) /\ first = b + 1 /\ events = SubSeq(history, b + 1, Len(history))
  /\ lo \in Nat /\ lo <= b /\ from = Place(prev) /\ from \in Nat /\ from <= lo
      /\ from < Len(history)
  /\ Piece(db.events[room], history, lo, b) /\ Adds(queue, history, b, from, lo, b)
  /\ list \in Seq(Plain) /\ Lists(list, history, from, Len(history), message)
  /\ \A i \in DOMAIN list : list[i].uid # NULL => list[i].uid <= b
  /\ \A i \in DOMAIN done : done[i].task.then = "past" =>
       \A k \in DOMAIN done[i].result :
         IsSynced(done[i].result[k], history, from, Len(history))
  /\ \A i \in DOMAIN history : history[i].txn # NULL => i > lo
  /\ shown.loading = "server" => shown.from = prev

\* The queue after an answer: the client, the room and the events are to be saved.
LEMMA AnswerQueued ==
  ASSUME TypeInv, NEW low \in Nat, NEW high \in Nat, Stored(low, high), NEW first, NEW events,
         NEW list, NEW new, NEW prev, NEW q1, NEW q2,
         SyncStep(first, events, list, new, prev, q1, q2),
         SyncParts(events, list, new, prev, q1, q2),
         NEW b, NEW from, NEW lo, IsNext(b, from, lo, first, events, list, prev), new = events,
         events # <<>>
  PROVE  QueueIs(queue', history, client', [shown EXCEPT !.prev_batch = prev], db, lo, b)
<1>1. PICK h, last, t1, t2, t3 :
        /\ h = history /\ last = Len(history) /\ t1 = SavingClient(last) /\ t2 = SavingRoom(prev)
        /\ t3 = Adding(new, FALSE, "next sync")
  OBVIOUS
<1>2. /\ t1.op = "save_client" /\ t1.then = "saved" /\ t1.batch = last
      /\ t2.op = "save_room" /\ t2.then = "nothing" /\ t2.prev = prev
      /\ t3.op = "add_events" /\ t3.then = "next sync" /\ t3.events = events
  BY <1>1 DEF SavingClient, SavingRoom, Adding
<1>3. /\ IF client.saving = "no"
         THEN Longer(q1, queue, t1) /\ Wider(Thens(q1), Thens(queue), "saved")
         ELSE q1 = queue
      /\ Longer(q2, q1, t2) /\ Wider(Thens(q2), Thens(q1), "nothing")
      /\ Longer(queue', q2, t3) /\ Wider(Thens(queue'), Thens(q2), "next sync")
  BY <1>1 DEF SyncParts
<1>4. QueueIs(queue, history, client, shown, db, low, high)
  BY QueueIsSo
<1>5. /\ "next sync" \notin Thens(queue)
      /\ client.saving = "no" => "saved" \notin Thens(queue)
  BY DEF TypeInv, Flags, SyncStep
<1>6. Adds(q1, h, b, from, lo, b)
  <2>1. Adds(queue, h, b, from, lo, b)
    BY <1>1 DEF IsNext
  <2>2. CASE client.saving = "no"
    <3>1. Longer(q1, queue, t1) /\ Wider(Thens(q1), Thens(queue), t1.then)
          /\ t1.then \notin {"next sync", "loaded"}
      BY <1>2, <1>3, <2>2
    <3> QED BY <2>1, <3>1, AddsPut
  <2> QED BY <1>3, <2>1, <2>2
<1>7. Adds(q2, h, b, from, lo, b)
  <2>1. Longer(q2, q1, t2) /\ Wider(Thens(q2), Thens(q1), t2.then)
        /\ t2.then \notin {"next sync", "loaded"}
    BY <1>2, <1>3
  <2> QED BY <1>6, <2>1, AddsPut
<1>8. Adds(queue', h, last, from, lo, b)
  <2>1. /\ Longer(queue', q2, t3) /\ Wider(Thens(queue'), Thens(q2), t3.then)
        /\ t3.then = "next sync" /\ "next sync" \notin Thens(q2)
    <3>1. "next sync" \notin Thens(q1)
      BY <1>3, <1>5 DEF Wider
    <3> QED BY <1>2, <1>3, <3>1 DEF Wider
  <2>2. t3.events = SubSeq(h, b + 1, last)
    BY <1>1, <1>2 DEF IsNext
  <2>3. b \in Nat
    BY DEF IsNext
  <2>4. PICK p : p = queue'
    OBVIOUS
  <2>5. Adds(p, h, last, from, lo, b)
    BY <1>7, <2>1, <2>2, <2>3, <2>4, AddsSynced
  <2> QED BY <2>4, <2>5
<1>9. RoomsFirst(q1, db.rooms)
  <2>1. RoomsFirst(queue, db.rooms)
    BY <1>4 DEF QueueIs
  <2>2. CASE client.saving = "no"
    <3>1. Longer(q1, queue, t1) /\ t1.op # "add_events"
      BY <1>2, <1>3, <2>2
    <3> QED BY <2>1, <3>1, RoomsFirstPut
  <2> QED BY <1>3, <2>1, <2>2
<1>10. RoomsFirst(q2, db.rooms) /\ HasRoom(q2, db.rooms)
  BY <1>2, <1>3, <1>9, RoomsFirstPut
<1>11. RoomsFirst(queue', db.rooms) /\ HasRoom(queue', db.rooms)
  BY <1>3, <1>10, RoomsFirstPut
<1>12. RoomSaves(q2, db.prev_batch[room], prev)
  BY <1>2, <1>3, RoomSavesPut
<1>13. RoomSaves(queue', db.prev_batch[room], prev)
  BY <1>2, <1>3, <1>12, RoomSavesPut
<1>14. client'.saving = (IF client.saving = "no" THEN "saving" ELSE "pending")
       /\ client'.since = last
  <2>1. {"since", "sync", "saving"} \subseteq DOMAIN client
    BY DEF TypeInv, IsClient
  <2> QED BY <1>1, <2>1 DEF SyncStep
<1>15. ClientSaves(q1, client'.saving, db.next_batch, last)
  <2>1. CASE client.saving = "no"
    <3>1. Longer(q1, queue, t1) /\ client'.saving = "saving"
      BY <1>3, <1>14, <2>1
    <3>2. \A i \in DOMAIN queue : queue[i].op # "save_client"
      BY <1>5, <2>1, QueueKinds
    <3> QED BY <1>2, <3>1, <3>2, ClientSavesPut
  <2>2. CASE client.saving # "no"
    BY <1>14, <2>2 DEF ClientSaves
  <2> QED BY <2>1, <2>2
<1>16. ClientSaves(q2, client'.saving, db.next_batch, last)
  <2>1. Longer(q2, q1, t2) /\ t2.op # "save_client"
    BY <1>2, <1>3
  <2> QED BY <1>15, <2>1, ClientSavesPut
<1>17. ClientSaves(queue', client'.saving, db.next_batch, last)
  <2>1. Longer(queue', q2, t3) /\ t3.op # "save_client"
    BY <1>2, <1>3
  <2> QED BY <1>16, <2>1, ClientSavesPut
<1>18. PICK s : s = [shown EXCEPT !.prev_batch = prev]
  OBVIOUS
<1>19. s.prev_batch = prev
  <2>1. "prev_batch" \in DOMAIN shown
    BY DEF TypeInv, IsShown
  <2> QED BY <1>18, <2>1
<1>20. QueueIs(queue', history, client', s, db, lo, b)
  <2>1. from = Place(s.prev_batch)
    BY <1>19 DEF IsNext
  <2> QED BY <1>1, <1>8, <1>11, <1>13, <1>14, <1>17, <1>19, <2>1 DEF QueueIs
<1> QED BY <1>18, <1>20

\* An answer is stored, and is to be added to the rows.
LEMMA AnswerStored ==
  ASSUME TypeInv, NEW low \in Nat, NEW high \in Nat, Stored(low, high), NEW first, NEW events,
         NEW list, NEW new, NEW prev, NEW q1, NEW q2,
         SyncStep(first, events, list, new, prev, q1, q2),
         SyncParts(events, list, new, prev, q1, q2),
         NEW b, NEW from, NEW lo, IsNext(b, from, lo, first, events, list, prev)
  PROVE  Stored(lo, b)'
<1>1. PICK h, last : h = history /\ last = Len(history)
  OBVIOUS
<1>2. /\ b \in Nat /\ b < Len(h) /\ lo \in Nat /\ lo <= b /\ from = Place(prev) /\ from \in Nat
      /\ from <= lo /\ from < last /\ list \in Seq(Plain) /\ Lists(list, h, from, Len(h), message)
      /\ \A i \in DOMAIN list : list[i].uid # NULL => list[i].uid <= b
      /\ Piece(db.events[room], h, lo, b) /\ IsHistory(h) /\ last \in Nat
  BY <1>1, Bounds DEF IsNext
<1>3. IsAnswer(events, h, b)
  <2>1. events = SubSeq(h, b + 1, Len(h))
    BY <1>1 DEF IsNext
  <2> QED BY <1>2, <2>1, AnswerIs
<1>4. new = events /\ events # <<>>
  <2>1. NotLast(list, events) = events
    BY <1>2, <1>3, NewIsAll
  <2>2. events # <<>>
    BY <1>3 DEF IsAnswer
  <2> QED BY <2>1, <2>2 DEF SyncStep
<1>5. PICK s : s = [shown EXCEPT !.prev_batch = prev]
  OBVIOUS
<1>6. PICK listed : listed = Shown(list, events, TRUE)
  OBVIOUS
<1>7. /\ shown'.prev_batch = prev /\ shown'.list = listed /\ shown'.loading = shown.loading
      /\ shown'.from = shown.from /\ s.prev_batch = prev /\ client'.since = last
      /\ history' = history /\ db' = db /\ message' = message /\ done' = done
  <2>1. {"list", "loading", "from", "prev_batch", "synced", "joined"} \subseteq DOMAIN shown
    BY DEF TypeInv, IsShown
  <2>2. {"since", "sync", "saving"} \subseteq DOMAIN client
    BY DEF TypeInv, IsClient
  <2> QED BY <1>1, <1>5, <1>6, <2>1, <2>2 DEF SyncStep
<1>8. QueueIs(queue', history, client', s, db, lo, b)
  BY <1>4, <1>5, AnswerQueued
<1>9. Rest(lo, b)'
  <2>1. b \in lo .. last
    BY <1>1, <1>2
  <2> QED BY <1>2, <1>7, <1>8, <2>1 DEF Rest, QueueIs
<1>10. RoomFirst'
  <2>1. room \in db.rooms => room \notin db.replaced /\ db.state[room] = "join"
    BY DEF Stored, RoomFirst
  <2> QED BY <1>7, <1>8, <2>1 DEF RoomFirst, QueueIs
<1>11. Saves'
  BY <1>7, <1>8 DEF Saves, QueueIs
<1>12. Fresh'
  <2>1. history # <<>> /\ client'.since # 0
    BY <1>1, <1>2, <1>7 DEF Stored, Fresh
  <2> QED BY <1>7, <2>1 DEF Fresh
<1>13. Tokened(lo)'
  <2>1. Place(shown'.prev_batch) < client'.since
    BY <1>2, <1>7
  <2>2. room \notin db.rooms => db.prev_batch[room] = NULL
    BY DEF Stored, Tokened
  <2>3. shown.loading = "server" => shown.from = prev
    BY DEF IsNext
  <2>4. \A i \in DOMAIN history : history[i].txn # NULL => i > lo
    BY DEF IsNext
  <2> QED BY <1>7, <2>1, <2>2, <2>3, <2>4 DEF Tokened
<1>14. Contents'
  <2>1. \A k \in DOMAIN events : IsSynced(events[k], h, from, Len(h))
    <3>1. ASSUME NEW k \in 1 .. Len(events) PROVE IsSynced(events[k], h, from, Len(h))
      <4>1. PICK u : u = b + k
        OBVIOUS
      <4>2. u \in b + 1 .. Len(h) /\ events[k] = h[u]
        BY <1>3, <4>1 DEF IsAnswer
      <4>3. u \in from + 1 .. Len(h) /\ u \in 1 .. Len(h)
        BY <1>1, <1>2, <4>2
      <4>4. h[u].uid = u
        BY <1>2, <4>3, Places
      <4> QED BY <4>2, <4>3, <4>4 DEF IsSynced
    <3> QED BY <1>3, <3>1 DEF IsAnswer
  <2>2. Lists(listed, h, from, Len(h), message)
    <3>1. events \in Seq(Plain) /\ Len(h) \in Nat /\ Len(h) <= Len(h)
      BY <1>1, <1>2, <1>3 DEF IsAnswer
    <3>2. Lists(Shown(list, events, TRUE), h, from, Len(h), message)
      BY <1>2, <2>1, <3>1, ListsShown
    <3> QED BY <1>6, <3>2
  <2>3. \A i \in DOMAIN done : done[i].task.then = "past" =>
          \A k \in DOMAIN done[i].result : IsSynced(done[i].result[k], h, from, Len(h))
    BY <1>1 DEF IsNext
  <2>4. Place(shown'.prev_batch) = from /\ client'.since = Len(h)
    BY <1>1, <1>2, <1>7
  <2> QED BY <1>1, <1>7, <2>2, <2>3, <2>4 DEF Contents, Lists
<1>15. Piece(db.events[room], history, lo, b)'
  BY <1>1, <1>2, <1>7
<1> QED BY <1>9, <1>10, <1>11, <1>12, <1>13, <1>14, <1>15 DEF Stored

\* An answer of /sync that follows the last one, or is the first one and leaves out
\* what came before
LEMMA SyncDoneStored ==
  ASSUME TypeInv, NEW lo \in Nat, NEW hi \in Nat, Stored(lo, hi), ~LimitedSyncs,
         NEW first \in 1 .. Len(history), SyncDone(first)
  PROVE  \E from, to \in Nat : Stored(from, to)'
<1>1. PICK events, list, new, prev, q1, q2 :
        /\ SyncStep(first, events, list, new, prev, q1, q2)
        /\ SyncParts(events, list, new, prev, q1, q2)
  BY SyncDoneIs
<1>2. PICK h, since, last, old :
        h = history /\ since = client.since /\ last = Len(h) /\ old = Place(shown.prev_batch)
  OBVIOUS
<1>3. /\ lo <= hi /\ hi <= since /\ since \in Nat /\ since <= last /\ last \in Nat
      /\ old \in 0 .. lo /\ IsHistory(h) /\ Piece(db.events[room], h, lo, hi)
      /\ DOMAIN h = 1 .. last
  BY <1>2, Bounds
<1>4. PICK b : b = first - 1
  OBVIOUS
<1>5. b \in Nat /\ b < last /\ first = b + 1 /\ since <= b
  <2>1. first \in since + 1 .. last
    BY <1>1, <1>2 DEF SyncStep
  <2> QED BY <1>2, <1>3, <1>4, <2>1
<1>6. events = SubSeq(h, b + 1, last) /\ list = WithoutEchoes(shown.list, events)
  BY <1>1, <1>2, <1>5 DEF SyncStep
<1>7. hi = since /\ Adds(queue, h, since, old, lo, hi)
  <2>1. "next sync" \notin Thens(queue)
    BY <1>1 DEF TypeInv, Flags, SyncStep
  <2> QED BY <1>2, <2>1 DEF Stored, Rest, Adds
<1>8. IsAnswer(events, h, b)
  BY <1>2, <1>3, <1>5, <1>6, AnswerIs
<1>9. \A i \in DOMAIN done : done[i].task.then = "past" =>
        /\ since = 0 => done[i].result = <<>>
        /\ \A k \in DOMAIN done[i].result : IsSynced(done[i].result[k], h, old, since)
  BY <1>2 DEF Stored, Contents, Fresh
<1>10. CASE first = since + 1
  <2>1. prev = shown.prev_batch /\ b = since
    <3>1. prev = IF first > since + 1 THEN first - 1 ELSE shown.prev_batch
      BY <1>1, <1>2 DEF SyncStep
    <3> QED BY <1>3, <1>4, <1>10, <3>1
  <2>2. shown.list \in Seq(Plain) /\ Lists(shown.list, h, old, b, message)
    BY <1>2, <2>1, ContentsAre
  <2>3. /\ list \in Seq(Plain) /\ Lists(list, h, old, Len(h), message)
        /\ \A i \in DOMAIN list : list[i].uid # NULL => list[i].uid <= b
    <3>1. old \in Nat /\ b < Len(h) /\ events = SubSeq(h, b + 1, Len(h))
      BY <1>2, <1>3, <1>5, <1>6
    <3>2. /\ WithoutEchoes(shown.list, events) \in Seq(Plain)
          /\ Lists(WithoutEchoes(shown.list, events), h, old, Len(h), message)
          /\ \A i \in DOMAIN WithoutEchoes(shown.list, events) :
               WithoutEchoes(shown.list, events)[i].uid # NULL =>
                 WithoutEchoes(shown.list, events)[i].uid <= b
      BY <1>3, <1>5, <2>2, <3>1, EchoesGone
    <3> QED BY <1>6, <3>2
  <2>4. old < last
    BY <1>3, <1>5, <2>1
  <2>5. \A i \in DOMAIN done : done[i].task.then = "past" =>
          \A k \in DOMAIN done[i].result : IsSynced(done[i].result[k], h, old, last)
    <3>1. since \in Nat /\ since <= last /\ old \in 0 .. old /\ old \in Nat
      BY <1>3
    <3>2. \A e : IsSynced(e, h, old, since) => IsSynced(e, h, old, last)
      BY <1>3, <3>1, SyncedWider
    <3> QED BY <1>9, <3>2
  <2>6. /\ \A i \in DOMAIN h : h[i].txn # NULL => i > lo
        /\ shown.loading = "server" => shown.from = prev
    BY <1>2, <2>1 DEF Stored, Tokened
  <2>7. lo <= b /\ old \in Nat /\ old <= lo
    BY <1>3, <1>5
  <2>8. Piece(db.events[room], h, lo, b) /\ Adds(queue, h, b, old, lo, b)
    BY <1>3, <1>7, <2>1
  <2>9. IsNext(b, old, lo, first, events, list, prev)
    BY <1>2, <1>5, <1>6, <2>1, <2>3, <2>4, <2>5, <2>6, <2>7, <2>8 DEF IsNext
  <2>10. Stored(lo, b)'
    BY <1>1, <2>9, AnswerStored
  <2> QED BY <1>5, <2>10
<1>11. CASE first # since + 1
  <2>1. since = 0 /\ prev = b /\ b > 0
    <3>1. first > since + 1
      <4>1. first \in since + 1 .. last
        BY <1>1, <1>2 DEF SyncStep
      <4> QED BY <1>3, <1>11, <4>1
    <3>2. /\ first > client.since + 1 => LimitedSyncs \/ client.since = 0
          /\ prev = IF first > client.since + 1 THEN first - 1 ELSE shown.prev_batch
      BY <1>1 DEF SyncStep
    <3> QED BY <1>2, <1>3, <1>4, <3>1, <3>2
  <2>2. /\ shown.list = <<>> /\ shown.loading # "server" /\ db.events[room] = {}
        /\ \A i \in DOMAIN queue : queue[i].op # "add_events"
        /\ \A x \in Txn : message[x] = "new"
    BY <1>2, <2>1 DEF Stored, Fresh
  <2>3. \A i \in DOMAIN h : h[i].txn = NULL
    <3>1. Txns(h) \cap Txn = {}
      <4>1. \A x \in Txn : x \in Txns(h)
          => message[x] \in {"accepted", "restoring", "sent", "failed"}
        BY <1>2 DEF TypeInv, Sending
      <4> QED BY <2>2, <4>1
    <3>2. \A i \in DOMAIN h : h[i].txn \in Txn \cup {NULL}
      <4>1. \A i \in DOMAIN h : h[i] \in Event
        BY <1>3, Places DEF Plain
      <4> QED BY <4>1 DEF Event
    <3> QED BY <3>1, <3>2 DEF Txns
  <2>4. list = <<>>
    <3>1. \A i \in DOMAIN events : events[i].txn = NULL
      <4>1. \A i \in DOMAIN events : \E u \in DOMAIN h : events[i] = h[u]
        <5>1. \A u \in b + 1 .. Len(h) : u \in DOMAIN h
          BY <1>2, <1>3, <1>5
        <5> QED BY <1>8, <5>1 DEF IsAnswer
      <4> QED BY <2>3, <4>1
    <3>2. shown.list \in Seq(Plain) /\ events \in Seq(Plain)
      BY <1>8 DEF IsAnswer, TypeInv, IsShown
    <3>3. WithoutEchoes(shown.list, events) = shown.list
      BY <3>1, <3>2, LeftAll
    <3> QED BY <1>6, <2>2, <3>3
  <2>5. /\ list \in Seq(Plain) /\ Lists(list, h, b, Len(h), message)
        /\ \A i \in DOMAIN list : list[i].uid # NULL => list[i].uid <= b
    BY <2>4 DEF Lists, Distinct
  <2>6. Piece(db.events[room], h, b, b)
    <3>1. b + 1 .. b = {}
      BY <1>5
    <3> QED BY <2>2, <3>1 DEF Piece
  <2>7. Adds(queue, h, b, b, b, b)
    <3>1. \A i \in DOMAIN queue : queue[i].then \notin {"next sync", "loaded"}
      BY <1>2, <2>2, Kinds, QueueKinds
    <3>2. {"next sync", "loaded"} \cap Thens(queue) = {}
      BY <3>1 DEF Thens
    <3> QED BY <3>2, AddsNone
  <2>8. b = Place(prev)
    <3>1. b \in Token
      BY <1>2, <1>3, <1>5, HistoryAssumption, BoundsAssumption DEF IsHistory
    <3> QED BY <2>1, <3>1, NamesAssumption DEF Place
  <2>9. \A i \in DOMAIN done : done[i].task.then = "past" =>
          \A k \in DOMAIN done[i].result : IsSynced(done[i].result[k], h, b, last)
    BY <1>9, <2>1
  <2>10. /\ \A i \in DOMAIN h : h[i].txn # NULL => i > b
         /\ shown.loading = "server" => shown.from = prev
         /\ b <= b
    BY <1>5, <2>2, <2>3
  <2>11. IsNext(b, b, b, first, events, list, prev)
    BY <1>2, <1>5, <1>6, <2>5, <2>6, <2>7, <2>8, <2>9, <2>10 DEF IsNext
  <2>12. Stored(b, b)'
    BY <1>1, <1>5, <2>11, AnswerStored
  <2> QED BY <1>5, <2>12
<1> QED BY <1>10, <1>11

-----------------------------------------------------------------------------
(* An answer to /messages.                                                 *)

\* Events of the history up to a place, none of them after it
Before(events, h, lo) ==
  /\ \A k \in 1 .. Len(events) : \E u \in 1 .. lo : u \in 1 .. Len(h) /\ events[k] = h[u]
  /\ \A i \in DOMAIN h : h[i].txn # NULL => i > lo

\* Nothing of an answer is in the list already.
LEMMA ChunkIsNew ==
  ASSUME NEW h, IsHistory(h), NEW lo \in Nat, NEW to \in Nat, to <= Len(h), NEW m,
         NEW list \in Seq(Plain), Lists(list, h, lo, to, m),
         NEW events \in Seq(Plain), Before(events, h, lo)
  PROVE  WithoutEchoes(list, events) = list /\ NotLast(list, events) = events
<1>1. /\ Len(h) \in Nat /\ DOMAIN h = 1 .. Len(h)
      /\ \A i \in 1 .. Len(h) : h[i] \in Plain /\ h[i].uid = i /\ i # NULL
  BY Places
<1>2. WithoutEchoes(list, events) = list
  <2>1. \A u \in 1 .. lo : u \in 1 .. Len(h) => h[u].txn = NULL
    BY <1>1 DEF Before
  <2>2. \A k \in DOMAIN events : events[k].txn = NULL
    BY <2>1 DEF Before
  <2> QED BY <2>2, LeftAll
<1>3. CASE list = <<>>
  BY <1>2, <1>3 DEF NotLast
<1>4. CASE list # <<>>
  <2>1. PICK e : e = list[Len(list)]
    OBVIOUS
  <2>2. Last(list) = e /\ Len(list) \in DOMAIN list
    BY <1>4, <2>1 DEF Last
  <2>3. IsSynced(e, h, lo, to) \/ IsEcho(e, h, to)
    BY <2>1, <2>2 DEF Lists
  <2>4. \A u \in 1 .. lo : e.uid # u \/ u \notin 1 .. Len(h)
    <3>1. CASE IsSynced(e, h, lo, to)
      <4>1. \A u \in 1 .. lo : u \notin lo + 1 .. to
        OBVIOUS
      <4> QED BY <3>1, <4>1 DEF IsSynced
    <3>2. CASE IsEcho(e, h, to)
      <4>1. ASSUME NEW u \in 1 .. lo, e.uid = u, u \in 1 .. Len(h) PROVE FALSE
        <5>1. h[u].txn = e.txn /\ e.txn \in Txn
          BY <1>1, <3>2, <4>1 DEF IsEcho
        <5>2. u > lo
          BY <1>1, <4>1, <5>1, NamesAssumption DEF Before
        <5> QED BY <5>2
      <4> QED BY <4>1
    <3> QED BY <2>3, <3>1, <3>2
  <2>5. PICK set : set = {x \in Event : x.uid # e.uid}
    OBVIOUS
  <2>6. \A i \in DOMAIN events : events[i] \in set
    <3>1. ASSUME NEW k \in 1 .. Len(events) PROVE events[k] \in set
      <4>1. PICK u \in 1 .. lo : u \in 1 .. Len(h) /\ events[k] = h[u]
        BY DEF Before
      <4>2. events[k].uid = u /\ events[k] \in Plain
        BY <1>1, <4>1
      <4>3. events[k].uid # e.uid
        BY <2>4, <4>1, <4>2
      <4> QED BY <2>5, <4>2, <4>3 DEF Plain
    <3> QED BY <3>1
  <2>7. Picked(events, set) = events
    BY <2>6, PickedAll
  <2>8. NotLast(list, events) = Picked(events, set)
    BY <1>4, <2>2, <2>5 DEF NotLast
  <2> QED BY <1>2, <2>7, <2>8
<1> QED BY <1>3, <1>4

\* Events and a token that has moved back are stored.
LEMMA HistoryLoadedStored ==
  ASSUME TypeInv, NEW lo \in Nat, NEW hi \in Nat, Stored(lo, hi), HistoryLoaded
  PROVE  Stored(lo, hi)'
<1>1. PICK end, prev, list, new, q1 :
        ChunkStep(end, prev, list, new, q1) /\ ChunkParts(end, prev, list, new, q1)
  BY HistoryLoadedIs
<1>2. PICK h, since : h = history /\ since = client.since
  OBVIOUS
<1>3. /\ lo <= hi /\ hi <= since /\ since \in Nat /\ since <= Len(h) /\ Len(h) \in Nat
      /\ IsHistory(h) /\ Piece(db.events[room], h, lo, hi) /\ DOMAIN h = 1 .. Len(h)
      /\ Place(shown.prev_batch) \in 0 .. lo
  BY <1>2, Bounds
<1>4. shown.loading = "server" /\ since # 0
  BY <1>1, <1>2 DEF ChunkStep, Stored, Fresh
<1>5. "loaded" \notin Thens(queue)
  BY <1>4 DEF TypeInv, Flags
<1>6. Adds(queue, h, since, lo, lo, hi) /\ Place(shown.prev_batch) = lo /\ shown.from = lo
  <2>1. Place(shown.prev_batch) = lo
    BY <1>5 DEF Stored, Rest, Adds
  <2>2. shown.from = shown.prev_batch /\ shown.from # NULL
    BY <1>4 DEF Stored, Tokened, TypeInv, IsShown
  <2>3. shown.from = lo
    BY <2>1, <2>2 DEF Place
  <2> QED BY <1>2, <2>1, <2>3 DEF Stored, Rest
<1>7. PICK begin \in 0 .. lo :
        /\ Chunk = Reverse(SubSeq(h, begin + 1, lo)) /\ Chunk \in Seq(Plain)
        /\ Len(Chunk) = lo - begin /\ (lo > 0 => begin < lo)
  <2>1. shown.from \in 0 .. Len(h)
    BY <1>3, <1>6
  <2>2. \E begin \in 0 .. shown.from :
           /\ Chunk = Reverse(SubSeq(h, begin + 1, shown.from)) /\ Chunk \in Seq(Plain)
           /\ Len(Chunk) = shown.from - begin
           /\ shown.from > 0 => begin < shown.from
    BY <1>2, <1>3, <2>1, ChunkIs
  <2> QED BY <1>6, <2>2
<1>8. PICK events : events = Chunk
  OBVIOUS
<1>9. /\ events \in Seq(Plain) /\ Len(events) = lo - begin
      /\ events = Reverse(SubSeq(h, begin + 1, lo))
      /\ \A k \in 1 .. lo - begin : events[k] = h[lo - k + 1]
  <2>1. lo \in 0 .. Len(h)
    BY <1>3
  <2>2. PICK es \in Seq(Plain) :
           /\ es = Reverse(SubSeq(h, begin + 1, lo)) /\ Len(es) = lo - begin
           /\ \A k \in 1 .. lo - begin : es[k] = h[lo - k + 1]
    BY <1>3, <2>1, PartBackwards
  <2> QED BY <1>7, <1>8, <2>2
<1>10. begin \in Nat /\ begin <= lo /\ Place(prev) = begin
  <2>1. end = begin /\ prev = IF end = shown.from THEN NULL ELSE end
    BY <1>1, <1>6, <1>7 DEF ChunkStep
  <2>2. begin = lo => begin = 0
    BY <1>7
  <2>3. begin # NULL
    <3>1. begin \in Token
      BY <1>3, HistoryAssumption, BoundsAssumption DEF IsHistory
    <3> QED BY <3>1, NamesAssumption
  <2> QED BY <1>6, <2>1, <2>2, <2>3 DEF Place
<1>11. \A i \in DOMAIN h : h[i].txn # NULL => i > lo
  BY <1>2 DEF Stored, Tokened
<1>12. shown.list \in Seq(Plain) /\ Lists(shown.list, h, lo, since, message)
  BY <1>2, <1>6, ContentsAre
<1>13. \A k \in 1 .. Len(events) : lo - k + 1 \in 1 .. lo /\ lo - k + 1 \in 1 .. Len(h)
                                    /\ lo - k + 1 \in begin + 1 .. since
  BY <1>3, <1>9
<1>14. list = shown.list /\ new = events
  <2>1. Before(events, h, lo)
    BY <1>9, <1>11, <1>13 DEF Before
  <2>2. WithoutEchoes(shown.list, events) = shown.list /\ NotLast(shown.list, events) = events
    BY <1>3, <1>9, <1>12, <2>1, ChunkIsNew
  <2> QED BY <1>1, <1>8, <2>2 DEF ChunkStep
<1>15. PICK listed, loading :
         listed = Shown(list, Chunk, FALSE) /\ loading = IF new = <<>> THEN "no" ELSE "storing"
  OBVIOUS
<1>16. /\ history' = history /\ client' = client /\ message' = message /\ db' = db /\ done' = done
       /\ shown'.prev_batch = prev /\ shown'.list = listed /\ shown'.loading # "server"
  <2>1. {"list", "loading", "from", "prev_batch"} \subseteq DOMAIN shown
    BY DEF TypeInv, IsShown
  <2>2. shown' = [shown EXCEPT !.prev_batch = prev, !.list = listed, !.loading = loading]
    BY <1>1, <1>15 DEF ChunkStep
  <2>3. loading # "server"
    BY <1>15
  <2>4. shown'.prev_batch = prev /\ shown'.list = listed /\ shown'.loading = loading
    BY <2>1, <2>2
  <2> QED BY <1>1, <2>3, <2>4 DEF ChunkStep
<1>17. PICK t1, t2 : t1 = SavingRoom(prev) /\ t2 = Adding(new, TRUE, "loaded")
  OBVIOUS
<1>18. /\ t1.op = "save_room" /\ t1.then = "nothing" /\ t1.prev = prev
       /\ t2.op = "add_events" /\ t2.then = "loaded" /\ t2.events = events
  BY <1>14, <1>17 DEF SavingRoom, Adding
<1>19. /\ Longer(q1, queue, t1) /\ Wider(Thens(q1), Thens(queue), "nothing")
       /\ IF new = <<>> THEN queue' = q1
          ELSE Longer(queue', q1, t2) /\ Wider(Thens(queue'), Thens(q1), "loaded")
  BY <1>1, <1>17 DEF ChunkParts
<1>20. QueueIs(queue, history, client, shown, db, lo, hi)
  BY QueueIsSo
<1>21. Adds(q1, h, since, lo, lo, hi)
  <2>1. Longer(q1, queue, t1) /\ Wider(Thens(q1), Thens(queue), t1.then)
        /\ t1.then \notin {"next sync", "loaded"}
    BY <1>18, <1>19
  <2> QED BY <1>6, <2>1, AddsPut
<1>22. RoomsFirst(q1, db.rooms) /\ HasRoom(q1, db.rooms)
  <2>1. RoomsFirst(queue, db.rooms)
    BY <1>20 DEF QueueIs
  <2> QED BY <1>18, <1>19, <2>1, RoomsFirstPut
<1>23. RoomSaves(q1, db.prev_batch[room], prev)
  BY <1>18, <1>19, RoomSavesPut
<1>24. ClientSaves(q1, client.saving, db.next_batch, client.since)
  <2>1. ClientSaves(queue, client.saving, db.next_batch, client.since) /\ t1.op # "save_client"
    BY <1>18, <1>20 DEF QueueIs
  <2> QED BY <1>19, <2>1, ClientSavesPut
<1>25. /\ Adds(queue', h, since, begin, lo, hi) /\ RoomsFirst(queue', db.rooms)
       /\ HasRoom(queue', db.rooms) /\ RoomSaves(queue', db.prev_batch[room], prev)
       /\ ClientSaves(queue', client.saving, db.next_batch, client.since)
  <2>1. CASE new = <<>>
    <3>1. begin = lo
      <4>1. Len(events) = 0
        BY <1>14, <2>1
      <4> QED BY <1>9, <4>1
    <3> QED BY <1>19, <1>21, <1>22, <1>23, <1>24, <2>1, <3>1
  <2>2. CASE new # <<>>
    <3>1. Longer(queue', q1, t2) /\ Wider(Thens(queue'), Thens(q1), t2.then)
      BY <1>18, <1>19, <2>2
    <3>2. PICK p : p = queue'
      OBVIOUS
    <3>3. Adds(p, h, since, begin, lo, hi)
      <4>1. "loaded" \notin Thens(q1)
        BY <1>5, <1>19 DEF Wider
      <4>2. t2.events = Reverse(SubSeq(h, begin + 1, lo))
        BY <1>9, <1>18
      <4>3. Longer(p, q1, t2) /\ Wider(Thens(p), Thens(q1), t2.then) /\ t2.then = "loaded"
        BY <1>18, <3>1, <3>2
      <4> QED BY <1>10, <1>21, <4>1, <4>2, <4>3, AddsLoaded
    <3>4. RoomsFirst(queue', db.rooms) /\ HasRoom(queue', db.rooms)
      BY <1>22, <3>1, RoomsFirstPut
    <3>5. RoomSaves(queue', db.prev_batch[room], prev)
      BY <1>18, <1>23, <3>1, RoomSavesPut
    <3>6. ClientSaves(queue', client.saving, db.next_batch, client.since)
      <4>1. t2.op # "save_client"
        BY <1>18
      <4> QED BY <1>24, <3>1, <4>1, ClientSavesPut
    <3> QED BY <3>2, <3>3, <3>4, <3>5, <3>6
  <2> QED BY <2>1, <2>2
<1>26. Rest(lo, hi)'
  <2>1. hi \in lo .. since
    BY <1>3
  <2> QED BY <1>2, <1>10, <1>16, <1>25, <2>1 DEF Rest
<1>27. RoomFirst' /\ Saves'
  <2>1. room \in db.rooms => room \notin db.replaced /\ db.state[room] = "join"
    BY DEF Stored, RoomFirst
  <2> QED BY <1>16, <1>25, <2>1 DEF RoomFirst, Saves
<1>28. Fresh'
  BY <1>2, <1>4, <1>16 DEF Stored, Fresh
<1>29. Tokened(lo)'
  <2>1. begin < since
    <3>1. lo < since
      <4>1. client.since > 0
        BY <1>2, <1>3, <1>4
      <4> QED BY <1>2, <1>6, <4>1 DEF Stored, Tokened
    <3> QED BY <1>3, <1>10, <3>1
  <2>2. /\ room \notin db.rooms => db.prev_batch[room] = NULL
        /\ \A i \in DOMAIN history : history[i].txn # NULL => i > lo
    BY DEF Stored, Tokened
  <2> QED BY <1>2, <1>10, <1>16, <2>1, <2>2 DEF Tokened
<1>30. Contents'
  <2>1. \A e : IsSynced(e, h, lo, since) => IsSynced(e, h, begin, since)
    <3>1. begin \in 0 .. lo /\ since <= since
      BY <1>3
    <3> QED BY <1>3, <3>1, SyncedWider
  <2>2. Lists(list, h, begin, since, message)
    BY <1>12, <1>14, <2>1 DEF Lists
  <2>3. \A k \in DOMAIN events : IsSynced(events[k], h, begin, since)
    <3>1. ASSUME NEW k \in 1 .. Len(events) PROVE IsSynced(events[k], h, begin, since)
      <4>1. PICK u : u = lo - k + 1
        OBVIOUS
      <4>2. u \in begin + 1 .. since /\ u \in 1 .. Len(h) /\ events[k] = h[u]
        BY <1>9, <1>13, <4>1
      <4>3. h[u].uid = u
        BY <1>3, <4>2, Places
      <4> QED BY <4>2, <4>3 DEF IsSynced
    <3> QED BY <1>9, <3>1
  <2>4. Lists(listed, h, begin, since, message)
    <3>1. Lists(Shown(list, events, FALSE), h, begin, since, message)
      BY <1>3, <1>9, <1>10, <1>12, <1>14, <2>2, <2>3, ListsShown
    <3> QED BY <1>8, <1>15, <3>1
  <2>5. \A i \in DOMAIN done : done[i].task.then = "past" =>
          \A k \in DOMAIN done[i].result : IsSynced(done[i].result[k], h, begin, since)
    <3>1. \A i \in DOMAIN done : done[i].task.then = "past" =>
            \A k \in DOMAIN done[i].result : IsSynced(done[i].result[k], h, lo, since)
      BY <1>2, <1>6 DEF Stored, Contents
    <3> QED BY <2>1, <3>1
  <2> QED BY <1>2, <1>10, <1>16, <2>4, <2>5 DEF Contents, Lists
<1>31. Piece(db.events[room], history, lo, hi)'
  BY <1>2, <1>3, <1>16
<1> QED BY <1>26, <1>27, <1>28, <1>29, <1>30, <1>31 DEF Stored

-----------------------------------------------------------------------------
(* A start.                                                                *)

\* The newest event of the rows is one that was synced.
LEMMA LastSynced ==
  ASSUME TypeInv, NEW h, NEW lo, NEW hi, Piece(db.events[room], h, lo, hi), NEW r,
         r = LoadRoom(db, room)
  PROVE  /\ Len(r.last) <= 1 /\ r.last \in Seq(Plain)
         /\ \A k \in DOMAIN r.last : IsSynced(r.last[k], h, lo, hi)
         /\ db.events[room] = {} => r.last = <<>> /\ r.prev_batch = db.next_batch
         /\ db.events[room] # {} => r.prev_batch = db.prev_batch[room]
<1>1. r = [ status |-> db.state[room],
            prev_batch |-> IF db.events[room] = {} THEN db.next_batch ELSE db.prev_batch[room],
            last |-> IF db.events[room] = {} THEN <<>>
                     ELSE First(PastEvents(db, room, LastId(db, room), FALSE)),
            synced |-> room \in db.synced ]
  BY DEF LoadRoom, First
<1>2. Len(r.last) <= 1 /\ r.last \in Seq(Plain)
  BY LoadTyped DEF TypeInv
<1>3. CASE db.events[room] = {}
  BY <1>1, <1>2, <1>3
<1>4. CASE db.events[room] # {}
  <2>1. PICK rows : rows = db.events[room]
    OBVIOUS
  <2>2. IsRows(rows) /\ IsFiniteSet(rows)
    BY <2>1 DEF TypeInv, IsTables, IsRows
  <2>3. PICK ids : ids = {row.sorted_id : row \in rows}
    OBVIOUS
  <2>4. ids \in SUBSET Int /\ ids # {} /\ IsFiniteSet(ids)
    <3>1. PICK f : f = [row \in rows |-> row.sorted_id]
      OBVIOUS
    <3>2. f \in Surjection(rows, ids)
      BY <2>3, <3>1 DEF Surjection
    <3>3. IsFiniteSet(ids)
      BY <2>2, <3>2, FS_Surjection
    <3> QED BY <1>4, <2>1, <2>2, <2>3, <3>3 DEF IsRows
  <2>5. LastId(db, room) \in Int
    BY <2>1, <2>3, <2>4, Extremes DEF LastId
  <2>6. PICK sorted, skip : sorted = LastId(db, room) /\ skip = FALSE
    OBVIOUS
  <2>7. PICK past : past = PastEvents(db, room, sorted, skip)
    OBVIOUS
  <2>8. past \in Seq(Plain) /\ \A k \in 1 .. Len(past) : IsSynced(past[k], h, lo, hi)
    <3>1. skip \in BOOLEAN /\ sorted \in Int /\ IsRows(db.events[room])
      BY <2>1, <2>2, <2>5, <2>6
    <3> QED BY <2>7, <3>1, PastSynced
  <2>9. r.last = First(past) /\ r.prev_batch = db.prev_batch[room]
    <3>1. /\ r.last = IF db.events[room] = {} THEN <<>>
                      ELSE First(PastEvents(db, room, LastId(db, room), FALSE))
          /\ r.prev_batch = IF db.events[room] = {} THEN db.next_batch ELSE db.prev_batch[room]
      BY <1>1
    <3>2. First(past) = First(PastEvents(db, room, LastId(db, room), FALSE))
      BY <2>6, <2>7
    <3> QED BY <1>4, <3>1, <3>2
  <2>10. \A k \in DOMAIN r.last : IsSynced(r.last[k], h, lo, hi)
    <3>1. /\ First(past) \in Seq(Plain) /\ Len(First(past)) = IF past = <<>> THEN 0 ELSE 1
          /\ past # <<>> => First(past)[1] = past[1]
      BY <2>8, FirstIs
    <3>2. past # <<>> => 1 \in 1 .. Len(past)
      BY <2>8
    <3>3. \A k \in DOMAIN First(past) : k = 1 /\ past # <<>>
      BY <3>1
    <3> QED BY <2>8, <2>9, <3>1, <3>2, <3>3
  <2> QED BY <1>2, <1>4, <2>9, <2>10
<1> QED BY <1>3, <1>4

\* A client that has stored everything is what it was, apart from the list.
LEMMA RestartStored ==
  ASSUME TypeInv, NEW lo \in Nat, NEW hi \in Nat, Stored(lo, hi), ~Crashes, Restart
  PROVE  Stored(lo, hi)'
<1>1. /\ history' = history /\ db' = db /\ queue' = <<>> /\ done' = <<>>
      /\ client' = [since |-> Place(db.next_batch), sync |-> "listing", saving |-> "no",
                    starts |-> client.starts + 1, empty |-> client.empty]
      /\ shown' = Restored
      /\ message' = [x \in Txn |-> IF message[x] \in Under THEN "failed" ELSE message[x]]
      /\ queue = <<>> /\ done = <<>>
  BY RestartIs
<1>2. Thens(queue) = {} /\ DoneThens(done) = {} /\ DOMAIN queue = {} /\ DOMAIN done = {}
  BY <1>1 DEF Thens, DoneThens
<1>3. client.saving = "no"
  BY <1>2 DEF TypeInv, Flags
<1>4. Place(db.next_batch) = client.since
  BY <1>3 DEF Stored, Saves, ClientSaves
<1>5. client'.since = client.since /\ client'.saving = "no"
  BY <1>1, <1>4
<1>6. hi = client.since /\ lo = Place(shown.prev_batch)
  BY <1>2 DEF Stored, Rest, Adds
<1>7. db.prev_batch[room] = shown.prev_batch
  BY <1>2 DEF Stored, Saves, RoomSaves
<1>8. client.since \in Nat /\ lo <= hi /\ Piece(db.events[room], history, lo, hi)
      /\ IsHistory(history) /\ hi <= Len(history) /\ client.since <= Len(history)
  BY Bounds
<1>9. PICK r : r = LoadRoom(db, room)
  OBVIOUS
<1>10. /\ Len(r.last) <= 1 /\ r.last \in Seq(Plain)
       /\ \A k \in DOMAIN r.last : IsSynced(r.last[k], history, lo, hi)
       /\ db.events[room] = {} => r.last = <<>> /\ r.prev_batch = db.next_batch
       /\ db.events[room] # {} => r.prev_batch = db.prev_batch[room]
  BY <1>8, <1>9, LastSynced
<1>11. \/ room \in DOMAIN LoadClient(db).result.rooms
          /\ shown'.list = r.last /\ shown'.prev_batch = r.prev_batch /\ shown'.loading = "no"
       \/ room \notin DOMAIN LoadClient(db).result.rooms
          /\ shown'.list = <<>> /\ shown'.prev_batch = NULL /\ shown'.loading = "no"
  <2>1. shown' = IF room \in DOMAIN LoadClient(db).result.rooms
                 THEN [NewRoom EXCEPT !.list = r.last, !.prev_batch = r.prev_batch,
                                      !.synced = r.synced, !.joined = TRUE]
                 ELSE NewRoom
    BY <1>1, <1>9 DEF Restored
  <2> QED BY <2>1 DEF NewRoom
<1>12. PICK list : list = shown'.list
  OBVIOUS
<1>13. /\ shown'.prev_batch = shown.prev_batch /\ shown'.loading = "no"
       /\ list \in Seq(Plain) /\ Len(list) <= 1
       /\ \A k \in DOMAIN list : IsSynced(list[k], history, lo, hi)
       /\ client.since = 0 => list = <<>>
  <2>1. CASE client.since = 0
    <3>1. shown.prev_batch = NULL /\ db.next_batch = NULL /\ db.events[room] = {}
      BY <2>1 DEF Stored, Fresh
    <3> QED BY <1>10, <1>11, <1>12, <3>1
  <2>2. CASE client.since # 0
    <3>1. room \in db.rooms
      BY <1>2, <1>8, <2>2 DEF Stored, RoomFirst, HasRoom
    <3>2. room \notin db.replaced /\ db.state[room] = "join"
      BY <3>1 DEF Stored, RoomFirst
    <3>3. room \in DOMAIN LoadClient(db).result.rooms
      BY <3>1, <3>2, LoadedIs
    <3>4. db.events[room] # {}
      <4>1. lo < hi
        BY <1>6, <1>8, <2>2 DEF Stored, Tokened
      <4>2. hi \in lo + 1 .. hi
        BY <1>8, <4>1
      <4> QED BY <1>8, <4>2 DEF Piece
    <3> QED BY <1>7, <1>10, <1>11, <1>12, <2>2, <3>3, <3>4
  <2> QED BY <2>1, <2>2
<1>14. Held
  BY <1>1, <1>5, <1>13 DEF Held
<1>15. QueueIs(queue', history, client', shown', db, lo, hi)
  <2>1. QueueIs(queue, history, client, shown, db, lo, hi)
    BY QueueIsSo
  <2> QED BY <1>1, <1>3, <1>5, <1>13, <2>1 DEF QueueIs
<1>16. Fewer(done', done) /\ DOMAIN queue' = {}
  BY <1>1 DEF Fewer
<1>17. Fresh'
  <2>1. client.since = 0 => \A x \in Txn : message'[x] = "new"
    BY <1>1 DEF Stored, Fresh, Under
  <2> QED BY <1>5, <1>12, <1>13, <1>14, <1>16, <2>1, FreshQueued DEF Stored
<1>18. Contents'
  <2>1. Lists(list, history, Place(shown.prev_batch), client.since, message')
    <3>1. \A i, j \in DOMAIN list : i = j
      <4>1. \A i \in DOMAIN list : i = 1
        BY <1>13
      <4> QED BY <4>1
    <3> QED BY <1>6, <1>13, <3>1 DEF Lists, Distinct
  <2> QED BY <1>12, <1>14, <1>16, <2>1, ContentsQueued DEF Stored
<1> QED BY <1>13, <1>14, <1>15, <1>17, <1>18, StoredQueued

-----------------------------------------------------------------------------

\* At first nothing is stored.
LEMMA InitStored ==
  ASSUME Init
  PROVE  StoreInv
<1>1. TypeInv
  BY InitTyped
<1>2. /\ history = [i \in DOMAIN Past |-> Posted(i, NULL, other, Past[i])]
      /\ client.since = 0 /\ client.saving = "no"
      /\ shown.prev_batch = NULL /\ shown.list = <<>> /\ shown.loading = "no"
      /\ message = [x \in Txn |-> "new"] /\ queue = <<>> /\ done = <<>>
  BY DEF Init, NewRoom
<1>3. /\ db.next_batch = NULL /\ db.events[room] = {} /\ db.rooms = {}
      /\ db.prev_batch[room] = NULL
  <2>1. db = SaveClient(Created(NoTables), NULL, TRUE).db
    BY DEF Init
  <2>2. db = [WithAccount(Created(NoTables)) EXCEPT !.next_batch = NULL, !.json = TRUE]
    BY <2>1 DEF SaveClient, Done
  <2>3. PICK d : d = NoTables
    OBVIOUS
  <2>4. /\ d.events[room] = {} /\ d.rooms = {} /\ d.prev_batch[room] = NULL
        /\ DOMAIN d = DOMAIN NoTables /\ "next_batch" \in DOMAIN d
    BY <2>3, NamesAssumption DEF NoTables
  <2>5. db.next_batch = NULL /\ db.events = d.events /\ db.rooms = d.rooms
        /\ db.prev_batch = d.prev_batch
    BY <2>2, <2>3 DEF WithAccount, Created, NoTables
  <2> QED BY <2>4, <2>5
<1>4. IsHistory(history) /\ \A i \in DOMAIN history : history[i].txn = NULL
  BY <1>1, <1>2 DEF TypeInv, Posted
<1>5. history # <<>>
  <2>1. DOMAIN history = DOMAIN Past
    BY <1>2
  <2>2. 1 \in DOMAIN Past
    BY HistoryAssumption
  <2> QED BY <2>1, <2>2
<1>6. Thens(queue) = {} /\ DOMAIN queue = {} /\ DOMAIN done = {}
  BY <1>2 DEF Thens
<1>7. PICK none : none = 0
  OBVIOUS
<1>8. Place(shown.prev_batch) = none /\ Place(db.next_batch) = none /\ none \in none .. none
      /\ none + 1 .. none = {} /\ none <= none /\ none \in Nat
  BY <1>2, <1>3, <1>7 DEF Place
<1>9. Piece(db.events[room], history, none, none)
  BY <1>3, <1>8 DEF Piece
<1>10. Rest(none, none)
  BY <1>2, <1>6, <1>7, <1>8 DEF Rest, Adds
<1>11. RoomFirst /\ Saves
  BY <1>2, <1>3, <1>6, <1>7, <1>8 DEF RoomFirst, RoomsFirst, Saves, RoomSaves, ClientSaves
<1>12. Fresh
  BY <1>2, <1>3, <1>5, <1>6 DEF Fresh
<1>13. Tokened(none)
  BY <1>2, <1>3, <1>4 DEF Tokened
<1>14. Contents
  BY <1>2, <1>6 DEF Contents, Distinct
<1> QED BY <1>1, <1>8, <1>9, <1>10, <1>11, <1>12, <1>13, <1>14 DEF Stored, StoreInv

\* Every step keeps what is stored a piece of the history.
LEMMA NextStored ==
  ASSUME ~LimitedSyncs, ~EmptySends, ~Crashes, StoreInv, [Next]_vars
  PROVE  StoreInv'
<1>1. TypeInv /\ TypeInv'
  BY NextTyped DEF StoreInv
<1>2. PICK lo \in Nat, hi \in Nat : Stored(lo, hi)
  BY DEF StoreInv
<1> DEFINE Goes == \E from, to \in Nat : Stored(from, to)'
<1>3. Stored(lo, hi)' => Goes
  OBVIOUS
<1>4. ASSUME \/ \E m \in BOOLEAN : Post(m)
             \/ \E x \in Txn : Accept(x)
      PROVE  Stored(lo, hi)'
  BY <1>1, <1>2, <1>4, PostStored
<1>5. ASSUME \/ \E found \in BOOLEAN : RoomListed(found)
             \/ LoadFailed \/ NextSync \/ HistoryStored
             \/ \E x \in Txn : StartSending(x) \/ SendFailed(x)
      PROVE  Stored(lo, hi)'
  BY <1>1, <1>2, <1>5, QuietStored
<1>6. ASSUME NEW first \in 1 .. Len(history), SyncDone(first) PROVE Goes
  BY <1>1, <1>2, <1>6, SyncDoneStored
<1>7. ASSUME SyncEmpty PROVE Stored(lo, hi)'
  BY <1>1, <1>2, <1>7, SyncEmptyStored
<1>8. ASSUME NEW x \in Txn, Send(x) PROVE Stored(lo, hi)'
  BY <1>1, <1>2, <1>8, SendStored
<1>9. ASSUME NEW x \in Txn, Sent(x) PROVE Stored(lo, hi)'
  BY <1>1, <1>2, <1>9, SentStored
<1>10. ASSUME LoadPast PROVE Stored(lo, hi)'
  BY <1>1, <1>2, <1>10, LoadPastStored
<1>11. ASSUME StateLoaded PROVE Stored(lo, hi)'
  BY <1>1, <1>2, <1>11, StateLoadedStored
<1>12. ASSUME HistoryLoaded PROVE Stored(lo, hi)'
  BY <1>1, <1>2, <1>12, HistoryLoadedStored
<1>13. ASSUME Work PROVE Goes
  BY <1>1, <1>2, <1>13, WorkStored
<1>14. ASSUME ClientSaved PROVE Stored(lo, hi)'
  BY <1>1, <1>2, <1>14, ClientSavedStored
<1>15. ASSUME PastLoaded PROVE Stored(lo, hi)'
  BY <1>1, <1>2, <1>15, PastLoadedStored
<1>16. ASSUME NEW x \in Txn, SetId(x) PROVE Stored(lo, hi)'
  BY <1>1, <1>2, <1>16, SetIdStored
<1>17. ASSUME Restart PROVE Stored(lo, hi)'
  BY <1>1, <1>2, <1>17, RestartStored
<1>18. ASSUME UNCHANGED vars PROVE Stored(lo, hi)'
  BY <1>2, <1>18 DEF vars, Stored, Rest, RoomFirst, Saves, Fresh, Tokened, Contents, Distinct
<1> HIDE DEF Goes
<1>19. Goes
  BY <1>3, <1>4, <1>5, <1>6, <1>7, <1>8, <1>9, <1>10, <1>11, <1>12, <1>13, <1>14, <1>15,
     <1>16, <1>17, <1>18 DEF Next
<1> QED BY <1>1, <1>19 DEF StoreInv, Goes

-----------------------------------------------------------------------------
(* What is stored once nothing is left to do.                              *)

\* The rows of the events up to a place
Until(rows, u) == {row \in rows : row.event.uid <= u}

\* The rows of the events after lo, of which there is one for each
Every(rows, h, lo, to) ==
  /\ \A row \in rows : row.event.uid \in lo + 1 .. to /\ row.event = h[row.event.uid]
  /\ \A u \in lo + 1 .. to : \E row \in rows : row.event.uid = u
  /\ \A a, b \in rows : /\ a.event.uid < b.event.uid <=> a.sorted_id < b.sorted_id
                        /\ a.event.uid = b.event.uid => a = b

\* They can be counted.
LEMMA UntilCounted ==
  ASSUME NEW rows, NEW h, NEW lo \in Nat, NEW to \in Nat, Every(rows, h, lo, to),
         NEW u \in lo .. to
  PROVE  Cardinality(Until(rows, u)) = u - lo
<1>1. PICK n : n = u - lo
  OBVIOUS
<1>2. n \in Nat /\ \A k \in 1 .. n : lo + k \in lo + 1 .. to /\ lo + k <= u
  BY <1>1
<1> DEFINE Of(k) == CHOOSE row \in rows : row.event.uid = lo + k
<1>3. \A k \in 1 .. n : Of(k) \in rows /\ Of(k).event.uid = lo + k
  BY <1>2 DEF Every
<1>4. \A row \in rows : row.event.uid \in lo + 1 .. to
  BY DEF Every
<1>5. \A a, b \in rows : a.event.uid = b.event.uid => a = b
  BY DEF Every
<1> HIDE DEF Of
<1>6. PICK f : f = [k \in 1 .. n |-> Of(k)]
  OBVIOUS
<1>7. f \in Bijection(1 .. n, Until(rows, u))
  <2>1. \A k \in 1 .. n : Of(k) \in Until(rows, u)
    BY <1>2, <1>3 DEF Until
  <2>2. \A j, k \in 1 .. n : Of(j) = Of(k) => j = k
    <3>1. ASSUME NEW j \in 1 .. n, NEW k \in 1 .. n, Of(j) = Of(k) PROVE j = k
      <4>1. lo + j = lo + k
        BY <1>3, <3>1
      <4> QED BY <1>2, <4>1
    <3> QED BY <3>1
  <2>3. \A row \in Until(rows, u) : \E k \in 1 .. n : Of(k) = row
    <3>1. ASSUME NEW row \in Until(rows, u) PROVE \E k \in 1 .. n : Of(k) = row
      <4>1. row \in rows /\ row.event.uid \in lo + 1 .. to /\ row.event.uid <= u
        BY <1>4 DEF Until
      <4>2. PICK k : k = row.event.uid - lo
        OBVIOUS
      <4>3. k \in 1 .. n /\ lo + k = row.event.uid
        BY <1>1, <4>1, <4>2
      <4>4. Of(k) = row
        BY <1>3, <1>5, <4>1, <4>3
      <4> QED BY <4>3, <4>4
    <3> QED BY <3>1
  <2>4. /\ f \in [1 .. n -> Until(rows, u)]
        /\ \A j, k \in 1 .. n : f[j] = f[k] => j = k
        /\ \A row \in Until(rows, u) : \E k \in 1 .. n : f[k] = row
    BY <1>6, <2>1, <2>2, <2>3
  <2> QED BY <2>4, Zenon DEF Bijection, Injection, Surjection, IsInjective
<1>8. ExistsBijection(1 .. n, Until(rows, u))
  BY <1>7 DEF ExistsBijection
<1> QED BY <1>1, <1>2, <1>8, FS_CountingElements

\* The row at a place of the table
RowAt(rows, n) ==
  CHOOSE row \in rows : Cardinality({x \in rows : x.sorted_id < row.sorted_id}) = n - 1

\* There is a row at each place, which is that of the event.
InOrder(rows, h, lo, to) ==
  /\ Cardinality(rows) = to - lo
  /\ \A n \in 1 .. to - lo : RowAt(rows, n).event = h[lo + n]

\* The rows in the order of sorted_id are the events in that of the server.
LEMMA RowsInOrder ==
  ASSUME NEW rows, NEW h, NEW lo \in Nat, NEW to \in Nat, lo <= to, Every(rows, h, lo, to)
  PROVE  InOrder(rows, h, lo, to)
<1>1. Cardinality(rows) = to - lo
  <2>1. rows = Until(rows, to)
    BY DEF Until, Every
  <2>2. to \in lo .. to
    OBVIOUS
  <2> QED BY <2>1, <2>2, UntilCounted
<1>2. ASSUME NEW row \in rows
      PROVE  Cardinality({x \in rows : x.sorted_id < row.sorted_id}) = row.event.uid - 1 - lo
  <2>1. PICK u : u = row.event.uid - 1
    OBVIOUS
  <2>2. row.event.uid \in lo + 1 .. to /\ u \in lo .. to
    BY <2>1 DEF Every
  <2>3. \A x \in rows : x.event.uid \in Int /\ (x.sorted_id < row.sorted_id <=> x.event.uid <= u)
    BY <2>1, <2>2 DEF Every
  <2>4. {x \in rows : x.sorted_id < row.sorted_id} = Until(rows, u)
    BY <2>3 DEF Until
  <2>5. Cardinality(Until(rows, u)) = u - lo
    BY <2>2, UntilCounted
  <2> QED BY <2>1, <2>4, <2>5
<1>3. ASSUME NEW n \in 1 .. to - lo PROVE RowAt(rows, n).event = h[lo + n]
  <2>1. PICK u : u = lo + n
    OBVIOUS
  <2>2. u \in lo + 1 .. to
    BY <2>1
  <2>3. PICK row \in rows : row.event.uid = u
    BY <2>2 DEF Every
  <2>4. Cardinality({x \in rows : x.sorted_id < row.sorted_id}) = n - 1
    <3>1. Cardinality({x \in rows : x.sorted_id < row.sorted_id}) = row.event.uid - 1 - lo
      BY <1>2
    <3> QED BY <2>1, <2>3, <3>1
  <2>5. PICK at : at = RowAt(rows, n)
    OBVIOUS
  <2>6. at \in rows /\ Cardinality({x \in rows : x.sorted_id < at.sorted_id}) = n - 1
    BY <2>4, <2>5 DEF RowAt
  <2>7. Cardinality({x \in rows : x.sorted_id < at.sorted_id}) = at.event.uid - 1 - lo
    BY <1>2, <2>6
  <2>8. at.event.uid \in lo + 1 .. to /\ at.event = h[at.event.uid]
    BY <2>6 DEF Every
  <2>9. at.event.uid = u
    BY <2>1, <2>6, <2>7, <2>8
  <2> QED BY <2>1, <2>5, <2>8, <2>9
<1> QED BY <1>1, <1>3 DEF InOrder

\* The rows are the history that the token of the room does not name.
LEMMA StoredIs ==
  ASSUME StoreInv
  PROVE  StoredIsHistory
<1> SUFFICES ASSUME Settled PROVE StoredEvents = SyncedHistory(1 + Place(shown.prev_batch))
  BY DEF StoredIsHistory
<1>1. TypeInv /\ queue = <<>> /\ done = <<>>
  BY DEF StoreInv, Settled
<1>2. PICK lo \in Nat, hi \in Nat : Stored(lo, hi)
  BY DEF StoreInv
<1>3. hi = client.since /\ lo = Place(shown.prev_batch)
  <2>1. Thens(queue) = {}
    BY <1>1 DEF Thens
  <2> QED BY <1>2, <2>1 DEF Stored, Rest, Adds
<1>4. PICK h, all : h = history /\ all = db.events[room]
  OBVIOUS
<1>5. /\ lo <= hi /\ hi <= Len(h) /\ Len(h) \in Nat /\ DOMAIN h = 1 .. Len(h) /\ IsHistory(h)
      /\ Piece(all, h, lo, hi) /\ IsRows(all)
  BY <1>1, <1>2, <1>4, Bounds
<1>6. PICK rows : rows = {row \in all : ~(row.event.uid = NULL /\ row.event.txn \notin SyncedTxns)}
  OBVIOUS
<1>7. rows = {row \in all : row.event.uid # NULL}
  <2>1. ASSUME NEW row \in all, row.event.uid = NULL PROVE row.event.txn \notin SyncedTxns
    <3>1. \A i \in DOMAIN h : h[i].txn = row.event.txn => i > hi
      BY <1>5, <2>1 DEF Piece
    <3>2. \A i \in 1 .. hi : i \in DOMAIN h /\ ~(i > hi)
      BY <1>5
    <3>3. \A i \in 1 .. hi : h[i].txn # row.event.txn
      BY <3>1, <3>2
    <3> QED BY <1>3, <1>4, <3>3 DEF SyncedTxns
  <2> QED BY <1>6, <2>1
<1>8. Every(rows, h, lo, hi)
  <2>1. \A row \in rows : row \in all /\ row.event.uid \in lo + 1 .. hi
      /\ row.event = h[row.event.uid]
    BY <1>5, <1>7 DEF Piece
  <2>2. \A u \in lo + 1 .. hi : \E row \in rows : row.event.uid = u
    <3>1. \A u \in lo + 1 .. hi : u # NULL
      <4>1. \A u \in lo + 1 .. hi : u \in 1 .. Len(h)
        BY <1>5
      <4> QED BY <1>5, <4>1, Places
    <3> QED BY <1>5, <1>7, <3>1 DEF Piece
  <2>3. \A a, b \in rows : a.event.uid < b.event.uid <=> a.sorted_id < b.sorted_id
    BY <1>5, <1>7 DEF Piece
  <2>4. ASSUME NEW a \in rows, NEW b \in rows, a.event.uid = b.event.uid PROVE a = b
    <3>1. ~(a.event.uid < b.event.uid) /\ ~(b.event.uid < a.event.uid)
      BY <2>1, <2>4
    <3>2. ~(a.sorted_id < b.sorted_id) /\ ~(b.sorted_id < a.sorted_id)
      BY <2>3, <3>1
    <3>3. a.sorted_id \in Int /\ b.sorted_id \in Int
      BY <1>5, <2>1 DEF IsRows
    <3>4. a.sorted_id = b.sorted_id
      BY <3>2, <3>3
    <3> QED BY <1>5, <2>1, <3>4 DEF IsRows
  <2> QED BY <2>1, <2>2, <2>3, <2>4 DEF Every
<1>9. Cardinality(rows) = hi - lo /\ \A n \in 1 .. hi - lo : RowAt(rows, n).event = h[lo + n]
  <2>1. InOrder(rows, h, lo, hi)
    BY <1>5, <1>8, RowsInOrder
  <2> QED BY <2>1 DEF InOrder
<1>10. StoredEvents = [n \in 1 .. hi - lo |-> RowAt(rows, n).event]
  <2>1. StoredEvents = [n \in 1 .. Cardinality(rows) |-> RowAt(rows, n).event]
    BY <1>4, <1>6 DEF StoredEvents, RowAt
  <2> QED BY <1>9, <2>1
<1>11. StoredEvents = [n \in 1 .. hi - lo |-> h[lo + n]]
  BY <1>9, <1>10
<1>12. SubSeq(h, lo + 1, hi) = [n \in 1 .. hi - lo |-> h[lo + n]]
  BY <1>5 DEF IsHistory
<1>13. SyncedHistory(1 + Place(shown.prev_batch)) = SubSeq(h, lo + 1, hi)
  <2>1. 1 + Place(shown.prev_batch) = lo + 1
    BY <1>3
  <2> QED BY <1>3, <1>4, <2>1 DEF SyncedHistory
<1> QED BY <1>11, <1>12, <1>13

\* Once the tasks are done the rows of the room are the synced history that its token
\* does not name, each event once and in the order of the server, whatever was synced,
\* sent, loaded backwards and started again, if no answer of /sync leaves out events, no
\* message is sent into an empty list and the client stores what it has before it ends.
THEOREM TimelineStored ==
  ASSUME ~LimitedSyncs, ~EmptySends, ~Crashes
  PROVE  Spec => []StoredIsHistory
<1>1. Init => StoreInv
  BY InitStored
<1>2. StoreInv /\ [Next]_vars => StoreInv'
  BY NextStored
<1>3. StoreInv => StoredIsHistory
  BY StoredIs
<1> QED BY <1>1, <1>2, <1>3, PTL DEF Spec

-----------------------------------------------------------------------------
(* The messages from one place to another.                                 *)

\* There are none from a place to one before it.
LEMMA BetweenTyped ==
  ASSUME NEW h, IsHistory(h), NEW from \in Nat, from > 0, NEW to \in 0 .. Len(h)
  PROVE  /\ Between(h, from, to) \in Seq(Plain) /\ Len(Between(h, from, to)) \in Nat
         /\ from > to => Between(h, from, to) = <<>>
<1>1. PICK part : part = SubSeq(h, from, to)
  OBVIOUS
<1>2. part \in Seq(Plain) /\ Len(part) = IF from <= to THEN to - from + 1 ELSE 0
  BY <1>1, PartIs
<1>3. Messages(part) \in Seq(Plain)
  BY <1>2, MessagesConcat
<1>4. ASSUME from > to PROVE Messages(part) = <<>>
  <2>1. ~(from <= to)
    <3>1. to \in Nat
      BY Places
    <3> QED BY <1>4, <3>1
  <2>2. DOMAIN part = {}
    BY <1>2, <2>1
  <2> QED BY <1>2, <2>2, MessagesAll
<1> QED BY <1>1, <1>3, <1>4 DEF Between

\* One place
LEMMA BetweenOne ==
  ASSUME NEW h, IsHistory(h), NEW u \in 1 .. Len(h)
  PROVE  Between(h, u, u) = IF h[u].message THEN <<h[u]>> ELSE <<>>
<1>1. PICK part : part = SubSeq(h, u, u)
  OBVIOUS
<1>2. u \in Nat /\ u > 0 /\ u \in 0 .. Len(h) /\ h[u] \in Plain
  BY Places
<1>3. /\ part \in Seq(Plain) /\ Len(part) = IF u <= u THEN u - u + 1 ELSE 0
      /\ \A i \in 1 .. Len(part) : part[i] = h[u + i - 1]
  BY <1>1, <1>2, PartIs
<1>4. Len(part) = 1 /\ DOMAIN part = {1} /\ u + 1 - 1 = u
  BY <1>2, <1>3
<1>5. part[1] = h[u]
  BY <1>3, <1>4
<1>6. /\ h[u].message => Messages(part) = part
      /\ ~h[u].message => Messages(part) = <<>>
  BY <1>3, <1>4, <1>5, MessagesAll
<1>7. part = <<h[u]>>
  BY <1>3, <1>4, <1>5
<1> QED BY <1>1, <1>6, <1>7 DEF Between

\* Two pieces of the history in a row
LEMMA PartSplit ==
  ASSUME NEW h, IsHistory(h), NEW from \in Nat, from > 0, NEW to \in 0 .. Len(h),
         NEW mid \in Nat, mid <= to, from <= mid + 1
  PROVE  SubSeq(h, from, to) = SubSeq(h, from, mid) \o SubSeq(h, mid + 1, to)
<1>1. PICK a, b, c : a = SubSeq(h, from, mid) /\ b = SubSeq(h, mid + 1, to)
                     /\ c = SubSeq(h, from, to)
  OBVIOUS
<1>2. mid \in 0 .. Len(h) /\ mid + 1 \in Nat /\ mid + 1 > 0 /\ to \in Nat /\ Len(h) \in Nat
  BY Places
<1>3. /\ a \in Seq(Plain) /\ Len(a) = mid - from + 1
      /\ \A i \in 1 .. Len(a) : a[i] = h[from + i - 1]
  <2>1. /\ SubSeq(h, from, mid) \in Seq(Plain)
        /\ Len(SubSeq(h, from, mid)) = IF from <= mid THEN mid - from + 1 ELSE 0
        /\ \A i \in 1 .. Len(SubSeq(h, from, mid)) : SubSeq(h, from, mid)[i] = h[from + i - 1]
    BY <1>2, PartIs
  <2>2. ~(from <= mid) => mid - from + 1 = 0
    BY <1>2
  <2> QED BY <1>1, <2>1, <2>2
<1>4. /\ b \in Seq(Plain) /\ Len(b) = to - mid
      /\ \A i \in 1 .. Len(b) : b[i] = h[mid + 1 + i - 1]
  <2>1. /\ SubSeq(h, mid + 1, to) \in Seq(Plain)
        /\ Len(SubSeq(h, mid + 1, to)) = IF mid + 1 <= to THEN to - (mid + 1) + 1 ELSE 0
        /\ \A i \in 1 .. Len(SubSeq(h, mid + 1, to)) :
             SubSeq(h, mid + 1, to)[i] = h[mid + 1 + i - 1]
    BY <1>2, PartIs
  <2>2. ~(mid + 1 <= to) => to - mid = 0
    BY <1>2
  <2> QED BY <1>1, <1>2, <2>1, <2>2
<1>5. /\ c \in Seq(Plain) /\ Len(c) = to - from + 1
      /\ \A i \in 1 .. Len(c) : c[i] = h[from + i - 1]
  <2>1. /\ SubSeq(h, from, to) \in Seq(Plain)
        /\ Len(SubSeq(h, from, to)) = IF from <= to THEN to - from + 1 ELSE 0
        /\ \A i \in 1 .. Len(SubSeq(h, from, to)) : SubSeq(h, from, to)[i] = h[from + i - 1]
    BY PartIs
  <2>2. ~(from <= to) => to - from + 1 = 0
    BY <1>2
  <2> QED BY <1>1, <2>1, <2>2
<1>6. PICK d : d = a \o b
  OBVIOUS
<1>7. /\ d \in Seq(Plain) /\ Len(d) = Len(a) + Len(b)
      /\ \A i \in 1 .. Len(a) : d[i] = a[i]
      /\ \A i \in 1 .. Len(a) + Len(b) :
           i > Len(a) => i - Len(a) \in 1 .. Len(b) /\ d[i] = b[i - Len(a)]
  BY <1>3, <1>4, <1>6, ListConcat
<1>8. Len(d) = Len(c)
  BY <1>2, <1>3, <1>4, <1>5, <1>7
<1>9. ASSUME NEW i \in 1 .. Len(c) PROVE c[i] = d[i]
  <2>1. c[i] = h[from + i - 1] /\ i \in Nat
    BY <1>5
  <2>2. CASE i <= Len(a)
    <3>1. i \in 1 .. Len(a)
      BY <1>3, <2>1, <2>2
    <3> QED BY <1>3, <1>7, <2>1, <3>1
  <2>3. CASE i > Len(a)
    <3>1. i \in 1 .. Len(a) + Len(b)
      BY <1>7, <1>8
    <3>2. i - Len(a) \in 1 .. Len(b) /\ d[i] = b[i - Len(a)]
      BY <1>7, <2>3, <3>1
    <3>3. mid + 1 + (i - Len(a)) - 1 = from + i - 1
      BY <1>2, <1>3, <2>1
    <3> QED BY <1>4, <2>1, <3>2, <3>3
  <2>4. Len(a) \in Int
    BY <1>2, <1>3
  <2> QED BY <2>1, <2>2, <2>3, <2>4
<1>10. c = d
  BY <1>5, <1>7, <1>8, <1>9, SameSeq
<1> QED BY <1>1, <1>6, <1>10

\* Their messages
LEMMA BetweenSplit ==
  ASSUME NEW h, IsHistory(h), NEW from \in Nat, from > 0, NEW to \in 0 .. Len(h),
         NEW mid \in Nat, mid <= to, from <= mid + 1
  PROVE  /\ Between(h, from, to) = Between(h, from, mid) \o Between(h, mid + 1, to)
         /\ Between(h, from, mid) \in Seq(Plain) /\ Between(h, mid + 1, to) \in Seq(Plain)
<1>1. PICK a, b : a = SubSeq(h, from, mid) /\ b = SubSeq(h, mid + 1, to)
  OBVIOUS
<1>2. mid \in 0 .. Len(h) /\ mid + 1 \in Nat /\ mid + 1 > 0
  BY Places
<1>3. a \in Seq(Plain) /\ b \in Seq(Plain)
  BY <1>1, <1>2, PartIs
<1>4. SubSeq(h, from, to) = a \o b
  BY <1>1, PartSplit
<1>5. Messages(a \o b) = Messages(a) \o Messages(b) /\ Messages(a) \in Seq(Plain)
      /\ Messages(b) \in Seq(Plain)
  BY <1>3, MessagesConcat
<1> QED BY <1>1, <1>4, <1>5 DEF Between

\* Around one place
LEMMA BetweenAround ==
  ASSUME NEW h, IsHistory(h), NEW from \in Nat, from > 0, NEW to \in 0 .. Len(h),
         NEW u \in from .. to, h[u].message
  PROVE  /\ Between(h, from, to)
              = (Between(h, from, u - 1) \o <<h[u]>>) \o Between(h, u + 1, to)
         /\ Between(h, from, u - 1) \in Seq(Plain) /\ Between(h, u + 1, to) \in Seq(Plain)
         /\ Between(h, from, u) = Between(h, from, u - 1) \o <<h[u]>>
         /\ Between(h, u, to) = <<h[u]>> \o Between(h, u + 1, to)
<1>1. /\ u \in Nat /\ u > 0 /\ u \in 1 .. Len(h) /\ u <= to /\ from <= u /\ u - 1 \in Nat
      /\ u - 1 <= u /\ from <= (u - 1) + 1 /\ (u - 1) + 1 = u /\ u \in 0 .. Len(h)
      /\ u <= u + 1 /\ from <= u + 1
  BY Places
<1>2. Between(h, u, u) = <<h[u]>>
  BY <1>1, BetweenOne
<1>3. PICK m : m = u - 1
  OBVIOUS
<1>4. m \in Nat /\ m <= u /\ from <= m + 1 /\ u \in 0 .. Len(h)
  BY <1>1, <1>3
<1>5. /\ Between(h, from, u) = Between(h, from, m) \o Between(h, m + 1, u)
      /\ Between(h, from, m) \in Seq(Plain)
  BY <1>4, BetweenSplit
<1>6. /\ Between(h, from, to) = Between(h, from, u) \o Between(h, u + 1, to)
      /\ Between(h, u + 1, to) \in Seq(Plain)
  BY <1>1, BetweenSplit
<1>7. Between(h, u, to) = Between(h, u, u) \o Between(h, u + 1, to)
  BY <1>1, BetweenSplit
<1>8. m + 1 = u
  BY <1>1, <1>3
<1>9. Between(h, from, u) = Between(h, from, m) \o <<h[u]>>
  BY <1>2, <1>5, <1>8
<1> QED BY <1>2, <1>3, <1>5, <1>6, <1>7, <1>9

\* There is no message exactly if they are none.
LEMMA BetweenQuiet ==
  ASSUME NEW h, IsHistory(h), NEW from \in Nat, from > 0, NEW to \in 0 .. Len(h)
  PROVE  Between(h, from, to) = <<>> <=> Quiet(h, from, to)
<1>1. ASSUME Quiet(h, from, to) PROVE Between(h, from, to) = <<>>
  <2>1. PICK part : part = SubSeq(h, from, to)
    OBVIOUS
  <2>2. /\ part \in Seq(Plain)
        /\ \A i \in 1 .. Len(part) : part[i] = h[from + i - 1] /\ from + i - 1 \in from .. to
    BY <2>1, PartIs
  <2>3. \A i \in DOMAIN part : ~part[i].message
    <3>1. \A u \in from .. to : ~h[u].message
      BY <1>1 DEF Quiet
    <3>2. ASSUME NEW i \in 1 .. Len(part) PROVE ~part[i].message
      <4>1. PICK u : u = from + i - 1
        OBVIOUS
      <4> QED BY <2>2, <3>1, <4>1
    <3> QED BY <2>2, <3>2
  <2> QED BY <2>1, <2>2, <2>3, MessagesAll DEF Between
<1>2. ASSUME NEW u \in from .. to, h[u].message PROVE Between(h, from, to) # <<>>
  <2>1. PICK a, b, e : a = Between(h, from, u - 1) /\ b = Between(h, u + 1, to) /\ e = h[u]
    OBVIOUS
  <2>2. Between(h, from, to) = (a \o <<e>>) \o b /\ a \in Seq(Plain) /\ b \in Seq(Plain)
    BY <1>2, <2>1, BetweenAround
  <2>3. e \in Plain
    <3>1. u \in 1 .. Len(h)
      BY Places
    <3> QED BY <2>1, <3>1, Places
  <2>4. Len((a \o <<e>>) \o b) = Len(a) + 1 + Len(b)
    BY <2>2, <2>3, MiddleIs
  <2>5. Len(a) \in Nat /\ Len(b) \in Nat
    BY <2>2
  <2>6. Len(Between(h, from, to)) # 0
    BY <2>2, <2>4, <2>5
  <2> QED BY <2>6
<1> QED BY <1>1, <1>2 DEF Quiet

\* Every element is one of the messages.
LEMMA BetweenElements ==
  ASSUME NEW h, IsHistory(h), NEW from \in Nat, from > 0
  PROVE  \A n \in Nat : from + n - 1 <= Len(h) =>
           \A i \in 1 .. Len(Between(h, from, from + n - 1)) :
             \E u \in from .. from + n - 1 : /\ Between(h, from, from + n - 1)[i] = h[u]
                                             /\ h[u].message
<1> DEFINE B(n) == Between(h, from, from + n - 1)
           T == {n \in Nat : from + n - 1 <= Len(h) =>
                   \A i \in 1 .. Len(B(n)) :
                     \E u \in from .. from + n - 1 : B(n)[i] = h[u] /\ h[u].message}
<1>1. Len(h) \in Nat
  BY Places
<1>2. 0 \in T
  <2>1. ASSUME from + 0 - 1 <= Len(h) PROVE Len(B(0)) = 0
    <3>1. PICK to : to = from + 0 - 1
      OBVIOUS
    <3>2. to \in 0 .. Len(h) /\ from > to
      BY <1>1, <2>1, <3>1
    <3>3. Between(h, from, to) = <<>>
      BY <3>2, BetweenTyped
    <3> QED BY <3>1, <3>3
  <2> HIDE DEF B
  <2> QED BY <2>1
<1>3. ASSUME NEW n \in Nat, n \in T PROVE n + 1 \in T
  <2> HIDE DEF B
  <2> SUFFICES ASSUME from + (n + 1) - 1 <= Len(h), NEW i \in 1 .. Len(B(n + 1))
               PROVE  \E u \in from .. from + (n + 1) - 1 : B(n + 1)[i] = h[u] /\ h[u].message
    BY DEF T
  <2>1. PICK v, m : v = from + n /\ m = from + n - 1
    OBVIOUS
  <2>2. /\ v \in 1 .. Len(h) /\ v \in 0 .. Len(h) /\ m \in Nat /\ m <= v /\ from <= m + 1
        /\ m + 1 = v /\ from + (n + 1) - 1 = v /\ from <= v /\ m <= Len(h) /\ v \in Nat
    BY <1>1, <2>1
  <2>3. PICK a, b, c : a = Between(h, from, m) /\ b = Between(h, v, v) /\ c = Between(h, from, v)
    OBVIOUS
  <2>4. c = a \o b /\ a \in Seq(Plain) /\ b \in Seq(Plain)
    <3>1. /\ Between(h, from, v) = Between(h, from, m) \o Between(h, m + 1, v)
          /\ Between(h, from, m) \in Seq(Plain) /\ Between(h, m + 1, v) \in Seq(Plain)
      BY <2>2, BetweenSplit
    <3> QED BY <2>2, <2>3, <3>1
  <2>5. b = IF h[v].message THEN <<h[v]>> ELSE <<>>
    BY <2>2, <2>3, BetweenOne
  <2>6. B(n) = a /\ B(n + 1) = c
    BY <2>1, <2>2, <2>3 DEF B
  <2>7. \A k \in 1 .. Len(a) : \E u \in from .. m : a[k] = h[u] /\ h[u].message
    BY <1>3, <2>1, <2>2, <2>6
  <2>8. /\ Len(c) = Len(a) + Len(b)
        /\ \A k \in 1 .. Len(a) : c[k] = a[k]
        /\ \A k \in 1 .. Len(a) + Len(b) :
             k > Len(a) => k - Len(a) \in 1 .. Len(b) /\ c[k] = b[k - Len(a)]
    BY <2>4, ListConcat
  <2>9. i \in 1 .. Len(a) + Len(b) /\ i \in Int /\ Len(a) \in Int
    BY <2>4, <2>6, <2>8
  <2>10. CASE i <= Len(a)
    <3>1. i \in 1 .. Len(a)
      BY <2>9, <2>10
    <3>2. PICK u \in from .. m : a[i] = h[u] /\ h[u].message
      BY <2>7, <3>1
    <3>3. u \in from .. v
      BY <2>2, <3>2
    <3> QED BY <2>2, <2>6, <2>8, <3>1, <3>2, <3>3
  <2>11. CASE i > Len(a)
    <3>1. i - Len(a) \in 1 .. Len(b) /\ c[i] = b[i - Len(a)]
      BY <2>8, <2>9, <2>11
    <3>2. h[v].message /\ b = <<h[v]>>
      <4>1. Len(b) # 0
        BY <3>1
      <4> QED BY <2>5, <4>1
    <3>3. i - Len(a) = 1
      BY <3>1, <3>2
    <3>4. c[i] = h[v]
      BY <3>1, <3>2, <3>3
    <3>5. v \in from .. v
      BY <2>2
    <3> QED BY <2>2, <2>6, <3>2, <3>4, <3>5
  <2> QED BY <2>9, <2>10, <2>11
<1> HIDE DEF T
<1>4. \A n \in Nat : n \in T
  BY <1>2, <1>3, Induction
<1> QED BY <1>4 DEF T

\* The same, for two places
LEMMA BetweenShows ==
  ASSUME NEW h, IsHistory(h), NEW from \in Nat, from > 0, NEW to \in Nat, to <= Len(h),
         from <= to + 1
  PROVE  \A i \in 1 .. Len(Between(h, from, to)) :
           \E u \in from .. to : Between(h, from, to)[i] = h[u] /\ h[u].message
<1>1. PICK n : n = to - from + 1
  OBVIOUS
<1>2. n \in Nat /\ from + n - 1 = to
  BY <1>1
<1>3. from + n - 1 <= Len(h) =>
        \A i \in 1 .. Len(Between(h, from, from + n - 1)) :
          \E u \in from .. from + n - 1 : /\ Between(h, from, from + n - 1)[i] = h[u]
                                          /\ h[u].message
  BY <1>2, BetweenElements
<1> QED BY <1>2, <1>3

\* Their messages are all of them, backwards as well.
LEMMA BetweenMessages ==
  ASSUME NEW h, IsHistory(h), NEW from \in Nat, from > 0, NEW to \in Nat, to <= Len(h),
         from <= to + 1
  PROVE  Messages(Between(h, from, to)) = Between(h, from, to)
<1>1. PICK b : b = Between(h, from, to)
  OBVIOUS
<1>2. b \in Seq(Plain)
  <2>1. to \in 0 .. Len(h)
    BY Places
  <2> QED BY <1>1, <2>1, BetweenTyped
<1>3. \A i \in DOMAIN b : b[i].message
  <2>1. \A i \in 1 .. Len(b) : \E u \in from .. to : b[i] = h[u] /\ h[u].message
    BY <1>1, BetweenShows
  <2> QED BY <1>2, <2>1
<1> QED BY <1>1, <1>2, <1>3, MessagesAll

\* The messages up to a place stay what they are.
LEMMA BetweenGrows ==
  ASSUME NEW h, IsHistory(h), NEW e \in Plain, NEW g, g = Append(h, e), NEW from \in Nat,
         NEW to \in 0 .. Len(h), from > 0
  PROVE  Between(g, from, to) = Between(h, from, to)
BY PartGrows DEF Between

-----------------------------------------------------------------------------
(* A page of what is stored.                                               *)

\* The newest messages up to w, each preceded by as many as follow it
Downwards(past, h, lo, w) ==
  \A i \in 1 .. Len(past) : \E u \in lo + 1 .. w :
    past[i] = h[u] /\ h[u].message /\ Len(Between(h, u + 1, w)) = i - 1

\* They are what is between two places, backwards.
LEMMA PageBackwards ==
  ASSUME NEW h, IsHistory(h), NEW lo \in Nat, NEW w \in Nat, w <= Len(h),
         NEW past \in Seq(Plain), past # <<>>, Downwards(past, h, lo, w)
  PROVE  \E g \in lo + 1 .. w : past = Reverse(Between(h, g, w)) /\ h[g].message
<1>1. PICK l : l = Len(past)
  OBVIOUS
<1>2. l \in Nat /\ l > 0 /\ l \in 1 .. Len(past) /\ Len(h) \in Nat /\ w \in 0 .. Len(h)
  BY <1>1, Places
<1>3. PICK g \in lo + 1 .. w : h[g].message /\ Len(Between(h, g + 1, w)) = l - 1
  BY <1>2 DEF Downwards
<1>4. g \in Nat /\ g > 0 /\ g <= w /\ g \in 1 .. Len(h) /\ h[g] \in Plain /\ g \in g .. w
  BY <1>2, Places
<1>5. PICK c : c = Between(h, g, w)
  OBVIOUS
<1>6. c \in Seq(Plain) /\ Len(c) = l
  <2>1. c \in Seq(Plain)
    BY <1>2, <1>4, <1>5, BetweenTyped
  <2>2. PICK x, b : x = <<h[g]>> /\ b = Between(h, g + 1, w)
    OBVIOUS
  <2>3. c = x \o b /\ b \in Seq(Plain)
    BY <1>2, <1>3, <1>4, <1>5, <2>2, BetweenAround
  <2>4. x \in Seq(Plain) /\ Len(x) = 1
    BY <1>4, <2>2
  <2>5. Len(x \o b) = Len(x) + Len(b)
    BY <2>3, <2>4, ListConcat
  <2>6. Len(b) = l - 1
    BY <1>3, <2>2
  <2> QED BY <1>2, <2>1, <2>3, <2>4, <2>5, <2>6
<1>7. ASSUME NEW i \in 1 .. l PROVE past[i] = c[l - i + 1]
  <2>1. PICK u \in lo + 1 .. w : past[i] = h[u] /\ h[u].message /\ Len(Between(h, u + 1, w)) = i - 1
    BY <1>1 DEF Downwards
  <2>2. u \in Nat /\ u > 0 /\ u <= w /\ u \in 1 .. Len(h) /\ h[u] \in Plain /\ i \in Nat /\ i <= l
    <3>1. u \in Nat /\ u > 0 /\ u <= w /\ u \in 1 .. Len(h)
      BY <1>2
    <3>2. h[u] \in Plain
      BY <3>1, Places
    <3>3. i \in Nat /\ i <= l
      BY <1>2
    <3> QED BY <3>1, <3>2, <3>3
  <2>3. u >= g
    <3> SUFFICES ASSUME u < g PROVE FALSE
      BY <1>4, <2>2
    <3>1. PICK m : m = g - 1
      OBVIOUS
    <3>2. /\ m \in Nat /\ m <= w /\ u + 1 <= m + 1 /\ u + 1 \in Nat /\ u + 1 > 0
      BY <1>4, <2>2, <3>1
    <3>3. /\ Between(h, u + 1, w) = Between(h, u + 1, m) \o Between(h, m + 1, w)
          /\ Between(h, u + 1, m) \in Seq(Plain)
      BY <1>2, <3>2, BetweenSplit
    <3>4. m + 1 = g
      BY <1>4, <3>1
    <3>5. PICK a : a = Between(h, u + 1, m)
      OBVIOUS
    <3>6. Between(h, u + 1, w) = a \o c /\ a \in Seq(Plain)
      BY <1>5, <3>3, <3>4, <3>5
    <3>7. Len(a \o c) = Len(a) + Len(c) /\ Len(a) \in Nat
      BY <1>6, <3>6, ListConcat
    <3> QED BY <1>2, <1>6, <2>1, <2>2, <3>6, <3>7
  <2>4. PICK a, b, e : a = Between(h, g, u - 1) /\ b = Between(h, u + 1, w) /\ e = h[u]
    OBVIOUS
  <2>5. c = (a \o <<e>>) \o b /\ a \in Seq(Plain) /\ b \in Seq(Plain)
    <3>1. u \in g .. w
      BY <1>4, <2>2, <2>3
    <3> QED BY <1>2, <1>4, <1>5, <2>1, <2>4, <3>1, BetweenAround
  <2>6. /\ Len((a \o <<e>>) \o b) = Len(a) + 1 + Len(b)
        /\ ((a \o <<e>>) \o b)[Len(a) + 1] = e
    BY <2>2, <2>4, <2>5, MiddleIs
  <2>7. Len(a) \in Nat /\ Len(b) = i - 1
    BY <2>1, <2>4, <2>5
  <2>8. Len(a) + 1 = l - i + 1
    <3>1. Len(c) = Len(a) + 1 + Len(b)
      BY <2>5, <2>6
    <3> QED BY <1>2, <1>6, <2>2, <2>7, <3>1
  <2> QED BY <2>1, <2>4, <2>5, <2>6, <2>8
<1>8. past = Reverse(c)
  <2>1. /\ Reverse(c) \in Seq(Plain) /\ Len(Reverse(c)) = Len(c)
        /\ \A i \in 1 .. Len(c) : Reverse(c)[i] = c[Len(c) - i + 1]
    BY <1>6, Backwards
  <2>2. PICK r : r = Reverse(c)
    OBVIOUS
  <2>3. r \in Seq(Plain) /\ Len(past) = Len(r) /\ \A i \in 1 .. Len(past) : past[i] = r[i]
    BY <1>1, <1>6, <1>7, <2>1, <2>2
  <2>4. past = r
    BY <2>3, SameSeq
  <2> QED BY <2>2, <2>4
<1> QED BY <1>3, <1>5, <1>8

\* The rows of the messages after lo up to v, in the order of the history
Heard(older, h, lo, v) ==
  /\ IsFiniteSet(older)
  /\ \A row \in older : /\ row.event.uid \in lo + 1 .. v /\ row.event = h[row.event.uid]
                        /\ row.event.message
  /\ \A u \in lo + 1 .. v : h[u].message => \E row \in older : row.event.uid = u
  /\ \A a, b \in older : /\ a.event.uid < b.event.uid <=> a.sorted_id < b.sorted_id
                         /\ a.event.uid = b.event.uid => a = b

\* What is found from a row on is of these.
LEMMA HeardIs ==
  ASSUME NEW h, IsHistory(h), NEW rows, IsRows(rows), NEW lo \in Nat, NEW hi \in Nat,
         hi <= Len(h), Piece(rows, h, lo, hi), NEW v \in lo .. hi, NEW sorted,
         \A row \in rows : row.event.uid # NULL => (row.sorted_id <= sorted <=> row.event.uid <= v),
         NEW older, older = OlderMessages(rows, sorted), IsFiniteSet(older)
  PROVE  Heard(older, h, lo, v)
<1>1. \A row \in older : row \in rows /\ row.sorted_id <= sorted /\ row.event.message
  BY DEF OlderMessages
<1>2. \A u \in lo + 1 .. hi : u # NULL /\ u \in Nat /\ u \in 1 .. Len(h)
  BY Places
<1>3. \A row \in older : row.event.uid # NULL
  <2>1. ASSUME NEW row \in rows, row.event.uid = NULL PROVE ~row.event.message
    <3>1. row.event.txn \in Txn /\ row.event = Echo(row.event.txn)
      BY <2>1 DEF Piece
    <3>2. PICK x \in Txn : row.event = Echo(x)
      BY <3>1
    <3> QED BY <3>2, EchoIs
  <2> QED BY <1>1, <2>1
<1>4. ASSUME NEW row \in older
      PROVE  row.event.uid \in lo + 1 .. v /\ row.event = h[row.event.uid] /\ row.event.message
  <2>1. row.event.uid \in lo + 1 .. hi /\ row.event = h[row.event.uid]
    BY <1>1, <1>3 DEF Piece
  <2>2. row.event.uid <= v
    BY <1>1, <1>3
  <2>3. row.event.uid \in lo + 1 .. v
    BY <2>1, <2>2
  <2> QED BY <1>1, <2>1, <2>3
<1>5. ASSUME NEW u \in lo + 1 .. v, h[u].message
      PROVE  \E row \in older : row.event.uid = u
  <2>1. u \in lo + 1 .. hi /\ u <= v
    OBVIOUS
  <2>2. PICK row \in rows : row.event.uid = u
    BY <2>1 DEF Piece
  <2>3. row.event = h[u] /\ row.sorted_id <= sorted
    BY <1>2, <2>1, <2>2 DEF Piece
  <2> QED BY <1>5, <2>2, <2>3 DEF OlderMessages
<1>6. ASSUME NEW a \in older, NEW b \in older
      PROVE  /\ a.event.uid < b.event.uid <=> a.sorted_id < b.sorted_id
             /\ a.event.uid = b.event.uid => a = b
  <2>1. \A x, y \in rows : x.event.uid # NULL /\ y.event.uid # NULL =>
          (x.event.uid < y.event.uid <=> x.sorted_id < y.sorted_id)
    BY DEF Piece
  <2>2. a \in rows /\ b \in rows /\ a.event.uid # NULL /\ b.event.uid # NULL
    BY <1>1, <1>3
  <2>3. /\ a.event.uid < b.event.uid <=> a.sorted_id < b.sorted_id
        /\ b.event.uid < a.event.uid <=> b.sorted_id < a.sorted_id
    BY <2>1, <2>2
  <2>4. ASSUME a.event.uid = b.event.uid PROVE a = b
    <3>1. a.event.uid \in Nat
      BY <1>4
    <3>2. ~(a.sorted_id < b.sorted_id) /\ ~(b.sorted_id < a.sorted_id)
      BY <2>3, <2>4, <3>1
    <3>3. a.sorted_id \in Int /\ b.sorted_id \in Int
      BY <2>2 DEF IsRows
    <3>4. a.sorted_id = b.sorted_id
      BY <3>2, <3>3
    <3> QED BY <2>2, <3>4 DEF IsRows
  <2> QED BY <2>3, <2>4
<1> QED BY <1>4, <1>5, <1>6 DEF Heard

\* The rows of the events after one of them
After(rows, u) == {row \in rows : row.event.uid > u}

\* They are as many as the messages after it.
LEMMA HeardCounted ==
  ASSUME NEW h, IsHistory(h), NEW lo \in Nat, NEW v \in Nat, v <= Len(h), NEW older,
         Heard(older, h, lo, v)
  PROVE  \A u \in lo .. v : /\ IsFiniteSet(After(older, u))
                            /\ Cardinality(After(older, u)) = Len(Between(h, u + 1, v))
<1>1. PICK T : T = {n \in Nat : \A u \in lo .. v : u + n = v =>
                      /\ IsFiniteSet(After(older, u))
                      /\ Cardinality(After(older, u)) = Len(Between(h, u + 1, v))}
  OBVIOUS
<1>2. Len(h) \in Nat /\ v \in 0 .. Len(h)
  BY Places
<1>3. \A row \in older : row.event.uid \in lo + 1 .. v /\ row.event = h[row.event.uid]
                         /\ row.event.message
  BY DEF Heard
<1>4. 0 \in T
  <2>1. ASSUME NEW u \in lo .. v, u + 0 = v
        PROVE  /\ IsFiniteSet(After(older, u))
               /\ Cardinality(After(older, u)) = Len(Between(h, u + 1, v))
    <3>1. u = v /\ u \in Nat /\ u + 1 \in Nat /\ u + 1 > 0 /\ u + 1 > v
      BY <2>1
    <3>2. After(older, u) = {}
      BY <1>3, <3>1 DEF After
    <3>3. Between(h, u + 1, v) = <<>>
      BY <1>2, <3>1, BetweenTyped
    <3>4. Cardinality({}) = 0 /\ IsFiniteSet({})
      BY FS_EmptySet
    <3> QED BY <3>2, <3>3, <3>4
  <2> QED BY <1>1, <2>1
<1>5. ASSUME NEW n \in Nat, n \in T PROVE n + 1 \in T
  <2>1. ASSUME NEW u \in lo .. v, u + (n + 1) = v
        PROVE  /\ IsFiniteSet(After(older, u))
               /\ Cardinality(After(older, u)) = Len(Between(h, u + 1, v))
    <3>1. PICK w : w = u + 1
      OBVIOUS
    <3>2. w \in lo .. v /\ w + n = v /\ w \in Nat /\ w > 0 /\ w \in 1 .. Len(h) /\ w \in lo + 1 .. v
          /\ w \in 0 .. Len(h) /\ w <= v /\ w <= w + 1
      BY <1>2, <2>1, <3>1
    <3>3. PICK a, b : a = After(older, w) /\ b = Between(h, w + 1, v)
      OBVIOUS
    <3>4. IsFiniteSet(a) /\ Cardinality(a) = Len(b)
      BY <1>1, <1>5, <3>2, <3>3
    <3>5. PICK c : c = Between(h, w, w)
      OBVIOUS
    <3>6. Between(h, w, v) = c \o b /\ c \in Seq(Plain) /\ b \in Seq(Plain)
      BY <1>2, <3>2, <3>3, <3>5, BetweenSplit
    <3>7. Len(c) = IF h[w].message THEN 1 ELSE 0
      BY <3>2, <3>5, BetweenOne
    <3>8. Len(c \o b) = Len(c) + Len(b) /\ Len(b) \in Nat
      BY <3>6, ListConcat
    <3>9. \A row \in older : row.event.uid > u <=> row.event.uid > w \/ row.event.uid = w
      BY <1>3, <2>1, <3>1
    <3>10. CASE h[w].message
      <4>1. PICK x \in older : x.event.uid = w
        BY <3>2, <3>10 DEF Heard
      <4>2. \A row \in older : row.event.uid = w => row = x
        BY <4>1 DEF Heard
      <4>3. After(older, u) = a \cup {x}
        BY <3>3, <3>9, <4>1, <4>2 DEF After
      <4>4. x \notin a
        BY <3>2, <3>3, <4>1 DEF After
      <4>5. IsFiniteSet(a \cup {x}) /\ Cardinality(a \cup {x}) = Cardinality(a) + 1
        BY <3>4, <4>4, FS_AddElement
      <4> QED BY <3>1, <3>4, <3>6, <3>7, <3>8, <3>10, <4>3, <4>5
    <3>11. CASE ~h[w].message
      <4>1. \A row \in older : row.event.uid # w
        BY <1>3, <3>11
      <4>2. After(older, u) = a
        BY <3>3, <3>9, <4>1 DEF After
      <4> QED BY <3>1, <3>4, <3>6, <3>7, <3>8, <3>11, <4>2
    <3> QED BY <3>10, <3>11
  <2> QED BY <1>1, <2>1
<1>6. \A n \in Nat : n \in T
  BY <1>4, <1>5, Induction
<1>7. ASSUME NEW u \in lo .. v
      PROVE  /\ IsFiniteSet(After(older, u))
             /\ Cardinality(After(older, u)) = Len(Between(h, u + 1, v))
  <2>1. PICK n : n = v - u
    OBVIOUS
  <2>2. n \in Nat /\ u + n = v
    BY <1>7, <2>1
  <2> QED BY <1>1, <1>6, <2>2
<1> QED BY <1>7

\* The newer ones are those of later events.
LEMMA HeardNewer ==
  ASSUME NEW older, NEW h, NEW lo \in Nat, NEW v \in Nat, Heard(older, h, lo, v), NEW row \in older,
         NEW u, u = row.event.uid
  PROVE  Newer(older, row) = After(older, u)
<1>1. \A x \in older : x.event.uid \in lo + 1 .. v /\ (row.event.uid < x.event.uid <=>
                         row.sorted_id < x.sorted_id)
  BY DEF Heard
<1>2. \A x \in older : x.sorted_id > row.sorted_id <=> row.sorted_id < x.sorted_id
  OBVIOUS
<1>3. \A x \in older : x.event.uid > u <=> row.event.uid < x.event.uid
  OBVIOUS
<1> QED BY <1>1, <1>2, <1>3 DEF Newer, After

\* A page without events
LEMMA NoPage ==
  ASSUME NEW h, IsHistory(h), NEW lo \in Nat, NEW start \in Nat, start > lo, start - 1 <= Len(h),
         Quiet(h, lo + 1, start - 1)
  PROVE  IsPage(<<>>, h, lo, start)
<1>1. PICK w : w = start - 1
  OBVIOUS
<1>2. w \in 0 .. Len(h) /\ start > 0 /\ start > w
  BY <1>1, Places
<1>3. Between(h, start, w) = <<>>
  BY <1>2, BetweenTyped
<1>4. Reverse(<<>>) = <<>>
  <2>1. PICK e : e = <<>>
    OBVIOUS
  <2>2. e \in Seq(Plain) /\ Len(e) = 0
    BY <2>1
  <2>3. Reverse(e) \in Seq(Plain) /\ Len(Reverse(e)) = Len(e)
    BY <2>2, Backwards
  <2> QED BY <2>1, <2>2, <2>3
<1>5. Reverse(Between(h, start, start - 1)) = <<>>
  BY <1>1, <1>3, <1>4
<1>6. start \in lo + 1 .. start
  OBVIOUS
<1> QED BY <1>5, <1>6 DEF IsPage

\* Each row of a page has as many before it as are newer.
Descends(past, older, first) ==
  \A i \in 1 .. Len(past) : \E row \in older :
    past[i] = row.event /\ Cardinality(Newer(older, row)) = first + i - 1

\* A page of them, without that of the event that is known
LEMMA PageHeard ==
  ASSUME NEW h, IsHistory(h), NEW lo \in Nat, NEW v \in Nat, v <= Len(h), NEW older,
         Heard(older, h, lo, v), NEW past \in Seq(Plain), NEW first \in {0, 1}, NEW size,
         size = IF Cardinality(older) <= PageSize THEN Cardinality(older) ELSE PageSize,
         Len(past) = IF first <= size THEN size - first ELSE 0,
         Descends(past, older, first), NEW start, start \in lo + 1 .. v + 1,
         IF first = 0 THEN start = v + 1
         ELSE start = v /\ (h[v].message \/ Quiet(h, lo + 1, start - 1))
  PROVE  IsPage(past, h, lo, start)
<1>1. PICK w, one : w = start - 1 /\ one = lo + 1
  OBVIOUS
<1>2. /\ w \in lo .. v /\ w \in Nat /\ w + 1 = start /\ w = v - first
      /\ Len(h) \in Nat /\ w <= Len(h)
      /\ v \in 0 .. Len(h) /\ w \in 0 .. Len(h) /\ one \in Nat /\ one > 0 /\ lo \in lo .. v
      /\ one <= w + 1 /\ w <= v
  BY <1>1, Places
<1>3. Len(past) \in Nat
  OBVIOUS
<1>4. IF first = 0 THEN start = v + 1 ELSE start = v /\ (h[v].message \/ Quiet(h, one, w))
  BY <1>1
<1>5. first = 0 => w = v
  BY <1>2
<1>6. first = 1 => v = start /\ w + 1 = v /\ v \in 1 .. Len(h)
  BY <1>2, <1>4
\* What is after an event without the known one
<1>7. ASSUME NEW u \in lo .. w
      PROVE  /\ Len(Between(h, u + 1, w)) \in Nat
             /\ first = 0 \/ h[v].message
                  => Len(Between(h, u + 1, v)) = Len(Between(h, u + 1, w)) + first
  <2>1. PICK m : m = u + 1
    OBVIOUS
  <2>2. m \in Nat /\ m > 0 /\ m <= w + 1 /\ v \in Nat
    BY <1>2, <2>1
  <2>3. Len(Between(h, m, w)) \in Nat
    BY <1>2, <2>2, BetweenTyped
  <2>4. CASE first = 0
    BY <1>5, <2>1, <2>3, <2>4
  <2>5. CASE first = 1 /\ h[v].message
    <3>1. PICK a, c : a = Between(h, m, w) /\ c = Between(h, v, v)
      OBVIOUS
    <3>2. Between(h, m, v) = a \o c /\ a \in Seq(Plain) /\ c \in Seq(Plain)
      <4>1. Between(h, m, v) = Between(h, m, w) \o Between(h, w + 1, v)
            /\ Between(h, m, w) \in Seq(Plain) /\ Between(h, w + 1, v) \in Seq(Plain)
        BY <1>2, <2>2, BetweenSplit
      <4> QED BY <1>6, <2>5, <3>1, <4>1
    <3>3. Len(c) = 1
      BY <1>6, <2>5, <3>1, BetweenOne
    <3>4. Len(a \o c) = Len(a) + Len(c)
      BY <3>2, ListConcat
    <3> QED BY <2>1, <2>3, <2>5, <3>1, <3>2, <3>3, <3>4
  <2>6. first = 0 \/ first = 1
    OBVIOUS
  <2> QED BY <2>1, <2>3, <2>4, <2>5, <2>6
<1>8. \A u \in lo .. v : Cardinality(After(older, u)) = Len(Between(h, u + 1, v))
  BY HeardCounted
<1>9. CASE past = <<>>
  <2>1. After(older, lo) = older
    BY DEF After, Heard
  <2>2. Cardinality(older) = Len(Between(h, one, v))
    BY <1>1, <1>2, <1>8, <2>1
  <2>3. Len(past) = 0
    BY <1>9
  <2>4. PageSize \in Nat /\ PageSize > 1
    BY BoundsAssumption
  <2>5. Len(Between(h, one, v)) \in Nat
    BY <1>2, BetweenTyped
  <2>6. Len(Between(h, one, v)) <= first
    BY <2>2, <2>3, <2>4, <2>5
  <2>7. Quiet(h, one, w)
    <3>1. CASE first = 0 \/ h[v].message
      <4>1. lo \in lo .. w
        BY <1>2
      <4>2. /\ Len(Between(h, one, w)) \in Nat
            /\ Len(Between(h, one, v)) = Len(Between(h, one, w)) + first
        BY <1>1, <1>7, <3>1, <4>1
      <4>3. PICK c : c = Between(h, one, w)
        OBVIOUS
      <4>4. c \in Seq(Plain) /\ Len(c) = 0
        <5>1. c \in Seq(Plain)
          BY <1>2, <4>3, BetweenTyped
        <5> QED BY <2>6, <4>2, <4>3, <5>1
      <4>5. Between(h, one, w) = <<>>
        BY <4>3, <4>4
      <4> QED BY <1>2, <4>5, BetweenQuiet
    <3> QED BY <1>4, <3>1
  <2>8. start > lo /\ start - 1 <= Len(h) /\ start \in Nat /\ Quiet(h, lo + 1, start - 1)
    BY <1>1, <1>2, <2>7
  <2> QED BY <1>9, <2>8, NoPage
<1>10. CASE past # <<>>
  <2>1. ASSUME NEW i \in 1 .. Len(past)
        PROVE  \E u \in lo + 1 .. w :
                 past[i] = h[u] /\ h[u].message /\ Len(Between(h, u + 1, w)) = i - 1
    <3>1. PICK row \in older : past[i] = row.event /\ Cardinality(Newer(older, row)) = first + i - 1
      BY <2>1 DEF Descends
    <3>2. PICK u : u = row.event.uid
      OBVIOUS
    <3>3. u \in lo + 1 .. v /\ row.event = h[u] /\ row.event.message
      BY <3>2 DEF Heard
    <3>4. u \in lo .. v /\ u \in Nat /\ i \in Nat /\ i > 0
      BY <1>2, <2>1, <3>3
    <3>5. Len(Between(h, u + 1, v)) = first + i - 1
      BY <1>8, <3>1, <3>2, <3>4, HeardNewer
    <3>6. u <= w
      <4>1. ASSUME first = 1, u = v PROVE FALSE
        <5>1. PICK m : m = u + 1
          OBVIOUS
        <5>2. m \in Nat /\ m > 0 /\ m > v
          BY <3>4, <4>1, <5>1
        <5>3. Len(Between(h, m, v)) = 0
          BY <1>2, <5>2, BetweenTyped
        <5> QED BY <3>4, <3>5, <4>1, <5>1, <5>3
      <4> QED BY <1>2, <3>3, <3>4, <4>1
    <3>7. u \in lo .. w /\ u \in lo + 1 .. w
      BY <1>2, <3>3, <3>4, <3>6
    <3>8. first = 0 \/ h[v].message
      <4>1. ASSUME Quiet(h, one, w) PROVE FALSE
        BY <1>1, <3>3, <3>7, <4>1 DEF Quiet
      <4> QED BY <1>4, <4>1
    <3>9. /\ Len(Between(h, u + 1, w)) \in Nat
          /\ Len(Between(h, u + 1, v)) = Len(Between(h, u + 1, w)) + first
      BY <1>7, <3>7, <3>8
    <3>10. Len(Between(h, u + 1, w)) = i - 1
      BY <3>4, <3>5, <3>9
    <3> QED BY <3>1, <3>3, <3>7, <3>10
  <2>2. PICK g \in lo + 1 .. w : past = Reverse(Between(h, g, w)) /\ h[g].message
    <3>1. Downwards(past, h, lo, w)
      BY <2>1 DEF Downwards
    <3>2. w \in Nat /\ w <= Len(h)
      BY <1>2
    <3> QED BY <1>10, <3>1, <3>2, PageBackwards
  <2>3. g \in lo + 1 .. start /\ g < start
    BY <1>2, <2>2
  <2> QED BY <1>1, <1>10, <2>2, <2>3 DEF IsPage
<1> QED BY <1>9, <1>10

\* There is a last row, if any.
LEMMA LastIdIs ==
  ASSUME NEW d, IsRows(d.events[room]), d.events[room] # {}
  PROVE  /\ LastId(d, room) \in Int
         /\ \A row \in d.events[room] : row.sorted_id <= LastId(d, room)
         /\ \E row \in d.events[room] : row.sorted_id = LastId(d, room)
<1>1. PICK rows : rows = d.events[room]
  OBVIOUS
<1>2. PICK ids : ids = {row.sorted_id : row \in rows}
  OBVIOUS
<1>3. IsRows(rows) /\ IsFiniteSet(rows) /\ rows # {}
  BY <1>1 DEF IsRows
<1>4. ids \in SUBSET Int /\ ids # {} /\ IsFiniteSet(ids)
  <2>1. PICK f : f = [row \in rows |-> row.sorted_id]
    OBVIOUS
  <2>2. f \in Surjection(rows, ids)
    BY <1>2, <2>1 DEF Surjection
  <2>3. IsFiniteSet(ids)
    BY <1>3, <2>2, FS_Surjection
  <2> QED BY <1>2, <1>3, <2>3 DEF IsRows
<1>5. LastId(d, room) = Max(ids)
  BY <1>1, <1>2 DEF LastId
<1>6. Max(ids) \in ids /\ \A y \in ids : Max(ids) >= y
  BY <1>4, Extremes
<1>7. PICK m : m = Max(ids)
  OBVIOUS
<1>8. m \in ids /\ m \in Int /\ \A y \in ids : y \in Int /\ y <= m
  BY <1>4, <1>6, <1>7
<1> QED BY <1>1, <1>2, <1>5, <1>7, <1>8

\* A page of the rows up to one of them
LEMMA PageOf ==
  ASSUME NEW h, IsHistory(h), NEW d, IsRows(d.events[room]), NEW lo \in Nat, NEW hi \in Nat,
         lo <= hi, hi <= Len(h), Piece(d.events[room], h, lo, hi), NEW v \in lo .. hi,
         NEW sorted \in Int, NEW skip \in BOOLEAN,
         \A row \in d.events[room] :
           row.event.uid # NULL => (row.sorted_id <= sorted <=> row.event.uid <= v),
         NEW start \in lo + 1 .. v + 1,
         IF skip THEN start = v /\ (h[v].message \/ Quiet(h, lo + 1, start - 1))
         ELSE start = v + 1,
         NEW past, past = PastEvents(d, room, sorted, skip)
  PROVE  IsPage(past, h, lo, start)
<1>1. PICK older, first, size :
        /\ older = OlderMessages(d.events[room], sorted)
        /\ first = IF skip THEN 1 ELSE 0
        /\ size = IF Cardinality(older) <= PageSize THEN Cardinality(older) ELSE PageSize
  OBVIOUS
<1>2. /\ IsRows(older) /\ Cardinality(older) \in Nat /\ past \in Seq(Plain)
      /\ Len(past) = IF first <= size THEN size - first ELSE 0
  BY <1>1, PastEventsAre
<1>7. Descends(past, older, first)
  <2>1. ASSUME NEW i \in 1 .. Len(past)
        PROVE  \E row \in older : past[i] = row.event
                                 /\ Cardinality(Newer(older, row)) = first + i - 1
    BY <1>1, <2>1, PastEventsAre
  <2> QED BY <2>1 DEF Descends
<1>3. IsFiniteSet(older)
  BY <1>2 DEF IsRows
<1>4. Heard(older, h, lo, v)
  BY <1>1, <1>3, HeardIs
<1>5. first \in {0, 1} /\ v \in Nat /\ v <= Len(h)
  BY <1>1, Places
<1>6. IF first = 0 THEN start = v + 1
      ELSE start = v /\ (h[v].message \/ Quiet(h, lo + 1, start - 1))
  BY <1>1
<1> QED BY <1>1, <1>2, <1>4, <1>5, <1>6, <1>7, PageHeard

\* What the database answers
LEMMA PageIs ==
  ASSUME NEW h, IsHistory(h), NEW d, IsRows(d.events[room]), d.account, NoRoom(d),
         NEW lo \in Nat, NEW hi \in Nat, lo <= hi, hi <= Len(h), Piece(d.events[room], h, lo, hi),
         NEW start \in lo + 1 .. hi + 1, NEW from, AsksFor(from, start, hi),
         from # NULL => h[start].message \/ Quiet(h, lo + 1, start - 1),
         NEW past, past = GetPastEvents(d, room, from).result
  PROVE  IsPage(past, h, lo, start)
<1>1. PICK rows : rows = d.events[room]
  OBVIOUS
<1>2. IsRows(rows) /\ Piece(rows, h, lo, hi) /\ (room \notin d.rooms => rows = {})
      /\ start \in Nat /\ Len(h) \in Nat
  BY <1>1, Places DEF NoRoom
<1>3. \A r : Done(d, r).result = r
  BY DEF Done
<1>4. CASE rows = {}
  <2>1. past = <<>>
    BY <1>1, <1>3, <1>4 DEF GetPastEvents
  <2>2. hi = lo
    <3>1. ASSUME hi > lo PROVE FALSE
      <4>1. hi \in lo + 1 .. hi
        BY <3>1
      <4> QED BY <1>2, <1>4, <4>1 DEF Piece
    <3> QED BY <3>1
  <2>3. start = lo + 1
    BY <2>2
  <2>4. Quiet(h, lo + 1, start - 1) /\ start > lo /\ start - 1 <= Len(h)
    <3>1. \A i \in lo + 1 .. start - 1 : FALSE
      BY <2>3
    <3> QED BY <1>2, <2>2, <2>3, <3>1 DEF Quiet
  <2> QED BY <1>2, <2>1, <2>4, NoPage
<1>5. CASE rows # {} /\ from = NULL
  <2>1. /\ LastId(d, room) \in Int
        /\ \A row \in rows : row.sorted_id <= LastId(d, room)
        /\ \E row \in rows : row.sorted_id = LastId(d, room)
    BY <1>1, <1>2, <1>5, LastIdIs
  <2>2. PICK sorted, skip, last : /\ sorted = LastId(d, room) /\ skip = FALSE
                                  /\ last = {x \in rows : x.sorted_id = LastId(d, room)}
    OBVIOUS
  <2>3. last # {} /\ \A x \in last : x.sorted_id = sorted
    BY <2>1, <2>2
  <2>4. GetPastEvents(d, room, from)
          = Done(d, PastEvents(d, room, (CHOOSE x \in last : TRUE).sorted_id, skip))
    BY <1>1, <1>2, <1>5, <2>2, <2>3 DEF GetPastEvents
  <2>5. (CHOOSE x \in last : TRUE).sorted_id = sorted
    BY <2>3
  <2>6. past = PastEvents(d, room, sorted, skip)
    BY <1>3, <2>4, <2>5
  <2>7. \A row \in rows : row.event.uid # NULL => (row.sorted_id <= sorted <=> row.event.uid <= hi)
    BY <1>2, <2>1, <2>2 DEF Piece
  <2>8. start = hi + 1 /\ hi \in lo .. hi /\ sorted \in Int /\ skip \in BOOLEAN
    <3>1. start = hi + 1
      BY <1>5 DEF AsksFor
    <3>2. hi \in lo .. hi
      OBVIOUS
    <3>3. sorted \in Int
      BY <2>1, <2>2
    <3>4. skip \in BOOLEAN
      BY <2>2
    <3> QED BY <3>1, <3>2, <3>3, <3>4
  <2> QED BY <1>1, <2>2, <2>6, <2>7, <2>8, PageOf
<1>6. CASE rows # {} /\ from # NULL
  <2>1. from = start /\ start <= hi /\ start \in lo + 1 .. hi
    BY <1>6 DEF AsksFor
  <2>2. PICK skip, of : skip = TRUE /\ of = RowsOf(d, room, from)
    OBVIOUS
  <2>3. PICK row \in rows : row.event.uid = start
    BY <1>2, <2>1 DEF Piece
  <2>4. row \in of /\ \A x \in of : x \in rows /\ x.event.uid = start
    BY <1>1, <1>6, <2>1, <2>2, <2>3 DEF RowsOf
  <2>5. PICK y : y = CHOOSE x \in of : TRUE
    OBVIOUS
  <2>6. y \in rows /\ y.event.uid = start
    BY <2>4, <2>5
  <2>7. PICK sorted : sorted = y.sorted_id
    OBVIOUS
  <2>8. sorted \in Int
    BY <1>2, <2>6, <2>7 DEF IsRows
  <2>9. past = PastEvents(d, room, sorted, skip)
    <3>1. GetPastEvents(d, room, from) = Done(d, PastEvents(d, room, y.sorted_id, skip))
      BY <1>1, <1>2, <1>6, <2>2, <2>4, <2>5 DEF GetPastEvents
    <3> QED BY <1>3, <2>7, <3>1
  <2>10. start # NULL
    BY <1>2, <2>1, Places
  <2>11. ASSUME NEW x \in rows, x.event.uid # NULL
         PROVE  x.sorted_id <= sorted <=> x.event.uid <= start
    <3>1. y.event.uid < x.event.uid <=> y.sorted_id < x.sorted_id
      BY <1>2, <2>6, <2>10, <2>11 DEF Piece
    <3>2. x.event.uid \in lo + 1 .. hi /\ x.sorted_id \in Int
      BY <1>2, <2>11 DEF Piece, IsRows
    <3> QED BY <2>6, <2>7, <2>8, <3>1, <3>2
  <2>12. start \in lo .. hi /\ start \in lo + 1 .. start + 1 /\ skip \in BOOLEAN
    BY <2>1, <2>2
  <2>13. start = start /\ (h[start].message \/ Quiet(h, lo + 1, start - 1))
    BY <1>6
  <2>14. \A x \in rows : x.event.uid # NULL => (x.sorted_id <= sorted <=> x.event.uid <= start)
    BY <2>11
  <2> QED BY <1>1, <2>2, <2>8, <2>9, <2>12, <2>13, <2>14, PageOf
<1> QED BY <1>4, <1>5, <1>6

-----------------------------------------------------------------------------
(* Steps that leave the list as it is.                                     *)

\* Nothing is after the last.
LEMMA NoneAfter ==
  ASSUME NEW n \in Nat
  PROVE  \A j : j \in 1 .. n \/ j = n + 1 => ~(j > n + 1)
OBVIOUS

\* A task behind the others: nothing is stored after what it asks for.
LEMMA AskedPut ==
  ASSUME NEW p, NEW q, NEW t, Longer(p, q, t), t.then # "next sync", NEW list, NEW listed,
         listed = <<>> => list = <<>>, NEW since, NEW start, Asked(q, list, since, start),
         t.then = "past" => AsksFor(t.from, start, since)
  PROVE  Asked(p, listed, since, start)
<1>1. /\ Len(q) \in Nat /\ DOMAIN q = 1 .. Len(q)
      /\ \A i \in DOMAIN p : (i \in DOMAIN q /\ p[i] = q[i]) \/ (i = Len(q) + 1 /\ p[i] = t)
      /\ \A i \in DOMAIN q : i \in DOMAIN p /\ p[i] = q[i]
  BY LongerIs
<1>2. listed = <<>> => "next sync" \notin Thens(p)
  BY <1>1 DEF Asked, Thens
<1>3. ASSUME NEW i \in DOMAIN p, p[i].then = "past"
      PROVE  /\ (\A j \in DOMAIN p : j > i => p[j].then # "next sync")
                  => AsksFor(p[i].from, start, since)
             /\ \A j \in DOMAIN p : j > i /\ p[j].then = "next sync" =>
                  AsksFor(p[i].from, start, since - Len(p[j].events))
  <2>1. CASE i \in DOMAIN q /\ p[i] = q[i]
    <3>1. (\A j \in DOMAIN p : j > i => p[j].then # "next sync")
            => \A j \in DOMAIN q : j > i => q[j].then # "next sync"
      BY <1>1
    <3>2. /\ (\A j \in DOMAIN q : j > i => q[j].then # "next sync")
               => AsksFor(q[i].from, start, since)
          /\ \A j \in DOMAIN q : j > i /\ q[j].then = "next sync" =>
               AsksFor(q[i].from, start, since - Len(q[j].events))
      BY <1>3, <2>1 DEF Asked
    <3>3. \A j \in DOMAIN p : p[j].then = "next sync" => j \in DOMAIN q /\ q[j] = p[j]
      BY <1>1
    <3> QED BY <2>1, <3>1, <3>2, <3>3
  <2>2. CASE i = Len(q) + 1 /\ p[i] = t
    <3>1. PICK n : n = Len(q)
      OBVIOUS
    <3>2. n \in Nat /\ \A j \in DOMAIN p : j \in 1 .. n \/ j = n + 1
      BY <1>1, <3>1
    <3>3. ASSUME NEW j \in DOMAIN p PROVE ~(j > i)
      <4>1. i = n + 1
        BY <2>2, <3>1
      <4>2. j \in 1 .. n \/ j = n + 1
        BY <3>2
      <4>3. n \in Nat
        BY <3>2
      <4> QED BY <4>1, <4>2, <4>3, NoneAfter, Zenon
    <3> QED BY <1>3, <2>2, <3>3
  <2> QED BY <1>1, <2>1, <2>2
<1> QED BY <1>2, <1>3 DEF Asked

\* What is asked for when another task has been taken
LEMMA AskedTaken ==
  ASSUME NEW r, NEW q, Later(r, q), NEW list, NEW since, NEW start, Asked(q, list, since, start)
  PROVE  Asked(r, list, since, start)
<1>1. /\ DOMAIN q = 1 .. Len(q) /\ Len(q) \in Nat
      /\ \A i \in DOMAIN r : i \in Nat /\ i + 1 \in DOMAIN q /\ r[i] = q[i + 1]
      /\ \A i \in DOMAIN q : i = 1 \/ (i - 1 \in DOMAIN r /\ r[i - 1] = q[i])
  BY LaterIs
<1>2. list = <<>> => "next sync" \notin Thens(r)
  BY <1>1 DEF Asked, Thens
<1>3. ASSUME NEW i \in DOMAIN r, r[i].then = "past"
      PROVE  /\ (\A j \in DOMAIN r : j > i => r[j].then # "next sync")
                  => AsksFor(r[i].from, start, since)
             /\ \A j \in DOMAIN r : j > i /\ r[j].then = "next sync" =>
                  AsksFor(r[i].from, start, since - Len(r[j].events))
  <2>1. PICK k : k = i + 1
    OBVIOUS
  <2>2. k \in DOMAIN q /\ r[i] = q[k] /\ i \in Nat
    BY <1>1, <2>1
  <2>3. /\ (\A j \in DOMAIN q : j > k => q[j].then # "next sync")
             => AsksFor(q[k].from, start, since)
        /\ \A j \in DOMAIN q : j > k /\ q[j].then = "next sync" =>
             AsksFor(q[k].from, start, since - Len(q[j].events))
    BY <1>3, <2>2 DEF Asked
  <2>4. ASSUME \A j \in DOMAIN r : j > i => r[j].then # "next sync", NEW j \in DOMAIN q, j > k
        PROVE  q[j].then # "next sync"
    <3>1. PICK n : n = j - 1
      OBVIOUS
    <3>2. j \in Nat /\ j # 1
      <4>1. j \in 1 .. Len(q) /\ k \in 1 .. Len(q)
        BY <1>1, <2>2
      <4>2. j > k
        BY <2>4
      <4>3. Len(q) \in Nat
        BY <1>1
      <4> QED BY <4>1, <4>2, <4>3
    <3>3. j = 1 \/ (j - 1 \in DOMAIN r /\ r[j - 1] = q[j])
      BY <1>1
    <3>4. n \in DOMAIN r /\ r[n] = q[j]
      BY <3>1, <3>2, <3>3
    <3>5. n > i
      <4>1. i \in Nat /\ j \in Nat
        BY <2>2, <3>2
      <4>2. j > k
        BY <2>4
      <4> QED BY <2>1, <3>1, <4>1, <4>2
    <3> QED BY <2>4, <3>4, <3>5
  <2>5. ASSUME NEW j \in DOMAIN r, j > i, r[j].then = "next sync"
        PROVE  AsksFor(r[i].from, start, since - Len(r[j].events))
    <3>1. PICK n : n = j + 1
      OBVIOUS
    <3>2. n \in DOMAIN q /\ r[j] = q[n] /\ j \in Nat
      BY <1>1, <3>1
    <3>3. n > k
      <4>1. i \in Nat /\ j \in Nat
        BY <2>2, <3>2
      <4>2. j > i
        BY <2>5
      <4> QED BY <2>1, <3>1, <4>1, <4>2
    <3> QED BY <2>2, <2>3, <2>5, <3>2, <3>3
  <2> QED BY <2>2, <2>3, <2>4, <2>5
<1> QED BY <1>2, <1>3 DEF Asked

\* What is asked for goes on; what has been answered is the same.
LEMMA HeldListed ==
  ASSUME NEW start, Listed(start), Held, shown'.list = shown.list, Fewer(done', done),
         shown'.loading = "server" => shown.loading = "server",
         Asked(queue', shown.list, client.since, start)
  PROVE  Listed(start)'
<1>1. Whole(shown.list, history, Place(shown.prev_batch), client.since, start)'
  BY DEF Listed, Held
<1>2. Asked(queue, shown.list, client.since, start)'
  BY DEF Held
<1>3. Answered(done', history, Place(shown.prev_batch), start, shown'.loading)
  BY DEF Listed, Answered, Fewer
<1>4. Answered(done, history, Place(shown.prev_batch), start, shown.loading)'
  BY <1>3 DEF Held
<1>5. NoRoom(db')
  BY DEF Listed, Held
<1> QED BY <1>1, <1>2, <1>4, <1>5 DEF Listed

\* A task that asks for nothing is put into the queue, or none.
LEMMA PutListed ==
  ASSUME TypeInv, NEW start, Listed(start), Held, shown'.list = shown.list, Fewer(done', done),
         shown'.loading = "server" => shown.loading = "server", NEW t \in Task(history),
         t.then \notin {"next sync", "past"}, queue' = queue \/ queue' = Append(queue, t)
  PROVE  Listed(start)'
<1>1. Asked(queue, shown.list, client.since, start)
  BY DEF Listed
<1>2. CASE queue' = queue
  BY <1>1, <1>2, HeldListed
<1>3. CASE queue' = Append(queue, t)
  <2>1. PICK p : p = Append(queue, t)
    OBVIOUS
  <2>2. Longer(p, queue, t)
    BY <2>1, PutIs DEF TypeInv
  <2>3. Asked(p, shown.list, client.since, start)
    <3>1. PICK list, since : list = shown.list /\ since = client.since
      OBVIOUS
    <3> QED BY <1>1, <2>2, <3>1, AskedPut
  <2> QED BY <1>3, <2>1, <2>3, HeldListed
<1> QED BY <1>2, <1>3

\* The steps that put no task
LEMMA QuietListed ==
  ASSUME TypeInv, NEW start, Listed(start),
         \/ \E found \in BOOLEAN : RoomListed(found)
         \/ LoadFailed \/ NextSync \/ HistoryStored
         \/ \E x \in Txn : StartSending(x) \/ SendFailed(x)
  PROVE  Listed(start)'
<1>1. DOMAIN shown = DOMAIN NewRoom /\ {"since", "saving", "sync"} \subseteq DOMAIN client
  BY DEF TypeInv, IsShown, IsClient, NewRoom
<1>2. ASSUME Held, queue' = queue, shown'.list = shown.list, Fewer(done', done),
             shown'.loading = "server" => shown.loading = "server"
      PROVE  Listed(start)'
  <2>1. Asked(queue', shown.list, client.since, start)
    BY <1>2 DEF Listed
  <2> QED BY <1>2, <2>1, HeldListed
<1>3. Fewer(done, done) /\ (done # <<>> => Fewer(Tail(done), done))
  BY FewerLeft DEF TypeInv
<1>4. ASSUME NEW found \in BOOLEAN, RoomListed(found) PROVE Listed(start)'
  <2>1. /\ Held /\ done' = done /\ shown'.list = shown.list /\ queue' = queue
        /\ shown'.loading = "server" => shown.loading = "server"
    BY <1>1, <1>4 DEF RoomListed, Held, NewRoom
  <2> QED BY <1>2, <1>3, <2>1
<1>5. ASSUME LoadFailed PROVE Listed(start)'
  <2>1. /\ Held /\ done' = done /\ shown'.list = shown.list /\ queue' = queue
        /\ shown'.loading # "server"
    BY <1>1, <1>5 DEF LoadFailed, Held, NewRoom
  <2> QED BY <1>2, <1>3, <2>1
<1>6. ASSUME NextSync PROVE Listed(start)'
  <2>1. Held /\ done # <<>> /\ done' = Tail(done) /\ shown' = shown /\ queue' = queue
    BY <1>1, <1>6 DEF NextSync, Follows, Held
  <2> QED BY <1>2, <1>3, <2>1
<1>7. ASSUME HistoryStored PROVE Listed(start)'
  <2>1. /\ Held /\ done # <<>> /\ done' = Tail(done) /\ queue' = queue
        /\ shown'.list = shown.list /\ shown'.loading # "server"
    BY <1>1, <1>7 DEF HistoryStored, Follows, Held, NewRoom
  <2> QED BY <1>2, <1>3, <2>1
<1>8. ASSUME NEW x \in Txn, StartSending(x) PROVE Listed(start)'
  <2>1. Held /\ done # <<>> /\ done' = Tail(done) /\ shown' = shown /\ queue' = queue
    BY <1>8 DEF StartSending, Follows, Held
  <2> QED BY <1>2, <1>3, <2>1
<1>9. ASSUME NEW x \in Txn, SendFailed(x) PROVE Listed(start)'
  <2>1. Held /\ done' = done /\ shown' = shown /\ queue' = queue
    BY <1>9 DEF SendFailed, Held
  <2> QED BY <1>2, <1>3, <2>1
<1> QED BY <1>4, <1>5, <1>6, <1>7, <1>8, <1>9

\* The steps that save the client or store a message again
LEMMA SavedListed ==
  ASSUME TypeInv, NEW start, Listed(start),
         SyncEmpty \/ ClientSaved \/ \E x \in Txn : Sent(x)
  PROVE  Listed(start)'
<1>1. {"since", "saving", "empty"} \subseteq DOMAIN client /\ client.since \in 0 .. Len(history)
  BY DEF TypeInv, IsClient
<1>2. Fewer(done, done) /\ (done # <<>> => Fewer(Tail(done), done))
  BY FewerLeft DEF TypeInv
<1>3. PICK t : t = SavingClient(client.since)
  OBVIOUS
<1>4. t \in Task(history) /\ t.then \notin {"next sync", "past"}
  BY <1>1, <1>3, TasksAre DEF SavingClient
<1>5. CASE SyncEmpty
  <2>1. Held /\ done' = done /\ shown' = shown
    BY <1>1, <1>5 DEF SyncEmpty, Held
  <2>2. queue' = queue \/ queue' = Append(queue, t)
    BY <1>3, <1>5 DEF SyncEmpty
  <2> QED BY <1>2, <1>4, <2>1, <2>2, PutListed
<1>6. CASE ClientSaved
  <2>1. Held /\ done' = Tail(done) /\ done # <<>> /\ shown' = shown
    BY <1>1, <1>6 DEF ClientSaved, Follows, Held
  <2>2. queue' = queue \/ queue' = Append(queue, t)
    BY <1>3, <1>6 DEF ClientSaved
  <2> QED BY <1>2, <1>4, <2>1, <2>2, PutListed
<1>7. CASE \E x \in Txn : Sent(x)
  <2>1. PICK x \in Txn : Sent(x)
    BY <1>7
  <2>2. PICK u : u = Adding(<<Echo(x)>>, FALSE, "set id")
    OBVIOUS
  <2>3. Held /\ done' = done /\ shown' = shown /\ queue' = Append(queue, u)
    BY <2>1, <2>2 DEF Sent, Held
  <2>4. u \in Task(history) /\ u.then \notin {"next sync", "past"}
    <3>1. message[x] = "accepted" /\ x \in Txns(history)
      BY <2>1 DEF Sent, TypeInv, Sending
    <3>2. PICK then : then = "set id"
      OBVIOUS
    <3> QED BY <2>2, <3>1, <3>2, EchoTask
  <2> QED BY <1>2, <2>3, <2>4, PutListed
<1> QED BY <1>5, <1>6, <1>7

\* What is before the list is asked for.
LEMMA OldestAsked ==
  ASSUME NEW list, NEW h, IsHistory(h), NEW prev \in Nat, NEW since \in Nat, since <= Len(h),
         NEW start, Whole(list, h, prev, since, start)
  PROVE  AsksFor(Oldest(list), start, since)
<1>1. CASE list = <<>>
  BY <1>1 DEF Whole, Oldest, AsksFor
<1>2. CASE list # <<>>
  <2>1. start \in prev + 1 .. since + 1 /\ start <= since /\ list[1] = h[start]
    BY <1>2 DEF Whole
  <2>2. start \in 1 .. Len(h)
    BY <2>1, Places
  <2>3. h[start].uid = start /\ start # NULL
    BY <2>2, Places
  <2>4. Oldest(list) = start
    BY <1>2, <2>1, <2>3 DEF Oldest
  <2> QED BY <2>1, <2>3, <2>4 DEF AsksFor
<1> QED BY <1>1, <1>2

\* Past events are asked for, at once or when the state is there.
LEMMA AskingListed ==
  ASSUME TypeInv, NEW lo \in Nat, NEW hi \in Nat, Stored(lo, hi), NEW start, Listed(start),
         LoadPast \/ StateLoaded
  PROVE  Listed(start)'
<1>1. {"list", "loading", "from", "prev_batch", "synced"} \subseteq DOMAIN shown
  BY DEF TypeInv, IsShown
<1>2. PICK t, u, p : /\ t = SavingRoom(shown.prev_batch) /\ u = GettingPast(Oldest(shown.list))
                     /\ p = Append(queue, t)
  OBVIOUS
<1>3. t \in Task(history) /\ t.then = "nothing"
  <2>1. shown.prev_batch \in Tokens(history)
    BY DEF TypeInv, IsShown
  <2> QED BY <1>2, <2>1, TasksAre DEF SavingRoom
<1>4. u \in Task(history) /\ u.then = "past" /\ u.from = Oldest(shown.list)
  <2>1. shown.list \in Seq(Plain)
    BY DEF TypeInv, IsShown
  <2>2. Oldest(shown.list) \in Uid \cup {NULL}
    BY <2>1, OldestIs
  <2> QED BY <1>2, <2>2, TasksAre DEF GettingPast
<1>5. PICK list, since : list = shown.list /\ since = client.since
  OBVIOUS
<1>6. AsksFor(u.from, start, since)
  <2>1. PICK prev : prev = Place(shown.prev_batch)
    OBVIOUS
  <2>2. prev \in Nat /\ since \in Nat /\ since <= Len(history) /\ IsHistory(history)
    BY <1>5, <2>1, Bounds
  <2>3. Whole(list, history, prev, since, start)
    BY <1>5, <2>1 DEF Listed
  <2> QED BY <1>4, <1>5, <2>2, <2>3, OldestAsked
<1>7. ASSUME NEW q, IsQueue(q, history), Asked(q, list, since, start), NEW r, r = Append(q, u)
      PROVE  Asked(r, list, since, start)
  <2>1. Longer(r, q, u)
    BY <1>4, <1>7, PutIs
  <2> QED BY <1>4, <1>6, <1>7, <2>1, AskedPut
<1>8. Asked(queue, list, since, start) /\ IsQueue(queue, history)
  BY <1>5 DEF Listed, TypeInv
<1>9. Asked(p, list, since, start) /\ IsQueue(p, history)
  <2>1. IsQueue(p, history) /\ Longer(p, queue, t)
    BY <1>2, <1>3, <1>8, PutIs
  <2> QED BY <1>3, <1>8, <2>1, AskedPut
<1>10. Fewer(done, done)
  BY FewerLeft
<1>11. CASE LoadPast
  <2>1. /\ history' = history /\ db' = db /\ client' = client /\ done' = done
        /\ \/ queue' = queue /\ shown' = [shown EXCEPT !.loading = "state"]
           \/ /\ queue' = Append(queue, u)
              /\ shown' = [shown EXCEPT !.loading = "db"]
    BY <1>2, <1>11 DEF LoadPast
  <2>2. Held /\ shown'.list = shown.list /\ shown'.loading # "server"
    BY <1>1, <2>1 DEF Held
  <2>3. Asked(queue', shown.list, client.since, start)
    BY <1>5, <1>7, <1>8, <2>1
  <2> QED BY <1>10, <2>1, <2>2, <2>3, HeldListed
<1>12. CASE StateLoaded
  <2>1. queue' = p \/ queue' = Append(p, u)
    <3>1. queue' = p \o (IF shown.loading = "state" THEN <<u>> ELSE <<>>)
      BY <1>2, <1>12 DEF StateLoaded
    <3>2. p \in Seq(Task(history))
      BY <1>9 DEF IsQueue
    <3>3. p \o <<u>> = Append(p, u) /\ p \o <<>> = p
      BY <1>4, <3>2, JoinIs
    <3> QED BY <3>1, <3>3
  <2>2. PICK loading : loading = (IF shown.loading = "state" THEN "db" ELSE "no")
    OBVIOUS
  <2>3. shown' = [shown EXCEPT !.synced = TRUE, !.loading = loading]
    BY <1>1, <1>12, <2>2 DEF StateLoaded
  <2>4. Held /\ shown'.list = shown.list /\ shown'.loading # "server" /\ done' = done
    BY <1>1, <1>12, <2>2, <2>3 DEF Held, StateLoaded
  <2>5. Asked(queue', shown.list, client.since, start)
    BY <1>5, <1>7, <1>9, <2>1
  <2> QED BY <1>10, <2>4, <2>5, HeldListed
<1> QED BY <1>11, <1>12

-----------------------------------------------------------------------------
(* Steps that change an element of the list, or the history behind it.     *)

\* Lists that are alike but for what is no message have the same messages.
LEMMA MessagesAlike ==
  ASSUME NEW s \in Seq(Plain), NEW t \in Seq(Plain), Len(s) = Len(t),
         \A i \in 1 .. Len(s) : s[i] = t[i] \/ (~s[i].message /\ ~t[i].message)
  PROVE  Messages(s) = Messages(t)
<1>1. PICK set, n : set = {e \in Event : e.message} /\ n = Len(s)
  OBVIOUS
<1>2. n \in Nat /\ Len(t) = n /\ Len(t) \in Nat
  BY <1>1
<1>3. PICK f : IsPicked(f, s, set, n) /\ Picked(s, set) = f[n]
  BY <1>1, <1>2, PickedIs
<1>4. PICK g : IsPicked(g, t, set, n) /\ Picked(t, set) = g[n]
  BY <1>2, PickedIs
<1>5. \A i \in 1 .. n : /\ s[i] \in set <=> s[i].message
                        /\ t[i] \in set <=> t[i].message
  BY <1>1, <1>2 DEF Plain
<1>6. PICK T : T = {k \in Nat : k <= n => f[k] = g[k]}
  OBVIOUS
<1>7. 0 \in T
  <2>1. f[0] = <<>> /\ g[0] = <<>>
    BY <1>2, <1>3, <1>4 DEF IsPicked, PickedNext
  <2> QED BY <1>6, <2>1
<1>8. ASSUME NEW k \in Nat, k \in T PROVE k + 1 \in T
  <2>1. ASSUME k + 1 <= n PROVE f[k + 1] = g[k + 1]
    <3>1. PICK m : m = k + 1
      OBVIOUS
    <3>2. m \in 0 .. n /\ m # 0 /\ m \in 1 .. n /\ m - 1 = k
      BY <1>2, <2>1, <3>1
    <3>3. f[m] = PickedNext(f, s, set, m) /\ g[m] = PickedNext(g, t, set, m)
      BY <1>3, <1>4, <3>2 DEF IsPicked
    <3>4. f[k] = g[k]
      BY <1>2, <1>6, <1>8, <2>1
    <3>5. /\ f[m] = IF s[m] \in set THEN Append(f[k], s[m]) ELSE f[k]
          /\ g[m] = IF t[m] \in set THEN Append(g[k], t[m]) ELSE g[k]
      BY <3>2, <3>3 DEF PickedNext
    <3>6. s[m] = t[m] \/ (s[m] \notin set /\ t[m] \notin set)
      BY <1>1, <1>5, <3>2
    <3> QED BY <3>1, <3>4, <3>5, <3>6
  <2> QED BY <1>6, <2>1
<1>9. \A k \in Nat : k \in T
  BY <1>7, <1>8, Induction
<1>10. f[n] = g[n]
  BY <1>2, <1>6, <1>9
<1> QED BY <1>1, <1>3, <1>4, <1>10 DEF Messages

\* An echo is put behind the list.
LEMMA WholeAppended ==
  ASSUME NEW h, IsHistory(h), NEW list \in Seq(Plain), list # <<>>, NEW prev, NEW since, NEW start,
         Whole(list, h, prev, since, start), NEW e \in Plain, IsEcho(e, h, since)
  PROVE  Whole(Append(list, e), h, prev, since, start)
<1>1. PICK listed, x : listed = Append(list, e) /\ x = <<e>>
  OBVIOUS
<1>2. Longer(listed, list, e)
  BY <1>1 DEF Longer
<1>3. /\ \A i \in DOMAIN listed : (i \in DOMAIN list /\ listed[i] = list[i])
                                 \/ (i = Len(list) + 1 /\ listed[i] = e)
      /\ \A i \in DOMAIN list : i \in DOMAIN listed /\ listed[i] = list[i]
      /\ Len(list) + 1 \in DOMAIN listed
  BY <1>2, LongerIs
<1>4. 1 \in DOMAIN list
  OBVIOUS
<1>5. listed # <<>> /\ listed[1] = list[1]
  BY <1>3, <1>4
<1>6. Messages(listed) = Messages(list)
  <2>1. list \o x = listed
    BY <1>1, JoinIs
  <2>2. x \in Seq(Plain) /\ DOMAIN x = {1} /\ x[1] = e
    BY <1>1
  <2>3. Messages(list \o x) = Messages(list) \o Messages(x) /\ Messages(list) \in Seq(Plain)
    BY <2>2, MessagesConcat
  <2>4. Messages(x) = <<>>
    BY <2>2, MessagesAll DEF IsEcho
  <2>5. Messages(list) \o <<>> = Messages(list)
    BY <2>3
  <2> QED BY <2>1, <2>3, <2>4, <2>5
<1>7. \A i \in DOMAIN listed : \/ IsSynced(listed[i], h, start - 1, since)
                               \/ IsEcho(listed[i], h, since)
  BY <1>3 DEF Whole
<1> QED BY <1>1, <1>5, <1>6, <1>7 DEF Whole

\* An echo gets the ID of its message.
LEMMA WholeNamed ==
  ASSUME NEW h, IsHistory(h), NEW list \in Seq(Plain), NEW prev \in Nat, NEW since \in Nat,
         since <= Len(h), NEW start, Whole(list, h, prev, since, start), NEW x \in Txn,
         NEW uid \in Uid, uid \in DOMAIN h, h[uid].txn = x
  PROVE  Whole(WithId(list, x, uid), h, prev, since, start)
<1>1. PICK listed, o : listed = WithId(list, x, uid) /\ o = [Echo(x) EXCEPT !.uid = uid]
  OBVIOUS
<1>2. /\ listed \in Seq(Plain) /\ Len(listed) = Len(list) /\ o \in Plain
      /\ \A i \in 1 .. Len(list) : listed[i] = IF list[i] = Echo(x) THEN o ELSE list[i]
  BY <1>1, WithIdTyped
<1>3. /\ Echo(x).uid = NULL /\ Echo(x).txn = x /\ ~Echo(x).message
      /\ o.uid = uid /\ o.txn = x /\ ~o.message
  <2>1. Echo(x).uid = NULL /\ Echo(x).txn = x /\ ~Echo(x).message
    BY EchoIs
  <2> QED BY <1>1, <2>1 DEF Echo, Posted
<1>4. start \in prev + 1 .. since + 1 /\ start \in Nat /\ start > 0 /\ Len(h) \in Nat
  BY Places DEF Whole
<1>5. \A e : IsSynced(e, h, start - 1, since) => e # Echo(x)
  <2>1. ASSUME NEW e, IsSynced(e, h, start - 1, since) PROVE e # Echo(x)
    <3>1. e.uid \in start - 1 + 1 .. since
      BY <2>1 DEF IsSynced
    <3>2. e.uid \in 1 .. Len(h)
      BY <1>4, <3>1
    <3>3. e.uid # NULL
      BY <3>2, Places
    <3> QED BY <1>3, <3>3
  <2> QED BY <2>1
<1>6. Messages(listed) = Messages(list)
  <2>1. \A i \in 1 .. Len(listed) : listed[i] = list[i] \/ (~listed[i].message /\ ~list[i].message)
    BY <1>2, <1>3
  <2> QED BY <1>2, <2>1, MessagesAlike
<1>7. list # <<>> => listed # <<>> /\ listed[1] = list[1]
  <2>1. ASSUME list # <<>> PROVE listed # <<>> /\ listed[1] = list[1]
    <3>1. 1 \in 1 .. Len(list) /\ Len(listed) > 0
      BY <1>2, <2>1
    <3>2. list[1] = h[start] /\ start \in 1 .. Len(h)
      BY <1>4, <2>1 DEF Whole
    <3>3. list[1].uid # NULL
      BY <3>2, Places
    <3> QED BY <1>2, <1>3, <3>1, <3>3
  <2> QED BY <2>1
<1>8. list = <<>> => listed = <<>>
  BY <1>2
<1>9. ASSUME NEW i \in 1 .. Len(listed)
      PROVE  IsSynced(listed[i], h, start - 1, since) \/ IsEcho(listed[i], h, since)
  <2>1. IsSynced(list[i], h, start - 1, since) \/ IsEcho(list[i], h, since)
    BY <1>2 DEF Whole
  <2>2. CASE list[i] # Echo(x)
    BY <1>2, <2>1, <2>2
  <2>3. CASE list[i] = Echo(x)
    <3>1. IsEcho(Echo(x), h, since)
      BY <1>5, <2>1, <2>3
    <3>2. IsEcho(o, h, since)
      BY <1>3, <3>1 DEF IsEcho
    <3> QED BY <1>2, <2>3, <3>2
  <2> QED BY <2>2, <2>3
<1>10. \A i \in DOMAIN listed :
         IsSynced(listed[i], h, start - 1, since) \/ IsEcho(listed[i], h, since)
  BY <1>2, <1>9
<1> QED BY <1>1, <1>6, <1>7, <1>8, <1>10 DEF Whole

\* The list is whole at the history when that has grown.
LEMMA WholeGrows ==
  ASSUME NEW h, IsHistory(h), NEW e \in Plain, NEW g, g = Append(h, e), Longer(g, h, e),
         NEW prev \in Nat, NEW since \in Nat, since <= Len(h), NEW list \in Seq(Plain), NEW start,
         Whole(list, h, prev, since, start)
  PROVE  Whole(list, g, prev, since, start)
<1>1. /\ \A i \in DOMAIN h : i \in DOMAIN g /\ g[i] = h[i]
      /\ Len(h) \in Nat /\ DOMAIN h = 1 .. Len(h)
  BY LongerIs
<1>2. PICK before : before = start - 1
  OBVIOUS
<1>3. start \in prev + 1 .. since + 1 /\ start \in Nat /\ start > 0 /\ before \in Nat
      /\ before <= since /\ since \in 0 .. Len(h)
  BY <1>1, <1>2 DEF Whole
<1>4. \A i \in prev + 1 .. before : i \in DOMAIN h
  BY <1>1, <1>3
<1>5. start <= since => start \in DOMAIN h
  BY <1>1, <1>3
<1>6. Between(g, start, since) = Between(h, start, since)
  BY <1>3, BetweenGrows
<1>7. \A x : /\ IsSynced(x, h, before, since) => IsSynced(x, g, before, since)
             /\ IsEcho(x, h, since) => IsEcho(x, g, since)
  BY <1>3, ListsGrow
<1>8. \A i \in DOMAIN list : IsSynced(list[i], g, before, since) \/ IsEcho(list[i], g, since)
  BY <1>2, <1>7 DEF Whole
<1>9. Quiet(h, prev + 1, before) => Quiet(g, prev + 1, before)
  BY <1>1, <1>4 DEF Quiet
<1>10. start <= since => g[start] = h[start]
  BY <1>1, <1>5
<1> QED BY <1>2, <1>6, <1>8, <1>9, <1>10 DEF Whole

\* ... and so is what the database has answered.
LEMMA AnsweredGrows ==
  ASSUME NEW h, IsHistory(h), NEW e \in Plain, NEW g, g = Append(h, e), Longer(g, h, e),
         NEW prev \in Nat, NEW start \in Nat, start - 1 <= Len(h), NEW dn, NEW loading,
         Answered(dn, h, prev, start, loading)
  PROVE  Answered(dn, g, prev, start, loading)
<1>1. /\ \A i \in DOMAIN h : i \in DOMAIN g /\ g[i] = h[i]
      /\ Len(h) \in Nat /\ DOMAIN h = 1 .. Len(h)
  BY LongerIs
<1>2. PICK w, one : w = start - 1 /\ one = prev + 1
  OBVIOUS
<1>3. w <= Len(h) /\ w \in Int /\ one \in Nat /\ one > 0
  BY <1>2
<1>4. Quiet(h, one, w) => Quiet(g, one, w)
  <2>1. \A i \in one .. w : i \in DOMAIN h
    BY <1>1, <1>3
  <2> QED BY <1>1, <2>1 DEF Quiet
<1>5. ASSUME NEW past, IsPage(past, h, prev, start) PROVE IsPage(past, g, prev, start)
  <2>1. PICK from \in one .. start :
          /\ past = Reverse(Between(h, from, w))
          /\ IF past = <<>> THEN Quiet(h, one, w) ELSE from < start /\ h[from].message
    BY <1>2, <1>5 DEF IsPage
  <2>2. from \in Nat /\ from > 0 /\ w \in 0 .. Len(h)
    BY <1>2, <1>3, <2>1
  <2>3. Between(g, from, w) = Between(h, from, w)
    BY <2>2, BetweenGrows
  <2>4. from < start => from \in DOMAIN h
    BY <1>1, <1>2, <1>3, <2>2
  <2>5. from < start => g[from] = h[from]
    BY <1>1, <2>4
  <2>6. /\ past = Reverse(Between(g, from, w))
        /\ IF past = <<>> THEN Quiet(g, one, w) ELSE from < start /\ g[from].message
    BY <1>4, <2>1, <2>3, <2>5
  <2> QED BY <1>2, <2>1, <2>6 DEF IsPage
<1> QED BY <1>2, <1>4, <1>5 DEF Answered

\* A message is sent: its echo is behind what is shown.
LEMMA SendListed ==
  ASSUME TypeInv, NEW lo \in Nat, NEW hi \in Nat, Stored(lo, hi), NEW start, Listed(start),
         ~EmptySends, NEW x \in Txn, Send(x)
  PROVE  Listed(start)'
<1>1. PICK t, e, list, listed : /\ t = Adding(<<Echo(x)>>, FALSE, "send") /\ e = Echo(x)
                                /\ list = shown.list /\ listed = Append(list, e)
  OBVIOUS
<1>2. {"list", "loading", "from", "prev_batch"} \subseteq DOMAIN shown
  BY DEF TypeInv, IsShown
<1>3. /\ history' = history /\ client' = client /\ db' = db /\ done' = done
      /\ message[x] = "new" /\ shown' = [shown EXCEPT !.list = listed]
      /\ queue' = Append(queue, t) /\ list # <<>>
  BY <1>1, <1>2 DEF Send
<1>4. shown'.list = listed /\ shown'.loading = shown.loading /\ shown'.prev_batch = shown.prev_batch
  BY <1>2, <1>3
<1>5. x \notin Txns(history)
  BY <1>3 DEF TypeInv, Sending
<1>6. PICK prev, since : prev = Place(shown.prev_batch) /\ since = client.since
  OBVIOUS
<1>7. /\ IsHistory(history) /\ list \in Seq(Plain) /\ since <= Len(history) /\ since \in Nat
      /\ Whole(list, history, prev, since, start)
  <2>1. list \in Seq(Plain)
    BY <1>1 DEF TypeInv, IsShown
  <2> QED BY <1>1, <1>6, <2>1, Bounds DEF Listed
<1>8. e \in Plain /\ e.uid = NULL /\ e.txn = x /\ ~e.message /\ x # NULL
  BY <1>1, EchoIs
<1>9. IsEcho(e, history, since)
  <2>1. \A i \in 1 .. since : i \in DOMAIN history
    BY <1>7, Places
  <2>2. \A i \in DOMAIN history : history[i].txn # x
    BY <1>5, <1>8 DEF Txns
  <2> QED BY <1>8, <2>1, <2>2 DEF IsEcho
<1>10. Whole(listed, history, prev, since, start)
  BY <1>1, <1>3, <1>7, <1>8, <1>9, WholeAppended
<1>11. t \in Task(history) /\ t.then = "send"
  <2>1. PICK then : then = "send"
    OBVIOUS
  <2> QED BY <1>1, <2>1, EchoTask
<1>12. Asked(queue', listed, since, start)
  <2>1. PICK p : p = Append(queue, t)
    OBVIOUS
  <2>2. Longer(p, queue, t)
    BY <1>11, <2>1, PutIs DEF TypeInv
  <2>3. Asked(queue, list, since, start)
    BY <1>1, <1>6 DEF Listed
  <2>4. listed # <<>>
    BY <1>1, <1>7
  <2>5. Asked(p, listed, since, start)
    BY <1>11, <2>2, <2>3, <2>4, AskedPut
  <2> QED BY <1>3, <2>1, <2>5
<1>13. NoRoom(db) /\ Answered(done, history, prev, start, shown.loading)
  BY <1>6 DEF Listed
<1> QED BY <1>3, <1>4, <1>6, <1>10, <1>12, <1>13 DEF Listed

\* The echo of a message gets its ID.
LEMMA SetIdListed ==
  ASSUME TypeInv, NEW lo \in Nat, NEW hi \in Nat, Stored(lo, hi), NEW start, Listed(start),
         NEW x \in Txn, SetId(x)
  PROVE  Listed(start)'
<1>1. PICK e, uid : e = Head(done) /\ uid = UidOf(x)
  OBVIOUS
<1>2. /\ history' = history /\ client' = client /\ db' = db /\ done' = Tail(done)
      /\ done # <<>> /\ e.task.then = "set id" /\ queue' = queue /\ e.task.events[1].txn = x
  BY <1>1 DEF SetId, Follows
<1>3. x \in Txns(history)
  <2>1. Later(Tail(done), done) /\ e = done[1]
    BY <1>1, <1>2, DoneTaken DEF TypeInv
  <2>2. 1 \in DOMAIN done
    BY <2>1 DEF Later
  <2> QED BY <1>2, <2>1, <2>2 DEF TypeInv, Sending
<1>4. uid \in DOMAIN history /\ history[uid].txn = x /\ uid \in Uid
  BY <1>1, <1>3, UidIs DEF TypeInv
<1>5. PICK list, listed : list = shown.list /\ listed = WithId(list, x, uid)
  OBVIOUS
<1>6. shown' = [shown EXCEPT !.list = listed]
  BY <1>1, <1>5 DEF SetId, WithId, TypeInv, IsShown
<1>7. {"list", "loading", "from", "prev_batch"} \subseteq DOMAIN shown
  BY DEF TypeInv, IsShown
<1>8. shown'.list = listed /\ shown'.loading = shown.loading /\ shown'.prev_batch = shown.prev_batch
  BY <1>6, <1>7
<1>9. PICK prev, since : prev = Place(shown.prev_batch) /\ since = client.since
  OBVIOUS
<1>10. /\ IsHistory(history) /\ list \in Seq(Plain) /\ since <= Len(history) /\ since \in Nat
       /\ prev \in Nat /\ Whole(list, history, prev, since, start)
  <2>1. list \in Seq(Plain)
    BY <1>5 DEF TypeInv, IsShown
  <2> QED BY <1>5, <1>9, <2>1, Bounds DEF Listed
<1>11. Whole(listed, history, prev, since, start)
  BY <1>4, <1>5, <1>10, WholeNamed
<1>12. Asked(queue, listed, since, start)
  <2>1. listed = <<>> => list = <<>>
    <3>1. Len(listed) = Len(list)
      BY <1>4, <1>5, <1>10, WithIdTyped
    <3> QED BY <1>10, <3>1
  <2> QED BY <1>5, <1>9, <2>1 DEF Listed, Asked
<1>13. NoRoom(db) /\ Answered(done', history, prev, start, shown.loading)
  <2>1. Fewer(done', done)
    BY <1>2, FewerLeft DEF TypeInv
  <2> QED BY <1>9, <2>1 DEF Listed, Answered, Fewer
<1> QED BY <1>2, <1>8, <1>9, <1>11, <1>12, <1>13 DEF Listed

\* Somebody posts, or the server takes a message.
LEMMA PostListed ==
  ASSUME TypeInv, NEW lo \in Nat, NEW hi \in Nat, Stored(lo, hi), NEW start, Listed(start),
         \/ \E m \in BOOLEAN : Post(m)
         \/ \E x \in Txn : Accept(x)
  PROVE  Listed(start)'
<1>1. IsHistory(history) /\ message \in [Txn -> MessageStates]
  BY DEF TypeInv, Sending
<1>2. PICK e \in Plain : history' = Append(history, e)
  <2>1. PICK x \in Txn \cup {NULL}, u \in User, m \in BOOLEAN :
          Len(history) < MaxEvents /\ history' = Append(history, Posted(Len(history) + 1, x, u, m))
    BY NamesAssumption DEF Post, Accept
  <2>2. PICK e : e = Posted(Len(history) + 1, x, u, m)
    OBVIOUS
  <2>3. e \in Plain
    BY <1>1, <2>1, <2>2, PostedIs
  <2> QED BY <2>1, <2>2, <2>3
<1>3. /\ client' = client /\ shown' = shown /\ db' = db /\ queue' = queue /\ done' = done
  BY DEF Post, Accept
<1>4. PICK h, g : h = history /\ g = history'
  OBVIOUS
<1>5. Longer(g, h, e) /\ g = Append(h, e) /\ h \in Seq(Plain)
  BY <1>1, <1>2, <1>4 DEF Longer, IsHistory
<1>6. PICK prev, since, list : /\ prev = Place(shown.prev_batch) /\ since = client.since
                               /\ list = shown.list
  OBVIOUS
<1>7. /\ IsHistory(h) /\ list \in Seq(Plain) /\ since <= Len(h) /\ since \in Nat
      /\ prev \in Nat /\ Whole(list, h, prev, since, start)
  <2>1. list \in Seq(Plain)
    BY <1>6 DEF TypeInv, IsShown
  <2> QED BY <1>4, <1>6, <2>1, Bounds DEF Listed
<1>8. start \in Nat /\ start - 1 <= Len(h)
  <2>1. start \in prev + 1 .. since + 1 /\ Len(h) \in Nat
    BY <1>7, Places DEF Whole
  <2> QED BY <1>7, <2>1
<1>9. Whole(list, g, prev, since, start)
  BY <1>5, <1>7, WholeGrows
<1>10. Answered(done, g, prev, start, shown.loading)
  <2>1. Answered(done, h, prev, start, shown.loading)
    BY <1>4, <1>6 DEF Listed
  <2>2. PICK loading : loading = shown.loading
    OBVIOUS
  <2> QED BY <1>5, <1>7, <1>8, <2>1, <2>2, AnsweredGrows
<1>11. Asked(queue, list, since, start) /\ NoRoom(db)
  BY <1>6 DEF Listed
<1> QED BY <1>3, <1>4, <1>6, <1>9, <1>10, <1>11 DEF Listed

\* What the database answers is a page: at that time everything that has been loaded
\* is stored, and what has been synced up to what was known to the caller.
LEMMA WorkAnswers ==
  ASSUME TypeInv, NEW lo \in Nat, NEW hi \in Nat, Stored(lo, hi), NEW start \in Nat, Listed(start),
         NEW t, NEW r, NEW run, WorkParts(t, r, run), t.then = "past"
  PROVE  IsPage(run.result, history, Place(shown.prev_batch), start)
<1>1. PICK since, prev, from, past : /\ since = client.since /\ prev = Place(shown.prev_batch)
                                     /\ from = t.from /\ past = run.result
  OBVIOUS
<1>2. /\ lo <= hi /\ hi <= since /\ since \in Nat /\ since <= Len(history) /\ prev \in 0 .. lo
      /\ Piece(db.events[room], history, lo, hi) /\ IsRows(db.events[room]) /\ Len(history) \in Nat
      /\ IsHistory(history)
  BY <1>1, Bounds
<1>3. /\ t = queue[1] /\ 1 \in DOMAIN queue /\ t \in Task(history) /\ Runs(db, t, run)
      /\ DOMAIN queue = 1 .. Len(queue) /\ Len(queue) \in Nat
  <2>1. Later(r, queue)
    BY DEF WorkParts
  <2> QED BY <2>1, LaterIs DEF WorkParts
<1>4. Adds(queue, history, since, prev, lo, hi)
  BY <1>1 DEF Stored, Rest
<1>5. lo = prev
  <2>1. "past" \in Thens(queue)
    BY <1>3 DEF Thens
  <2>2. shown.loading = "db"
    BY <2>1 DEF TypeInv, Flags
  <2>3. "loaded" \notin Thens(queue)
    BY <2>2 DEF TypeInv, Flags
  <2> QED BY <1>4, <2>3 DEF Adds
<1>6. past = GetPastEvents(db, room, from).result
  <2>1. t.op = "get_past"
    BY <1>3, Kinds
  <2> QED BY <1>1, <1>3, <2>1 DEF Runs
<1>7. AsksFor(from, start, hi)
  <2>1. Asked(queue, shown.list, since, start)
    BY <1>1 DEF Listed
  <2>2. CASE "next sync" \notin Thens(queue)
    <3>1. hi = since
      BY <1>4, <2>2 DEF Adds
    <3>2. \A j \in DOMAIN queue : queue[j].then # "next sync"
      BY <2>2 DEF Thens
    <3>3. AsksFor(queue[1].from, start, since)
      BY <1>3, <2>1, <3>2 DEF Asked
    <3> QED BY <1>1, <1>3, <3>1, <3>3
  <2>3. CASE "next sync" \in Thens(queue)
    <3>1. PICK j \in DOMAIN queue : queue[j].then = "next sync"
      BY <2>3 DEF Thens
    <3>2. j > 1
      <4>1. j # 1
        BY <1>3, <3>1
      <4>2. j \in 1 .. Len(queue)
        BY <1>3
      <4> QED BY <1>3, <4>1, <4>2
    <3>3. PICK events : events = queue[j].events
      OBVIOUS
    <3>4. events = SubSeq(history, hi + 1, since)
      BY <1>4, <3>1, <3>3 DEF Adds
    <3>5. PICK next : next = hi + 1
      OBVIOUS
    <3>6. next \in Nat /\ next > 0 /\ since \in 0 .. Len(history)
      BY <1>2, <3>5
    <3>7. Len(events) = IF next <= since THEN since - next + 1 ELSE 0
      BY <1>2, <3>4, <3>5, <3>6, PartIs
    <3>8. since - Len(events) = hi
      BY <1>2, <3>5, <3>6, <3>7
    <3>9. AsksFor(queue[1].from, start, since - Len(queue[j].events))
      BY <1>3, <2>1, <3>1, <3>2 DEF Asked
    <3> QED BY <1>1, <1>3, <3>3, <3>8, <3>9
  <2> QED BY <2>2, <2>3
<1>8. Whole(shown.list, history, prev, since, start)
  BY <1>1 DEF Listed
<1>9. start \in lo + 1 .. hi + 1
  <2>1. start \in lo + 1 .. since + 1
    BY <1>5, <1>8 DEF Whole
  <2>2. start <= hi + 1
    BY <1>2, <1>7 DEF AsksFor
  <2> QED BY <1>2, <2>1, <2>2
<1>10. from # NULL => history[start].message \/ Quiet(history, lo + 1, start - 1)
  BY <1>5, <1>8 DEF Whole
<1>11. db.account /\ NoRoom(db) /\ hi <= Len(history)
  BY <1>2 DEF TypeInv, IsTables, Listed
<1>12. IsPage(past, history, lo, start)
  BY <1>2, <1>6, <1>7, <1>9, <1>10, <1>11, PageIs
<1> QED BY <1>1, <1>5, <1>12

\* The worker takes a task.
LEMMA WorkListed ==
  ASSUME TypeInv, NEW lo \in Nat, NEW hi \in Nat, Stored(lo, hi), NEW start \in Nat, Listed(start),
         Work
  PROVE  Listed(start)'
<1>1. PICK t, r, run : WorkStep(t, r, run) /\ WorkParts(t, r, run)
  BY WorkIs
<1>2. /\ history' = history /\ client' = client /\ shown' = shown
      /\ db' = run.db /\ queue' = r
      /\ done' = IF t.then = "nothing" THEN done
                 ELSE Append(done, [task |-> t, result |-> run.result])
  BY <1>1 DEF WorkStep
<1>3. PICK since, prev, list : /\ since = client.since /\ prev = Place(shown.prev_batch)
                               /\ list = shown.list
  OBVIOUS
<1>4. Asked(r, list, since, start)
  <2>1. Later(r, queue)
    BY <1>1 DEF WorkParts
  <2>2. Asked(queue, list, since, start)
    BY <1>3 DEF Listed
  <2> QED BY <2>1, <2>2, AskedTaken
<1>5. NoRoom(db')
  <2>1. Runs(db, t, run) /\ NoRoom(db)
    BY <1>1 DEF WorkParts, Listed
  <2> QED BY <1>2, <2>1 DEF Runs, NoRoom, SavesClient, SavesRoom, Same
<1>6. Answered(done', history, prev, start, shown.loading)
  <2>1. Answered(done, history, prev, start, shown.loading)
    BY <1>3 DEF Listed
  <2>2. CASE t.then = "nothing"
    BY <1>2, <2>1, <2>2
  <2>3. CASE t.then # "nothing"
    <3>1. PICK e : e = [task |-> t, result |-> run.result]
      OBVIOUS
    <3>2. done \in Seq(Range(done))
      BY DEF TypeInv, IsDone
    <3>3. done' = Append(done, e)
      BY <1>2, <2>3, <3>1
    <3>4. \A i \in DOMAIN done' : (i \in DOMAIN done /\ done'[i] = done[i]) \/ done'[i] = e
      BY <3>2, <3>3
    <3>5. e.task.then = "past" => IsPage(e.result, history, prev, start)
      BY <1>1, <1>3, <3>1, WorkAnswers
    <3> QED BY <2>1, <3>4, <3>5 DEF Answered
  <2> QED BY <2>2, <2>3
<1>7. Whole(list, history, prev, since, start)
  BY <1>3 DEF Listed
<1> QED BY <1>2, <1>3, <1>4, <1>5, <1>6, <1>7 DEF Listed

\* A place and what follows it
LEMMA Following ==
  ASSUME NEW b \in Nat, NEW last \in Nat, b < last
  PROVE  /\ b + 1 \in Nat /\ b + 1 > 0 /\ last \in 0 .. last /\ b + 1 <= last
         /\ last - (b + 1) + 1 = last - b /\ last - (last - b) = b /\ last - b > 0
<1> QED OBVIOUS

\* A sequence with an element
LEMMA NotEmpty ==
  ASSUME NEW s, Len(s) > 0
  PROVE  s # <<>>
<1> QED OBVIOUS

\* The length of an answer of /sync
LEMMA AnswerLength ==
  ASSUME NEW h, IsHistory(h), NEW b \in Nat, b < Len(h), NEW events,
         events = SubSeq(h, b + 1, Len(h))
  PROVE  Len(h) - Len(events) = b /\ events # <<>>
<1>1. PICK low, last : low = b + 1 /\ last = Len(h)
  OBVIOUS
<1>2. last \in Nat /\ b < last
  BY <1>1, Places
<1>3. /\ low \in Nat /\ low > 0 /\ last \in 0 .. Len(h) /\ low <= last /\ last - low + 1 = last - b
      /\ last - (last - b) = b /\ last - b > 0
  BY <1>1, <1>2, Following
<1>4. Len(SubSeq(h, low, last)) = IF low <= last THEN last - low + 1 ELSE 0
  BY <1>3, PartIs
<1>5. Len(events) = last - b
  BY <1>1, <1>3, <1>4
<1>6. Len(events) > 0
  BY <1>3, <1>5
<1>7. events # <<>>
  BY <1>6, NotEmpty
<1>8. last - Len(events) = b
  BY <1>3, <1>5
<1> QED BY <1>1, <1>7, <1>8
\* The elements of a list before another one
LEMMA AllBefore ==
  ASSUME NEW k \in Nat, NEW n, n = k + 1
  PROVE  \A i \in 1 .. k : n > i
<1> QED OBVIOUS

\* An answer of /sync is added behind what is left of the list.
LEMMA WholeJoined ==
  ASSUME NEW h, IsHistory(h), NEW prev \in Nat, NEW b \in Nat, b < Len(h),
         NEW list \in Seq(Plain), NEW start \in Nat, Whole(list, h, prev, b, start),
         NEW events, IsAnswer(events, h, b), Messages(events) = Between(h, b + 1, Len(h)),
         NEW left \in Seq(Plain), Leaves(list, Removes(events), left),
         Harmless(list, Removes(events)), NEW m, Lists(left, h, prev, Len(h), m),
         \A i \in DOMAIN left : left[i].uid # NULL => left[i].uid <= b,
         NEW l, l = left \o events
  PROVE  Whole(l, h, prev, Len(h), start) /\ l # <<>>
<1>1. /\ Len(h) \in Nat /\ DOMAIN h = 1 .. Len(h)
      /\ \A i \in 1 .. Len(h) : h[i].uid = i /\ (h[i].txn # NULL => h[i].message) /\ i # NULL
  BY Places
<1>2. /\ events \in Seq(Plain) /\ Len(events) > 0 /\ events # <<>>
      /\ DOMAIN events = 1 .. Len(events)
      /\ \A k \in 1 .. Len(events) : b + k \in b + 1 .. Len(h) /\ events[k] = h[b + k]
  BY <1>1 DEF IsAnswer
<1>3. /\ Harmless(list, Removes(events)) /\ left \in Seq(Plain) /\ Lists(left, h, prev, Len(h), m)
      /\ \A i \in DOMAIN left : left[i].uid # NULL => left[i].uid <= b
  OBVIOUS
<1>5. Leaves(list, Removes(events), left)
  OBVIOUS
<1>8. /\ l \in Seq(Plain) /\ Len(left) \in Nat /\ Len(events) \in Nat
      /\ Len(l) = Len(left) + Len(events) /\ DOMAIN l = 1 .. Len(left) + Len(events)
      /\ \A i \in 1 .. Len(left) : l[i] = left[i]
      /\ \A i \in 1 .. Len(events) : l[Len(left) + i] = events[i]
      /\ \A i \in 1 .. Len(left) + Len(events) :
           i > Len(left) => i - Len(left) \in 1 .. Len(events) /\ l[i] = events[i - Len(left)]
  BY <1>2, <1>3, ListConcat
<1>9. l # <<>>
  <2>1. Len(l) > 0
    <3>1. PICK n, k : n = Len(left) /\ k = Len(events)
      OBVIOUS
    <3>2. n \in Nat /\ k \in Nat /\ k > 0 /\ Len(l) = n + k
      BY <1>2, <1>8, <3>1
    <3> QED BY <3>2
  <2> QED BY <2>1
<1>10. /\ start \in prev + 1 .. b + 1
       /\ IF list = <<>> THEN start = b + 1 ELSE start <= b /\ list[1] = h[start]
       /\ \A i \in DOMAIN list : IsSynced(list[i], h, start - 1, b) \/ IsEcho(list[i], h, b)
       /\ Messages(list) = Between(h, start, b)
       /\ Quiet(h, prev + 1, start - 1) \/ (start <= b /\ h[start].message)
  BY DEF Whole
<1>11. start \in prev + 1 .. Len(h) + 1 /\ start <= Len(h) /\ start \in 1 .. Len(h)
  BY <1>1, <1>10
<1>12. l[1] = h[start]
  <2>1. CASE list = <<>>
    <3>1. left = <<>> /\ start = b + 1
      BY <1>5, <1>10, <2>1 DEF Leaves
    <3>2. Len(left) = 0 /\ 1 \in 1 .. Len(events)
      BY <1>2, <1>8, <3>1
    <3>3. l[0 + 1] = events[1]
      BY <1>8, <3>2
    <3> QED BY <1>2, <3>1, <3>2, <3>3
  <2>2. CASE list # <<>>
    <3>1. list[1] = h[start] /\ 1 \in 1 .. Len(list)
      BY <1>10, <2>2
    <3>2. list[1].txn \notin Removes(events)
      <4>1. ASSUME list[1].txn \in Removes(events) PROVE FALSE
        <5>1. ~list[1].message /\ list[1].txn # NULL
          BY <1>3, <3>1, <4>1 DEF Harmless, Removes
        <5> QED BY <1>1, <1>11, <3>1, <5>1
      <4> QED BY <4>1
    <3>3. left # <<>> /\ left[1] = list[1]
      BY <1>5, <2>2, <3>2 DEF Leaves
    <3>4. 1 \in 1 .. Len(left)
      BY <1>3, <3>3
    <3> QED BY <1>8, <3>1, <3>3, <3>4
  <2> QED BY <2>1, <2>2
<1>13. ASSUME NEW i \in DOMAIN l
       PROVE  IsSynced(l[i], h, start - 1, Len(h)) \/ IsEcho(l[i], h, Len(h))
  <2>1. CASE i <= Len(left)
    <3>1. i \in 1 .. Len(left) /\ l[i] = left[i]
      <4>1. PICK n, k : n = Len(left) /\ k = Len(events)
        OBVIOUS
      <4>2. i \in 1 .. n + k /\ n \in Nat /\ k \in Nat /\ i <= n
        BY <1>8, <2>1, <4>1
      <4>3. i \in 1 .. n
        BY <4>2
      <4> QED BY <1>8, <4>1, <4>3
    <3>2. i \in DOMAIN left
      BY <1>3, <3>1
    <3>3. IsSynced(left[i], h, prev, Len(h)) \/ IsEcho(left[i], h, Len(h))
      BY <1>3, <3>2 DEF Lists
    <3>4. PICK j \in 1 .. Len(list) : left[i] = list[j]
      BY <1>5, <3>1 DEF Leaves
    <3>5. IsSynced(left[i], h, start - 1, b) \/ IsEcho(left[i], h, b)
      <4>1. j \in DOMAIN list
        OBVIOUS
      <4> QED BY <1>10, <3>4, <4>1
    <3>6. CASE IsSynced(left[i], h, start - 1, b)
      <4>1. PICK v : v = left[i].uid
        OBVIOUS
      <4>2. v \in start - 1 + 1 .. b /\ left[i] = h[v]
        BY <3>6, <4>1 DEF IsSynced
      <4>3. v \in start - 1 + 1 .. Len(h)
        BY <1>1, <1>11, <4>2
      <4> QED BY <3>1, <4>1, <4>2, <4>3 DEF IsSynced
    <3>7. CASE IsEcho(left[i], h, b) /\ IsSynced(left[i], h, prev, Len(h))
      <4>1. PICK v : v = left[i].uid
        OBVIOUS
      <4>2. v \in prev + 1 .. Len(h) /\ left[i] = h[v]
        BY <3>7, <4>1 DEF IsSynced
      <4>3. v \in 1 .. Len(h)
        BY <1>1, <4>2
      <4>4. v <= b
        BY <1>1, <1>3, <3>2, <4>1, <4>3
      <4>5. v \in 1 .. b
        BY <4>3, <4>4
      <4> QED BY <3>7, <4>2, <4>5 DEF IsEcho
    <3> QED BY <3>1, <3>3, <3>5, <3>6, <3>7
  <2>2. CASE i > Len(left)
    <3>1. PICK k : k = i - Len(left)
      OBVIOUS
    <3>2. k \in 1 .. Len(events) /\ l[i] = events[k]
      BY <1>8, <2>2, <3>1
    <3>3. PICK v : v = b + k
      OBVIOUS
    <3>4. v \in b + 1 .. Len(h) /\ l[i] = h[v]
      BY <1>2, <3>2, <3>3
    <3>5. v \in 1 .. Len(h) /\ v \in start - 1 + 1 .. Len(h)
      BY <1>1, <1>10, <1>11, <3>4
    <3> QED BY <1>1, <3>4, <3>5 DEF IsSynced
  <2>3. i \in Nat /\ Len(left) \in Nat
    BY <1>8
  <2> QED BY <2>1, <2>2, <2>3
<1>14. Messages(l) = Between(h, start, Len(h))
  <2>1. Messages(l) = Messages(left) \o Messages(events)
    BY <1>2, <1>3, MessagesConcat
  <2>2. Messages(left) = Between(h, start, b)
    BY <1>5, <1>10 DEF Leaves
  <2>4. PICK to : to = Len(h)
    OBVIOUS
  <2>5. to \in 0 .. Len(h) /\ b <= to /\ start <= b + 1 /\ start > 0
    BY <1>1, <1>10, <1>11, <2>4
  <2>6. Between(h, start, to) = Between(h, start, b) \o Between(h, b + 1, to)
    BY <2>5, BetweenSplit
  <2> QED BY <2>1, <2>2, <2>4, <2>6
<1>15. Quiet(h, prev + 1, start - 1) \/ (start <= Len(h) /\ h[start].message)
  BY <1>10, <1>11
<1>16. Whole(l, h, prev, Len(h), start)
  BY <1>9, <1>11, <1>12, <1>13, <1>14, <1>15 DEF Whole
<1> QED BY <1>9, <1>16

\* An answer of /sync follows what is shown, whose echoes it takes the place of.
LEMMA WholeAnswered ==
  ASSUME NEW h, IsHistory(h), NEW prev \in Nat, NEW b \in Nat, b < Len(h),
         NEW list \in Seq(Plain), NEW start \in Nat, Whole(list, h, prev, b, start),
         NEW m, Lists(list, h, prev, b, m),
         NEW events, events = SubSeq(h, b + 1, Len(h)),
         NEW left, left = WithoutEchoes(list, events)
  PROVE  /\ Whole(Shown(left, events, TRUE), h, prev, Len(h), start)
         /\ Shown(left, events, TRUE) # <<>>
<1>1. IsAnswer(events, h, b)
  BY AnswerIs
<1>2. events \in Seq(Plain)
  BY <1>1 DEF IsAnswer
<1>3. /\ Harmless(list, Removes(events)) /\ left \in Seq(Plain) /\ Lists(left, h, prev, Len(h), m)
      /\ \A i \in DOMAIN left : left[i].uid # NULL => left[i].uid <= b
  BY EchoesGone
<1>4. NotLast(left, events) = events
  BY <1>1, <1>3, NewIsAll
<1>5. Leaves(list, Removes(events), left)
  <2>1. Distinct(list)
    BY DEF Lists
  <2> QED BY <1>2, <1>3, <2>1, EchoesRemoved
<1>6. PICK l : l = left \o events
  OBVIOUS
<1>7. Shown(left, events, TRUE) = l
  BY <1>4, <1>6 DEF Shown
<1>8. Messages(events) = Between(h, b + 1, Len(h))
  BY DEF Between
<1>9. Whole(l, h, prev, Len(h), start) /\ l # <<>>
  BY <1>1, <1>3, <1>5, <1>6, <1>8, WholeJoined
<1> QED BY <1>7, <1>9

\* What is asked before an answer is stored is asked of the rows up to the last one.
LEMMA AskedAnswered ==
  ASSUME NEW p, NEW q, NEW t, Longer(p, q, t), t.then = "next sync", "next sync" \notin Thens(q),
         NEW list, NEW listed, listed # <<>>, NEW b, NEW last, NEW start,
         Asked(q, list, b, start), NEW n, n = Len(t.events), last - n = b
  PROVE  Asked(p, listed, last, start)
<1>1. PICK m : m = Len(q) + 1
  OBVIOUS
<1>2. /\ m \in DOMAIN p /\ p[m] = t
      /\ \A i \in DOMAIN p : (i \in DOMAIN q /\ p[i] = q[i]) \/ (i = m /\ p[i] = t)
      /\ \A i \in DOMAIN q : m > i /\ q[i].then # "next sync"
  <2>1. \A i \in DOMAIN q : q[i].then # "next sync"
    BY DEF Thens
  <2>2. PICK k : k = Len(q)
    OBVIOUS
  <2>3. k \in Nat /\ DOMAIN q = 1 .. k /\ m = k + 1
    BY <1>1, <2>2, LongerIs
  <2>4. \A i \in 1 .. k : m > i
    BY <2>3, AllBefore, Zenon
  <2>5. \A i \in DOMAIN q : m > i
    BY <2>3, <2>4
  <2>6. m \in DOMAIN p /\ p[m] = t
    BY <1>1, LongerIs
  <2>7. \A i \in DOMAIN p : (i \in DOMAIN q /\ p[i] = q[i]) \/ (i = m /\ p[i] = t)
    BY <1>1, LongerIs
  <2> QED BY <2>1, <2>5, <2>6, <2>7
<1>3. ASSUME NEW i \in DOMAIN p, p[i].then = "past"
      PROVE  /\ \E j \in DOMAIN p : j > i /\ p[j].then = "next sync"
             /\ \A j \in DOMAIN p : j > i /\ p[j].then = "next sync" =>
                  AsksFor(p[i].from, start, last - Len(p[j].events))
  <2>1. i \in DOMAIN q /\ p[i] = q[i]
    BY <1>2, <1>3
  <2>2. AsksFor(q[i].from, start, b)
    <3>1. \A j \in DOMAIN q : j > i => q[j].then # "next sync"
      BY <1>2
    <3> QED BY <1>3, <2>1, <3>1 DEF Asked
  <2>3. \A j \in DOMAIN p : p[j].then = "next sync" => p[j] = t
    BY <1>2
  <2> QED BY <1>2, <2>1, <2>2, <2>3
<1> QED BY <1>3 DEF Asked

\* The list after an answer of /sync that follows the last one, or is the first one
LEMMA AnswerListed ==
  ASSUME TypeInv, NEW first, NEW events, NEW list, NEW new, NEW prev, NEW q1, NEW q2,
         SyncStep(first, events, list, new, prev, q1, q2),
         SyncParts(events, list, new, prev, q1, q2),
         NEW b \in Nat, b < Len(history), first = b + 1, Place(prev) \in Nat, NEW start \in Nat,
         Whole(shown.list, history, Place(prev), b, start), "next sync" \notin Thens(queue),
         Lists(shown.list, history, Place(prev), b, message),
         Asked(queue, shown.list, b, start),
         Answered(done, history, Place(prev), start, shown.loading), NoRoom(db)
  PROVE  Listed(start)'
<1>1. PICK h, from, old, l, last :
        /\ h = history /\ from = Place(prev) /\ old = shown.list /\ l = Shown(list, events, TRUE)
        /\ last = Len(h)
  OBVIOUS
<1>2. events = SubSeq(h, b + 1, Len(h)) /\ list = WithoutEchoes(old, events)
  BY <1>1 DEF SyncStep
<1>3. IsHistory(h) /\ old \in Seq(Plain) /\ from \in Nat /\ b < Len(h) /\ last \in Nat
  <2>1. IsHistory(h) /\ old \in Seq(Plain)
    BY <1>1 DEF TypeInv, IsShown
  <2> QED BY <1>1, <2>1, Places
<1>4. Whole(l, h, from, last, start) /\ l # <<>>
  <2>1. /\ Whole(old, h, from, b, start) /\ Lists(old, h, from, b, message)
    BY <1>1
  <2>2. Whole(Shown(list, events, TRUE), h, from, Len(h), start) /\ Shown(list, events, TRUE) # <<>>
    BY <1>2, <1>3, <2>1, WholeAnswered, ZenonT(30)
  <2> QED BY <1>1, <2>2
<1>5. new = events /\ events # <<>> /\ last - Len(events) = b
  <2>1. IsAnswer(events, h, b)
    BY <1>2, <1>3, AnswerIs
  <2>2. Lists(old, h, from, b, message)
    BY <1>1
  <2>3. /\ list \in Seq(Plain) /\ Lists(list, h, from, Len(h), message)
        /\ \A i \in DOMAIN list : list[i].uid # NULL => list[i].uid <= b
    <3>1. /\ WithoutEchoes(old, events) \in Seq(Plain)
          /\ Lists(WithoutEchoes(old, events), h, from, Len(h), message)
          /\ \A i \in DOMAIN WithoutEchoes(old, events) :
               WithoutEchoes(old, events)[i].uid # NULL => WithoutEchoes(old, events)[i].uid <= b
      BY <1>2, <1>3, <2>2, EchoesGone
    <3> QED BY <1>2, <3>1
  <2>4. NotLast(list, events) = events
    BY <1>3, <2>1, <2>3, NewIsAll
  <2>5. last - Len(events) = b /\ events # <<>>
    BY <1>1, <1>2, <1>3, AnswerLength
  <2> QED BY <2>4, <2>5 DEF SyncStep
<1>6. PICK t1, t2, t3 : t1 = SavingClient(last) /\ t2 = SavingRoom(prev)
                        /\ t3 = Adding(new, FALSE, "next sync")
  OBVIOUS
<1>7. /\ t1.then = "saved" /\ t2.then = "nothing" /\ t3.then = "next sync" /\ t3.events = events
  BY <1>5, <1>6 DEF SavingClient, SavingRoom, Adding
<1>8. /\ IF client.saving = "no"
             THEN Longer(q1, queue, t1) /\ Wider(Thens(q1), Thens(queue), "saved")
         ELSE q1 = queue
      /\ Longer(q2, q1, t2) /\ Wider(Thens(q2), Thens(q1), "nothing") /\ Longer(queue', q2, t3)
  BY <1>1, <1>5, <1>6 DEF SyncParts
<1>9. Asked(q1, old, b, start) /\ "next sync" \notin Thens(q1)
  <2>1. Asked(queue, old, b, start)
    BY <1>1
  <2>2. CASE client.saving = "no"
    <3>1. Longer(q1, queue, t1) /\ t1.then # "next sync" /\ t1.then # "past"
      BY <1>7, <1>8, <2>2
    <3>2. Asked(q1, old, b, start)
      BY <2>1, <3>1, AskedPut
    <3>3. Thens(q1) = Thens(queue) \cup {"saved"}
      BY <1>8, <2>2 DEF Wider
    <3>4. "next sync" \notin Thens(q1)
      BY <3>3
    <3> QED BY <3>2, <3>4
  <2>3. CASE client.saving # "no"
    BY <1>8, <2>1, <2>3
  <2> QED BY <2>2, <2>3
<1>10. Asked(q2, old, b, start) /\ "next sync" \notin Thens(q2)
  <2>1. Longer(q2, q1, t2) /\ t2.then # "next sync" /\ t2.then # "past"
    BY <1>7, <1>8
  <2>2. Asked(q2, old, b, start)
    BY <1>9, <2>1, AskedPut
  <2> QED BY <1>8, <1>9, <2>2 DEF Wider
<1>11. Asked(queue', l, last, start)
  <2>1. PICK q : q = queue'
    OBVIOUS
  <2>2. last - Len(t3.events) = b
    BY <1>5, <1>7
  <2>3. Longer(q, q2, t3)
    BY <1>8, <2>1
  <2>4. Asked(q, l, last, start)
    <3>1. PICK n : n = Len(t3.events)
      OBVIOUS
    <3>2. last - n = b
      BY <2>2, <3>1
    <3>3. "next sync" \notin Thens(q2) /\ t3.then = "next sync" /\ l # <<>>
          /\ Asked(q2, old, b, start)
      BY <1>4, <1>7, <1>10
    <3> QED BY <2>3, <3>1, <3>2, <3>3, AskedAnswered
  <2> QED BY <2>1, <2>4
<1>12. /\ shown'.prev_batch = prev /\ shown'.list = l /\ shown'.loading = shown.loading
       /\ client'.since = last
       /\ history' = history /\ db' = db /\ done' = done
  <2>1. {"list", "loading", "from", "prev_batch", "synced", "joined"} \subseteq DOMAIN shown
    BY DEF TypeInv, IsShown
  <2>2. {"since", "sync", "saving"} \subseteq DOMAIN client
    BY DEF TypeInv, IsClient
  <2> QED BY <1>1, <2>1, <2>2 DEF SyncStep
<1>13. Answered(done, h, from, start, shown.loading)
  BY <1>1
<1> QED BY <1>1, <1>4, <1>11, <1>12, <1>13 DEF Listed

\* The first answer of /sync may leave out what came before: the list begins with it.
LEMMA SyncDoneListed ==
  ASSUME TypeInv, NEW lo \in Nat, NEW hi \in Nat, Stored(lo, hi), ~LimitedSyncs,
         NEW start \in Nat, Listed(start), NEW first \in 1 .. Len(history), SyncDone(first)
  PROVE  \E s \in Nat : Listed(s)'
<1>1. PICK events, list, new, prev, q1, q2 :
        /\ SyncStep(first, events, list, new, prev, q1, q2)
        /\ SyncParts(events, list, new, prev, q1, q2)
  BY SyncDoneIs
<1>2. PICK h, since, last, old :
        h = history /\ since = client.since /\ last = Len(h) /\ old = Place(shown.prev_batch)
  OBVIOUS
<1>3. /\ since \in Nat /\ since <= last /\ last \in Nat /\ old \in 0 .. lo /\ old \in Nat
      /\ IsHistory(h)
  <2>1. /\ since \in Nat /\ since <= last /\ last \in Nat /\ old \in 0 .. lo /\ IsHistory(h)
    BY <1>2, Bounds
  <2> QED BY <2>1
<1>4. PICK b : b = first - 1
  OBVIOUS
<1>5. b \in Nat /\ b < last /\ first = b + 1 /\ since <= b
  <2>1. first \in since + 1 .. last
    BY <1>1, <1>2 DEF SyncStep
  <2> QED BY <1>2, <1>3, <1>4, <2>1
<1>6. "next sync" \notin Thens(queue)
  BY <1>1 DEF TypeInv, Flags, SyncStep
<1>7. /\ Whole(shown.list, h, old, since, start) /\ Asked(queue, shown.list, since, start)
      /\ Answered(done, h, old, start, shown.loading) /\ NoRoom(db)
  BY <1>2 DEF Listed
<1>8. CASE first = since + 1
  <2>1. prev = shown.prev_batch /\ b = since
    <3>1. prev = IF first > since + 1 THEN first - 1 ELSE shown.prev_batch
      BY <1>1, <1>2 DEF SyncStep
    <3> QED BY <1>3, <1>4, <1>8, <3>1
  <2>2. Lists(shown.list, h, old, b, message)
    BY <1>2, <2>1, ContentsAre
  <2>3. b < Len(history) /\ Place(prev) = old
    BY <1>2, <1>5, <2>1
  <2>4. /\ Whole(shown.list, history, Place(prev), b, start)
        /\ Lists(shown.list, history, Place(prev), b, message)
        /\ Asked(queue, shown.list, b, start)
        /\ Answered(done, history, Place(prev), start, shown.loading) /\ Place(prev) \in Nat
    BY <1>2, <1>3, <1>7, <2>1, <2>2, <2>3
  <2>5. Listed(start)'
    BY <1>1, <1>5, <1>6, <1>7, <2>3, <2>4, AnswerListed
  <2> QED BY <2>5
<1>9. CASE first # since + 1
  <2>1. since = 0 /\ prev = b /\ b > 0
    <3>1. first > since + 1
      <4>1. first \in since + 1 .. last
        BY <1>1, <1>2 DEF SyncStep
      <4> QED BY <1>3, <1>9, <4>1
    <3>2. /\ first > client.since + 1 => LimitedSyncs \/ client.since = 0
          /\ prev = IF first > client.since + 1 THEN first - 1 ELSE shown.prev_batch
      BY <1>1 DEF SyncStep
    <3> QED BY <1>2, <1>3, <1>4, <3>1, <3>2
  <2>2. /\ shown.list = <<>> /\ shown.loading # "server"
        /\ \A i \in DOMAIN done : done[i].task.then = "past" => done[i].result = <<>>
    BY <1>2, <2>1 DEF Stored, Fresh
  <2>3. b = Place(prev)
    <3>1. b \in Token
      BY <1>2, <1>3, <1>5, HistoryAssumption, BoundsAssumption DEF IsHistory
    <3> QED BY <2>1, <3>1, NamesAssumption DEF Place
  <2>4. PICK none : none = shown.list
    OBVIOUS
  <2>5. none = <<>> /\ none \in Seq(Plain) /\ Messages(none) = <<>>
    <3>1. none = <<>>
      BY <2>2, <2>4
    <3>2. none \in Seq(Plain) /\ \A i \in DOMAIN none : none[i].message
      BY <3>1
    <3> QED BY <3>1, <3>2, MessagesAll
  <2>6. first \in b + 1 .. b + 1 /\ Quiet(h, b + 1, first - 1) /\ first \in Nat /\ first > b
        /\ first - 1 <= Len(h)
    <3>1. b + 1 .. first - 1 = {}
      BY <1>5
    <3> QED BY <1>2, <1>5, <3>1 DEF Quiet
  <2>7. Between(h, first, b) = <<>>
    <3>1. first > 0 /\ b \in 0 .. Len(h) /\ first > b
      BY <1>2, <1>5
    <3> QED BY <1>3, <2>6, <3>1, BetweenTyped
  <2>8. Whole(none, h, b, b, first)
    BY <1>5, <2>5, <2>6, <2>7 DEF Whole
  <2>9. Lists(none, h, b, b, message)
    BY <2>5 DEF Lists, Distinct
  <2>10. Asked(queue, none, b, first)
    <3>1. start = since + 1
      BY <1>7, <2>2 DEF Whole
    <3>2. ASSUME NEW i \in DOMAIN queue, queue[i].then = "past"
          PROVE  AsksFor(queue[i].from, first, b)
      <4>1. \A j \in DOMAIN queue : queue[j].then # "next sync"
        BY <1>6 DEF Thens
      <4>2. AsksFor(queue[i].from, start, since)
        BY <1>7, <3>2, <4>1 DEF Asked
      <4>3. queue[i].from = NULL
        <5>1. ~(start <= since)
          BY <1>3, <3>1
        <5> QED BY <4>2, <5>1 DEF AsksFor
      <4> QED BY <1>5, <4>3 DEF AsksFor
    <3>3. \A j \in DOMAIN queue : queue[j].then # "next sync"
      BY <1>6 DEF Thens
    <3> QED BY <1>6, <3>2, <3>3 DEF Asked
  <2>11. Answered(done, h, b, first, shown.loading)
    <3>1. IsPage(<<>>, h, b, first)
      BY <1>3, <1>5, <2>6, NoPage
    <3> QED BY <2>2, <3>1 DEF Answered
  <2>12. b < Len(history) /\ Place(prev) \in Nat
    BY <1>2, <1>5, <2>3
  <2>13. Listed(first)'
    BY <1>1, <1>2, <1>5, <1>6, <1>7, <2>3, <2>4, <2>6, <2>8, <2>9, <2>10, <2>11, <2>12, AnswerListed
  <2> QED BY <2>6, <2>13
<1> QED BY <1>8, <1>9

\* Events of the history up to the one before start, with every message from one of
\* them on
Leads(part, h, from, start) ==
  /\ part # <<>> /\ part[1] = h[from]
  /\ \A i \in 1 .. Len(part) : \E u \in from .. start - 1 : part[i] = h[u]
  /\ Messages(part) = Between(h, from, start - 1)

\* What is found before the list makes it begin earlier.
LEMMA WholePrepended ==
  ASSUME NEW h, IsHistory(h), NEW since \in Nat, since <= Len(h), NEW list \in Seq(Plain),
         NEW prev \in Nat, NEW start \in Nat, Whole(list, h, prev, since, start),
         NEW from \in Nat, NEW low \in Nat, low < from, from < start,
         NEW part \in Seq(Plain), Leads(part, h, from, start),
         Quiet(h, low + 1, from - 1) \/ h[from].message, NEW l, l = part \o list
  PROVE  Whole(l, h, low, since, from) /\ l # <<>>
<1>1. /\ Len(h) \in Nat /\ DOMAIN h = 1 .. Len(h)
      /\ \A i \in 1 .. Len(h) : h[i].uid = i
  BY Places
<1>2. /\ start \in prev + 1 .. since + 1
      /\ \A i \in DOMAIN list : IsSynced(list[i], h, start - 1, since) \/ IsEcho(list[i], h, since)
      /\ Messages(list) = Between(h, start, since)
  BY DEF Whole
<1>3. /\ part # <<>> /\ part[1] = h[from]
      /\ \A i \in 1 .. Len(part) : \E u \in from .. start - 1 : part[i] = h[u]
      /\ Messages(part) = Between(h, from, start - 1)
  BY DEF Leads
<1>4. /\ from \in low + 1 .. since + 1 /\ from <= since /\ from > 0 /\ start - 1 <= since
      /\ start - 1 \in Nat /\ from <= start - 1 + 1 /\ start - 1 + 1 = start
  BY <1>2
<1>5. /\ l \in Seq(Plain) /\ Len(part) \in Nat /\ Len(list) \in Nat
      /\ Len(l) = Len(part) + Len(list) /\ DOMAIN l = 1 .. Len(part) + Len(list)
      /\ \A i \in 1 .. Len(part) : l[i] = part[i]
      /\ \A i \in 1 .. Len(part) + Len(list) :
           i > Len(part) => i - Len(part) \in 1 .. Len(list) /\ l[i] = list[i - Len(part)]
  BY ListConcat
<1>6. Len(part) > 0
  BY <1>3
<1>7. l # <<>> /\ l[1] = h[from]
  <2>1. PICK n, k : n = Len(part) /\ k = Len(list)
    OBVIOUS
  <2>2. n \in Nat /\ k \in Nat /\ n > 0 /\ Len(l) = n + k
    BY <1>5, <1>6, <2>1
  <2>3. Len(l) > 0 /\ 1 \in 1 .. n
    BY <2>2
  <2>4. l # <<>>
    BY <2>3, NotEmpty
  <2>5. l[1] = part[1]
    BY <1>5, <2>1, <2>3
  <2> QED BY <1>3, <2>4, <2>5
<1>8. ASSUME NEW i \in DOMAIN l
      PROVE  IsSynced(l[i], h, from - 1, since) \/ IsEcho(l[i], h, since)
  <2>1. PICK n, k : n = Len(part) /\ k = Len(list)
    OBVIOUS
  <2>2. n \in Nat /\ k \in Nat /\ i \in 1 .. n + k
    BY <1>5, <2>1
  <2>3. CASE i <= n
    <3>1. i \in 1 .. n
      BY <2>2, <2>3
    <3>2. PICK u \in from .. start - 1 : l[i] = h[u]
      BY <1>3, <1>5, <2>1, <3>1
    <3>3. u \in 1 .. Len(h) /\ u \in from - 1 + 1 .. since
      BY <1>1, <1>4
    <3> QED BY <1>1, <3>2, <3>3 DEF IsSynced
  <2>4. CASE i > n
    <3>1. PICK j : j = i - n
      OBVIOUS
    <3>2. j \in 1 .. k /\ l[i] = list[j]
      BY <1>5, <2>1, <2>2, <2>4, <3>1
    <3>3. j \in DOMAIN list
      BY <2>1, <3>2
    <3>4. IsSynced(list[j], h, start - 1, since) \/ IsEcho(list[j], h, since)
      BY <1>2, <3>3
    <3>5. \A u \in start - 1 + 1 .. since : u \in from - 1 + 1 .. since
      BY <1>4
    <3> QED BY <3>2, <3>4, <3>5 DEF IsSynced
  <2> QED BY <2>2, <2>3, <2>4
<1>9. Messages(l) = Between(h, from, since)
  <2>1. Messages(l) = Messages(part) \o Messages(list)
    BY MessagesConcat
  <2>2. PICK mid : mid = start - 1
    OBVIOUS
  <2>3. /\ mid \in Nat /\ mid <= since /\ from <= mid + 1 /\ since \in 0 .. Len(h)
        /\ mid + 1 = start
    BY <1>1, <1>4, <2>2
  <2>4. Between(h, from, since) = Between(h, from, mid) \o Between(h, mid + 1, since)
    <3>1. PICK to : to = since
      OBVIOUS
    <3>2. to \in 0 .. Len(h) /\ mid <= to /\ from <= mid + 1 /\ from > 0 /\ mid \in Nat
      BY <1>4, <2>3, <3>1
    <3>3. Between(h, from, to) = Between(h, from, mid) \o Between(h, mid + 1, to)
      BY <3>2, BetweenSplit
    <3> QED BY <3>1, <3>3
  <2> QED BY <1>2, <1>3, <2>1, <2>2, <2>3, <2>4
<1>10. Quiet(h, low + 1, from - 1) \/ (from <= since /\ h[from].message)
  BY <1>4
<1> QED BY <1>4, <1>7, <1>8, <1>9, <1>10 DEF Whole

\* Nothing of what was before the list is in it.
LEMMA PageIsNew ==
  ASSUME NEW h, IsHistory(h), NEW since \in Nat, since <= Len(h), NEW list \in Seq(Plain),
         NEW prev \in Nat, NEW start \in Nat, Whole(list, h, prev, since, start),
         NEW events \in Seq(Plain),
         \A k \in 1 .. Len(events) : \E u \in 1 .. start - 1 : events[k] = h[u]
  PROVE  NotLast(list, events) = events
<1>1. /\ Len(h) \in Nat /\ DOMAIN h = 1 .. Len(h)
      /\ \A i \in 1 .. Len(h) : h[i] \in Plain /\ h[i].uid = i /\ i # NULL
  BY Places
<1>2. start <= since + 1 /\ \A u \in 1 .. start - 1 : u \in 1 .. Len(h) /\ u \in 1 .. since
  <2>1. start \in prev + 1 .. since + 1
    BY DEF Whole
  <2> QED BY <1>1, <2>1
<1>3. CASE list = <<>>
  BY <1>3 DEF NotLast
<1>4. CASE list # <<>>
  <2>1. PICK e : e = list[Len(list)]
    OBVIOUS
  <2>2. Last(list) = e /\ Len(list) \in DOMAIN list
    BY <1>4, <2>1 DEF Last
  <2>3. IsSynced(e, h, start - 1, since) \/ IsEcho(e, h, since)
    BY <2>1, <2>2 DEF Whole
  <2>4. \A u \in 1 .. start - 1 : e.uid # u
    <3>1. CASE IsSynced(e, h, start - 1, since)
      <4>1. \A u \in 1 .. start - 1 : u \notin start - 1 + 1 .. since
        OBVIOUS
      <4> QED BY <3>1, <4>1 DEF IsSynced
    <3>2. CASE IsEcho(e, h, since)
      <4>1. ASSUME NEW u \in 1 .. start - 1, e.uid = u PROVE FALSE
        <5>1. h[u].txn = e.txn /\ u \in 1 .. since
          BY <1>1, <1>2, <3>2, <4>1 DEF IsEcho
        <5> QED BY <3>2, <5>1 DEF IsEcho
      <4> QED BY <4>1
    <3> QED BY <2>3, <3>1, <3>2
  <2>5. PICK set : set = {x \in Event : x.uid # e.uid}
    OBVIOUS
  <2>6. \A i \in DOMAIN events : events[i] \in set
    <3>1. ASSUME NEW k \in 1 .. Len(events) PROVE events[k] \in set
      <4>1. PICK u \in 1 .. start - 1 : events[k] = h[u]
        OBVIOUS
      <4>2. events[k].uid = u /\ events[k] \in Plain
        BY <1>1, <1>2, <4>1
      <4>3. events[k].uid # e.uid
        BY <2>4, <4>2
      <4> QED BY <2>5, <4>2, <4>3 DEF Plain
    <3> QED BY <3>1
  <2>7. Picked(events, set) = events
    BY <2>6, PickedAll
  <2>8. NotLast(list, events) = Picked(events, set)
    BY <1>4, <2>2, <2>5 DEF NotLast
  <2> QED BY <2>7, <2>8
<1> QED BY <1>3, <1>4

\* No page is asked for.
LEMMA AskedNone ==
  ASSUME NEW q, "past" \notin Thens(q), NEW list, list = <<>> => "next sync" \notin Thens(q),
         NEW since, NEW start
  PROVE  Asked(q, list, since, start)
<1>1. \A i \in DOMAIN q : q[i].then # "past"
  BY DEF Thens
<1> QED BY <1>1 DEF Asked

\* A page that has messages is shown before the list.
LEMMA PageShown ==
  ASSUME NEW h, IsHistory(h), NEW since \in Nat, since <= Len(h), NEW list \in Seq(Plain),
         NEW prev \in Nat, NEW start \in Nat, Whole(list, h, prev, since, start),
         NEW events \in Seq(Plain), events # <<>>, IsPage(events, h, prev, start),
         NEW l, l = Shown(list, events, FALSE)
  PROVE  \E g \in Nat : Whole(l, h, prev, since, g) /\ l # <<>>
<1>1. PICK g \in prev + 1 .. start :
        events = Reverse(Between(h, g, start - 1)) /\ g < start /\ h[g].message
  BY DEF IsPage
<1>2. PICK to, part : to = start - 1 /\ part = Between(h, g, start - 1)
  OBVIOUS
<1>3. start \in prev + 1 .. since + 1 /\ Len(h) \in Nat
  BY Places DEF Whole
<1>4. /\ g \in Nat /\ g > 0 /\ prev < g /\ g < start /\ to \in Nat /\ to <= since /\ to <= Len(h)
      /\ g <= to + 1 /\ to \in 0 .. Len(h) /\ g \in g .. to
  BY <1>1, <1>2, <1>3
<1>5. events = Reverse(part) /\ part = Between(h, g, to)
  BY <1>1, <1>2
<1>6. part \in Seq(Plain) /\ Len(part) \in Nat
  BY <1>4, <1>5, BetweenTyped
<1>7. /\ Len(events) = Len(part) /\ Reverse(events) = part
      /\ \A i \in 1 .. Len(part) : events[i] = part[Len(part) - i + 1]
  BY <1>5, <1>6, Backwards
<1>8. \A i \in 1 .. Len(part) : \E u \in g .. to : part[i] = h[u]
  BY <1>4, <1>5, BetweenShows
<1>9. \A k \in 1 .. Len(events) : \E u \in 1 .. start - 1 : events[k] = h[u]
  <2>1. \A k \in 1 .. Len(part) : Len(part) - k + 1 \in 1 .. Len(part)
    BY <1>6
  <2>2. \A u \in g .. to : u \in 1 .. start - 1
    BY <1>2, <1>4
  <2>3. ASSUME NEW k \in 1 .. Len(events) PROVE \E u \in 1 .. start - 1 : events[k] = h[u]
    <3>1. PICK j : j = Len(part) - k + 1
      OBVIOUS
    <3>2. j \in 1 .. Len(part) /\ events[k] = part[j]
      BY <1>7, <2>1, <3>1
    <3>3. PICK u \in g .. to : part[j] = h[u]
      BY <1>8, <3>2
    <3> QED BY <2>2, <3>2, <3>3
  <2> QED BY <2>3
<1>10. NotLast(list, events) = events
  BY <1>9, PageIsNew
<1>11. l = part \o list
  BY <1>7, <1>10 DEF Shown
<1>12. Leads(part, h, g, start)
  <2>1. part # <<>> /\ part[1] = h[g]
    <3>1. PICK rest : rest = Between(h, g + 1, to)
      OBVIOUS
    <3>2. part = <<h[g]>> \o rest /\ rest \in Seq(Plain)
      BY <1>1, <1>4, <1>5, <3>1, BetweenAround
    <3>3. PICK e : e = h[g]
      OBVIOUS
    <3>4. e \in Plain
      <4>1. g \in 1 .. Len(h)
        BY <1>4
      <4> QED BY <3>3, <4>1, Places
    <3>5. part = <<e>> \o rest
      BY <3>2, <3>3
    <3> QED BY <3>2, <3>3, <3>4, <3>5
  <2>2. Messages(part) = part
    BY <1>4, <1>5, BetweenMessages
  <2> QED BY <1>2, <1>8, <2>1, <2>2 DEF Leads
<1>13. Whole(l, h, prev, since, g) /\ l # <<>>
  BY <1>1, <1>4, <1>6, <1>11, <1>12, WholePrepended
<1> QED BY <1>4, <1>13

\* What the database has found is shown before the list; if it was nothing the list
\* has every message that is stored.
LEMMA PastLoadedListed ==
  ASSUME TypeInv, NEW lo \in Nat, NEW hi \in Nat, Stored(lo, hi), NEW start \in Nat, Listed(start),
         PastLoaded
  PROVE  \E s \in Nat : Listed(s)'
<1>1. PICK events \in Seq(Plain) :
        /\ Still /\ done # <<>> /\ done' = Tail(done) /\ message' = message /\ client' = client
        /\ Head(done) = done[1] /\ 1 \in DOMAIN done /\ done[1].task.then = "past"
        /\ events = done[1].result /\ shown' = PastShown(shown, events)
        /\ shown'.list = IF events = <<>> THEN shown.list ELSE Shown(shown.list, events, FALSE)
        /\ shown'.loading = IF events = <<>> /\ shown.prev_batch # NULL THEN "server" ELSE "no"
        /\ shown'.from = IF events = <<>> /\ shown.prev_batch # NULL THEN shown.prev_batch
                         ELSE shown.from
  BY PastLoadedIs
<1>2. PICK h, list, since, prev, loading :
        /\ h = history /\ list = shown.list /\ since = client.since /\ loading = shown'.loading
        /\ prev = Place(shown.prev_batch)
  OBVIOUS
<1>3. /\ IsHistory(h) /\ prev \in Nat /\ since \in Nat /\ since <= Len(h) /\ list \in Seq(Plain)
      /\ Whole(list, h, prev, since, start) /\ Asked(queue, list, since, start) /\ NoRoom(db)
      /\ Answered(done, h, prev, start, shown.loading)
  <2>1. list \in Seq(Plain)
    BY <1>2 DEF TypeInv, IsShown
  <2>2. prev \in 0 .. lo
    BY <1>2, Bounds
  <2> QED BY <1>2, <2>1, <2>2, Bounds DEF Listed
<1>4. IsPage(events, h, prev, start)
  BY <1>1, <1>3 DEF Answered
<1>5. /\ history' = h /\ client'.since = since /\ shown'.prev_batch = shown.prev_batch /\ db' = db
      /\ queue' = queue
  BY <1>1, <1>2 DEF Still
<1>6. "past" \notin Thens(queue) /\ \A i \in DOMAIN done' : done'[i].task.then # "past"
  <2>1. "past" \in DoneThens(done) /\ Alone(queue, done)
    BY <1>1 DEF DoneThens, TypeInv
  <2>2. "past" \notin Thens(queue)
    BY <2>1 DEF Alone
  <2>3. Narrower(DoneThens(Tail(done)), DoneThens(done), done[1].task.then)
    <3>1. PICK e, r : e = Head(done) /\ r = Tail(done)
      OBVIOUS
    <3>2. Narrower(DoneThens(r), DoneThens(done), e.task.then)
      BY <1>1, <3>1, DoneTaken DEF TypeInv
    <3> QED BY <1>1, <3>1, <3>2
  <2>4. "past" \notin DoneThens(done')
    BY <1>1, <2>3 DEF Narrower
  <2>5. \A i \in DOMAIN done' : done'[i].task.then \in DoneThens(done')
    BY DEF DoneThens
  <2> QED BY <2>2, <2>4, <2>5
<1>7. CASE events = <<>>
  <2>1. Quiet(h, prev + 1, start - 1)
    BY <1>4, <1>7 DEF IsPage
  <2>2. Answered(done', h, prev, start, loading)
    BY <1>6, <2>1 DEF Answered
  <2>3. shown'.list = list
    BY <1>1, <1>2, <1>7
  <2>4. Listed(start)'
    BY <1>2, <1>3, <1>5, <2>2, <2>3 DEF Listed
  <2> QED BY <2>4
<1>8. CASE events # <<>>
  <2>1. PICK l : l = Shown(list, events, FALSE)
    OBVIOUS
  <2>2. shown'.list = l /\ loading = "no"
    BY <1>1, <1>2, <1>8, <2>1
  <2>3. PICK g \in Nat : Whole(l, h, prev, since, g) /\ l # <<>>
    BY <1>3, <1>4, <1>8, <2>1, PageShown
  <2>4. Answered(done', h, prev, g, loading)
    BY <1>6, <2>2 DEF Answered
  <2>5. Asked(queue, l, since, g)
    BY <1>6, <2>3, AskedNone
  <2>6. Listed(g)'
    BY <1>2, <1>3, <1>5, <2>2, <2>3, <2>4, <2>5 DEF Listed
  <2> QED BY <2>6
<1> QED BY <1>7, <1>8

\* Nothing is added to a list.
LEMMA NoneJoined ==
  ASSUME NEW s \in Seq(Plain)
  PROVE  <<>> \o s = s /\ s \o <<>> = s
<1> QED OBVIOUS

\* An answer to /messages, newest event first
IsChunk(events, h, begin, lo) == events = Reverse(SubSeq(h, begin + 1, lo))

\* The list after an answer to /messages, which comes before what is stored
LEMMA ChunkShown ==
  ASSUME NEW h, IsHistory(h), NEW since \in Nat, since <= Len(h), NEW list \in Seq(Plain),
         NEW lo \in Nat, NEW start \in Nat, Whole(list, h, lo, since, start),
         Quiet(h, lo + 1, start - 1), NEW begin \in Nat, begin <= lo,
         NEW events, IsChunk(events, h, begin, lo)
  PROVE  \E g \in Nat : /\ Whole(Reverse(events) \o list, h, begin, since, g)
                        /\ Reverse(events) \o list = <<>> => list = <<>>
<1> PICK l : l = Reverse(events) \o list
  OBVIOUS
<1>1. PICK from, part, to : from = begin + 1 /\ part = SubSeq(h, from, lo) /\ to = start - 1
  OBVIOUS
<1>2. /\ start \in lo + 1 .. since + 1 /\ Len(h) \in Nat
      /\ Messages(list) = Between(h, start, since)
  BY Places DEF Whole
<1>3. /\ from \in Nat /\ from > 0 /\ lo \in 0 .. Len(h) /\ to \in Nat /\ to <= Len(h)
      /\ to \in 0 .. Len(h) /\ lo <= to /\ from <= lo + 1
  BY <1>1, <1>2
<1>4. /\ part \in Seq(Plain) /\ Len(part) = IF from <= lo THEN lo - from + 1 ELSE 0
      /\ \A i \in 1 .. Len(part) : part[i] = h[from + i - 1] /\ from + i - 1 \in from .. lo
  <2>1. /\ SubSeq(h, from, lo) \in Seq(Plain)
        /\ Len(SubSeq(h, from, lo)) = IF from <= lo THEN lo - from + 1 ELSE 0
        /\ \A i \in 1 .. Len(SubSeq(h, from, lo)) :
             SubSeq(h, from, lo)[i] = h[from + i - 1] /\ from + i - 1 \in from .. lo
    BY <1>3, PartIs
  <2> QED BY <1>1, <2>1
<1>5. Reverse(events) = part
  <2>1. events = Reverse(part)
    BY <1>1 DEF IsChunk
  <2> QED BY <1>4, <2>1, Backwards
<1>6. l = part \o list
  BY <1>5
<1>7. CASE begin = lo
  <2>1. Len(part) = 0
    BY <1>1, <1>3, <1>4, <1>7
  <2>2. part = <<>>
    BY <1>4, <2>1
  <2>3. l = list
    BY <1>6, <2>2, NoneJoined
  <2>4. start \in Nat /\ Whole(l, h, begin, since, start)
    BY <1>7, <2>3
  <2> QED BY <2>3, <2>4
<1>8. CASE begin < lo
  <2>1. from < start /\ from <= lo /\ begin < from /\ start \in Nat
    BY <1>1, <1>2, <1>8
  <2>2. Len(part) = lo - from + 1 /\ lo - from + 1 > 0
    BY <1>3, <1>4, <2>1
  <2>3. Len(part) > 0
    BY <2>2
  <2>4. part # <<>>
    BY <2>3, NotEmpty
  <2>5. part[1] = h[from]
    <3>1. 1 \in 1 .. Len(part)
      BY <1>4, <2>3
    <3>2. from + 1 - 1 = from
      BY <1>3
    <3> QED BY <1>4, <3>1, <3>2
  <2>6. \A i \in 1 .. Len(part) : \E u \in from .. start - 1 : part[i] = h[u]
    <3>1. \A u \in from .. lo : u \in from .. start - 1
      BY <1>2, <1>3
    <3> QED BY <1>4, <3>1
  <2>7. Messages(part) = Between(h, from, start - 1)
    <3>1. Messages(part) = Between(h, from, lo)
      BY <1>1 DEF Between
    <3>2. Between(h, from, to) = Between(h, from, lo) \o Between(h, lo + 1, to)
      BY <1>3, BetweenSplit
    <3>3. Between(h, lo + 1, to) = <<>>
      <4>1. PICK next : next = lo + 1
        OBVIOUS
      <4>2. next \in Nat /\ next > 0
        BY <4>1
      <4>3. Quiet(h, next, to)
        BY <1>1, <4>1
      <4> QED BY <1>3, <4>1, <4>2, <4>3, BetweenQuiet
    <3>4. Between(h, from, lo) \in Seq(Plain)
      BY <1>3, BetweenTyped
    <3>5. Between(h, from, to) = Between(h, from, lo)
      BY <3>2, <3>3, <3>4, NoneJoined
    <3> QED BY <1>1, <3>1, <3>5
  <2>8. Leads(part, h, from, start)
    BY <2>4, <2>5, <2>6, <2>7 DEF Leads
  <2>9. Quiet(h, begin + 1, from - 1)
    <3>1. begin + 1 .. from - 1 = {}
      BY <1>1
    <3> QED BY <3>1 DEF Quiet
  <2>10. Whole(l, h, begin, since, from) /\ l # <<>>
    BY <1>3, <1>4, <1>6, <2>1, <2>8, <2>9, WholePrepended
  <2> QED BY <1>1, <1>3, <2>10
<1>9. begin = lo \/ begin < lo
  OBVIOUS
<1> QED BY <1>7, <1>8, <1>9, Zenon

\* The events of an answer to /messages are shown before the list.
LEMMA HistoryLoadedListed ==
  ASSUME TypeInv, NEW lo \in Nat, NEW hi \in Nat, Stored(lo, hi), NEW start \in Nat, Listed(start),
         HistoryLoaded
  PROVE  \E s \in Nat : Listed(s)'
<1>1. PICK end, prev, list, new, q1 :
        ChunkStep(end, prev, list, new, q1) /\ ChunkParts(end, prev, list, new, q1)
  BY HistoryLoadedIs
<1>2. PICK h, since : h = history /\ since = client.since
  OBVIOUS
<1>3. /\ lo <= hi /\ hi <= since /\ since \in Nat /\ since <= Len(h) /\ Len(h) \in Nat
      /\ IsHistory(h) /\ Piece(db.events[room], h, lo, hi) /\ DOMAIN h = 1 .. Len(h)
      /\ Place(shown.prev_batch) \in 0 .. lo
  BY <1>2, Bounds
<1>4. shown.loading = "server" /\ since # 0
  BY <1>1, <1>2 DEF ChunkStep, Stored, Fresh
<1>5. "loaded" \notin Thens(queue)
  BY <1>4 DEF TypeInv, Flags
<1>6. Adds(queue, h, since, lo, lo, hi) /\ Place(shown.prev_batch) = lo /\ shown.from = lo
  <2>1. Place(shown.prev_batch) = lo
    BY <1>5 DEF Stored, Rest, Adds
  <2>2. shown.from = shown.prev_batch /\ shown.from # NULL
    BY <1>4 DEF Stored, Tokened, TypeInv, IsShown
  <2>3. shown.from = lo
    BY <2>1, <2>2 DEF Place
  <2> QED BY <1>2, <2>1, <2>3 DEF Stored, Rest
<1>7. PICK begin \in 0 .. lo :
        /\ Chunk = Reverse(SubSeq(h, begin + 1, lo)) /\ Chunk \in Seq(Plain)
        /\ Len(Chunk) = lo - begin /\ (lo > 0 => begin < lo)
  <2>1. shown.from \in 0 .. Len(h)
    BY <1>3, <1>6
  <2>2. \E begin \in 0 .. shown.from :
           /\ Chunk = Reverse(SubSeq(h, begin + 1, shown.from)) /\ Chunk \in Seq(Plain)
           /\ Len(Chunk) = shown.from - begin
           /\ shown.from > 0 => begin < shown.from
    BY <1>2, <1>3, <2>1, ChunkIs
  <2> QED BY <1>6, <2>2
<1>8. PICK events : events = Chunk
  OBVIOUS
<1>9. /\ events \in Seq(Plain) /\ Len(events) = lo - begin
      /\ events = Reverse(SubSeq(h, begin + 1, lo))
      /\ \A k \in 1 .. lo - begin : events[k] = h[lo - k + 1]
  <2>1. lo \in 0 .. Len(h)
    BY <1>3
  <2>2. PICK es \in Seq(Plain) :
           /\ es = Reverse(SubSeq(h, begin + 1, lo)) /\ Len(es) = lo - begin
           /\ \A k \in 1 .. lo - begin : es[k] = h[lo - k + 1]
    BY <1>3, <2>1, PartBackwards
  <2> QED BY <1>7, <1>8, <2>2
<1>10. begin \in Nat /\ begin <= lo /\ Place(prev) = begin
  <2>1. end = begin /\ prev = IF end = shown.from THEN NULL ELSE end
    BY <1>1, <1>6, <1>7 DEF ChunkStep
  <2>2. begin = lo => begin = 0
    BY <1>7
  <2>3. begin # NULL
    <3>1. begin \in Token
      BY <1>3, HistoryAssumption, BoundsAssumption DEF IsHistory
    <3> QED BY <3>1, NamesAssumption
  <2> QED BY <1>6, <2>1, <2>2, <2>3 DEF Place
<1>11. \A i \in DOMAIN h : h[i].txn # NULL => i > lo
  BY <1>2 DEF Stored, Tokened
<1>12. shown.list \in Seq(Plain) /\ Lists(shown.list, h, lo, since, message)
  BY <1>2, <1>6, ContentsAre
<1>13. \A k \in 1 .. Len(events) : lo - k + 1 \in 1 .. lo /\ lo - k + 1 \in 1 .. Len(h)
                                    /\ lo - k + 1 \in begin + 1 .. since
  BY <1>3, <1>9
<1>14. list = shown.list /\ new = events
  <2>1. Before(events, h, lo)
    BY <1>9, <1>11, <1>13 DEF Before
  <2>2. WithoutEchoes(shown.list, events) = shown.list /\ NotLast(shown.list, events) = events
    BY <1>3, <1>9, <1>12, <2>1, ChunkIsNew
  <2> QED BY <1>1, <1>8, <2>2 DEF ChunkStep
<1>15. PICK listed, loading :
         listed = Shown(list, Chunk, FALSE) /\ loading = IF new = <<>> THEN "no" ELSE "storing"
  OBVIOUS
<1>16. /\ history' = history /\ client' = client /\ message' = message /\ db' = db /\ done' = done
       /\ shown'.prev_batch = prev /\ shown'.list = listed /\ shown'.loading # "server"
  <2>1. {"list", "loading", "from", "prev_batch"} \subseteq DOMAIN shown
    BY DEF TypeInv, IsShown
  <2>2. shown' = [shown EXCEPT !.prev_batch = prev, !.list = listed, !.loading = loading]
    BY <1>1, <1>15 DEF ChunkStep
  <2>3. loading # "server"
    BY <1>15
  <2>4. shown'.prev_batch = prev /\ shown'.list = listed /\ shown'.loading = loading
    BY <2>1, <2>2
  <2> QED BY <1>1, <2>3, <2>4 DEF ChunkStep
<1>17. /\ Whole(shown.list, h, lo, since, start) /\ Asked(queue, shown.list, since, start)
       /\ Quiet(h, lo + 1, start - 1) /\ NoRoom(db)
  BY <1>2, <1>4, <1>6 DEF Listed, Answered
<1>18. NotLast(shown.list, events) = events /\ listed = Shown(shown.list, events, FALSE)
  <2>1. NotLast(list, Chunk) = new
    BY <1>1 DEF ChunkStep
  <2> QED BY <1>8, <1>14, <1>15, <2>1
<1>19. PICK g \in Nat : Whole(listed, h, begin, since, g) /\ (listed = <<>> => shown.list = <<>>)
  <2>1. PICK old : old = shown.list
    OBVIOUS
  <2>2. /\ IsHistory(h) /\ since \in Nat /\ since <= Len(h) /\ old \in Seq(Plain)
        /\ begin \in Nat /\ begin <= lo /\ events = Reverse(SubSeq(h, begin + 1, lo))
    BY <1>3, <1>9, <1>10, <1>12, <2>1
  <2>3. /\ Whole(old, h, lo, since, start) /\ Quiet(h, lo + 1, start - 1)
        /\ NotLast(old, events) = events /\ listed = Shown(old, events, FALSE)
    BY <1>17, <1>18, <2>1
  <2>4. \E g \in Nat : Whole(listed, h, begin, since, g) /\ (listed = <<>> => old = <<>>)
    <3>1. IsChunk(events, h, begin, lo)
      BY <2>2 DEF IsChunk
    <3>2. listed = Reverse(events) \o old
      BY <2>3 DEF Shown
    <3>3. PICK low, from : low = lo /\ from = start
      OBVIOUS
    <3>4. /\ low \in Nat /\ from \in Nat /\ begin <= low /\ IsChunk(events, h, begin, low)
          /\ Whole(old, h, low, since, from) /\ Quiet(h, low + 1, from - 1)
      BY <2>2, <2>3, <3>1, <3>3
    <3>5. \E g \in Nat : /\ Whole(Reverse(events) \o old, h, begin, since, g)
                         /\ Reverse(events) \o old = <<>> => old = <<>>
      BY <2>2, <3>4, ChunkShown
    <3> QED BY <3>2, <3>5
  <2> QED BY <2>1, <2>4
<1>21. /\ "past" \notin Thens(queue') /\ "past" \notin DoneThens(done)
       /\ ("next sync" \in Thens(queue') => "next sync" \in Thens(queue))
  <2>1. "past" \notin Thens(queue) /\ "past" \notin DoneThens(done)
    BY <1>4 DEF TypeInv, Flags
  <2>2. Thens(q1) = Thens(queue) \cup {"nothing"}
    BY <1>1 DEF ChunkParts, Wider
  <2>3. Thens(queue') = Thens(q1) \/ Thens(queue') = Thens(q1) \cup {"loaded"}
    BY <1>1 DEF ChunkParts, Wider
  <2>4. "past" \notin Thens(q1)
    BY <2>1, <2>2
  <2>5. "past" \notin Thens(queue')
    BY <2>3, <2>4
  <2>6. "next sync" \in Thens(q1) => "next sync" \in Thens(queue)
    BY <2>2
  <2>7. "next sync" \in Thens(queue') => "next sync" \in Thens(q1)
    <3>1. "next sync" # "loaded"
      OBVIOUS
    <3>2. CASE Thens(queue') = Thens(q1)
      BY <3>2
    <3>3. CASE Thens(queue') = Thens(q1) \cup {"loaded"}
      BY <3>1, <3>3, Zenon
    <3> QED BY <2>3, <3>2, <3>3
  <2> QED BY <2>1, <2>5, <2>6, <2>7, Zenon
<1>22. Asked(queue', listed, since, g)
  <2>1. listed = <<>> => "next sync" \notin Thens(queue')
    BY <1>17, <1>19, <1>21 DEF Asked
  <2>2. PICK q : q = queue'
    OBVIOUS
  <2>3. Asked(q, listed, since, g)
    BY <1>21, <2>1, <2>2, AskedNone
  <2> QED BY <2>2, <2>3
<1>23. Answered(done, h, begin, g, shown'.loading)
  <2>1. \A i \in DOMAIN done : done[i].task.then # "past"
    BY <1>21 DEF DoneThens
  <2> QED BY <1>16, <2>1 DEF Answered
<1>24. Listed(g)'
  BY <1>2, <1>10, <1>16, <1>17, <1>19, <1>22, <1>23 DEF Listed
<1> QED BY <1>24

\* A list without an event, with no message after prev
LEMMA WholeNone ==
  ASSUME NEW h, IsHistory(h), NEW prev \in Nat, NEW since \in Nat, prev <= since, since <= Len(h),
         Quiet(h, prev + 1, since), NEW list, list = <<>>
  PROVE  Whole(list, h, prev, since, since + 1)
<1>1. PICK start : start = since + 1
  OBVIOUS
<1>2. /\ start \in Nat /\ start > 0 /\ start > since /\ start - 1 = since
      /\ start \in prev + 1 .. since + 1 /\ since \in 0 .. Len(h)
  BY <1>1, Places
<1>3. Between(h, start, since) = <<>>
  BY <1>2, BetweenTyped
<1>4. Messages(list) = <<>>
  <2>1. list \in Seq(Plain) /\ \A i \in DOMAIN list : list[i].message
    OBVIOUS
  <2> QED BY <2>1, MessagesAll
<1>5. Quiet(h, prev + 1, start - 1)
  BY <1>2
<1>6. \A i \in DOMAIN list : FALSE
  OBVIOUS
<1>7. Whole(list, h, prev, since, start)
  BY <1>1, <1>2, <1>3, <1>4, <1>5, <1>6 DEF Whole
<1> QED BY <1>1, <1>7

\* The newest message, after which there is none
LEMMA NewestIs ==
  ASSUME NEW h, IsHistory(h), NEW g \in Nat, g > 0, NEW hi \in Nat, hi <= Len(h), g <= hi,
         NEW past, past = Reverse(Between(h, g, hi)), past # <<>>
  PROVE  \E u \in g .. hi : past[1] = h[u] /\ h[u].message /\ Between(h, u, hi) = <<h[u]>>
<1>1. PICK part, n : part = Between(h, g, hi) /\ n = Len(part)
  OBVIOUS
<1>2. Len(h) \in Nat /\ hi \in 0 .. Len(h) /\ g <= hi + 1
      /\ \A i \in 1 .. Len(h) : h[i] \in Plain /\ h[i].uid = i
  BY Places
<1>3. part \in Seq(Plain) /\ n \in Nat
  BY <1>1, <1>2, BetweenTyped
<1>4. /\ Len(Reverse(part)) = n /\ Reverse(part) \in Seq(Plain)
      /\ \A i \in 1 .. n : Reverse(part)[i] = part[n - i + 1]
  BY <1>1, <1>3, Backwards
<1>5. n > 0 /\ past[1] = part[n]
  <2>1. past = Reverse(part)
    BY <1>1
  <2>2. n > 0
    BY <1>3, <1>4, <2>1
  <2>3. 1 \in 1 .. n /\ n - 1 + 1 = n
    BY <1>3, <2>2
  <2> QED BY <1>4, <2>1, <2>2, <2>3
<1>6. \A i \in 1 .. n : \E u \in g .. hi : part[i] = h[u] /\ h[u].message
  <2>1. \A i \in 1 .. Len(Between(h, g, hi)) :
          \E u \in g .. hi : Between(h, g, hi)[i] = h[u] /\ h[u].message
    BY <1>2, BetweenShows
  <2> QED BY <1>1, <2>1
<1>7. PICK u \in g .. hi : part[n] = h[u] /\ h[u].message
  <2>1. n \in 1 .. n
    BY <1>3, <1>5
  <2> QED BY <1>6, <2>1
<1>8. PICK before, rest : before = Between(h, g, u - 1) /\ rest = Between(h, u + 1, hi)
  OBVIOUS
<1>9. /\ part = (before \o <<h[u]>>) \o rest /\ before \in Seq(Plain) /\ rest \in Seq(Plain)
      /\ Between(h, u, hi) = <<h[u]>> \o rest
  BY <1>1, <1>2, <1>7, <1>8, BetweenAround
<1>10. u \in 1 .. Len(h) /\ u \in Nat
  BY <1>2
<1>11. PICK e : e = h[u]
  OBVIOUS
<1>12. e \in Plain /\ e.uid = u
  BY <1>2, <1>10, <1>11
<1>13. rest = <<>>
  <2>1. ASSUME rest # <<>> PROVE FALSE
    <3>1. PICK k, m : k = Len(rest) /\ m = Len(before)
      OBVIOUS
    <3>2. k \in Nat /\ k > 0 /\ m \in Nat
      BY <1>9, <2>1, <3>1
    <3>3. Len(part) = m + 1 + k /\ \A j \in 1 .. k : part[m + 1 + j] = rest[j]
      BY <1>9, <1>11, <1>12, <3>1, MiddleIs
    <3>4. part[n] = rest[k]
      <4>1. k \in 1 .. k /\ n = m + 1 + k
        BY <1>1, <3>2, <3>3
      <4> QED BY <3>3, <4>1
    <3>5. PICK next : next = u + 1
      OBVIOUS
    <3>6. next \in Nat /\ next > 0 /\ next <= hi + 1 /\ k \in 1 .. k
      BY <1>10, <3>2, <3>5
    <3>7. \A j \in 1 .. k : \E w \in next .. hi : rest[j] = h[w] /\ h[w].message
      BY <1>8, <3>1, <3>5, <3>6, BetweenShows
    <3>8. PICK w \in next .. hi : rest[k] = h[w]
      BY <3>6, <3>7
    <3>9. w \in 1 .. Len(h) /\ w # u
      BY <1>2, <1>10, <3>5
    <3>10. h[w].uid = w
      BY <1>2, <3>9
    <3> QED BY <1>7, <1>11, <1>12, <3>4, <3>8, <3>9, <3>10
  <2> QED BY <2>1
<1>14. Between(h, u, hi) = <<h[u]>>
  BY <1>9, <1>11, <1>12, <1>13
<1> QED BY <1>5, <1>7, <1>14

\* A list of one message
LEMMA WholeOne ==
  ASSUME NEW h, IsHistory(h), NEW prev \in Nat, NEW since \in Nat, since <= Len(h), NEW u \in Nat,
         prev < u, u <= since, h[u].message, Between(h, u, since) = <<h[u]>>,
         NEW list \in Seq(Plain), Len(list) = 1, list[1] = h[u]
  PROVE  Whole(list, h, prev, since, u)
<1>1. u \in prev + 1 .. since + 1 /\ u \in 1 .. Len(h) /\ u \in u - 1 + 1 .. since
  BY Places
<1>2. h[u].uid = u /\ h[u] \in Plain
  BY <1>1, Places
<1>3. \A i \in DOMAIN list : i = 1
  OBVIOUS
<1>4. IsSynced(list[1], h, u - 1, since)
  BY <1>1, <1>2 DEF IsSynced
<1>5. list # <<>> /\ list = <<h[u]>>
  OBVIOUS
<1>6. Messages(list) = list
  BY <1>3, MessagesAll
<1>7. \A i \in DOMAIN list : IsSynced(list[i], h, u - 1, since) \/ IsEcho(list[i], h, since)
  BY <1>3, <1>4
<1>8. Messages(list) = Between(h, u, since)
  BY <1>5, <1>6
<1> QED BY <1>1, <1>5, <1>7, <1>8 DEF Whole

\* The list that is loaded: the newest message, if there is one
LEMMA LastWhole ==
  ASSUME TypeInv, NEW h, IsHistory(h), NEW lo \in Nat, NEW hi \in Nat, lo <= hi, hi <= Len(h),
         Piece(db.events[room], h, lo, hi), NEW r, r = LoadRoom(db, room)
  PROVE  \E s \in Nat : Whole(r.last, h, lo, hi, s)
<1>1. r.last = IF db.events[room] = {} THEN <<>>
               ELSE First(PastEvents(db, room, LastId(db, room), FALSE))
  BY DEF LoadRoom, First
<1>2. IsRows(db.events[room])
  BY DEF TypeInv, IsTables
<1>3. PICK start : start = hi + 1
  OBVIOUS
<1>4. start \in Nat /\ start \in lo + 1 .. hi + 1 /\ hi \in lo .. hi /\ start - 1 = hi
  BY <1>3
<1>5. PICK last : last = r.last
  OBVIOUS
<1>6. ASSUME last = <<>>, Quiet(h, lo + 1, hi) PROVE \E s \in Nat : Whole(r.last, h, lo, hi, s)
  <2>1. Whole(last, h, lo, hi, start)
    BY <1>3, <1>6, WholeNone
  <2> QED BY <1>4, <1>5, <2>1
<1>7. CASE db.events[room] = {}
  <2>1. \A u \in lo + 1 .. hi : FALSE
    BY <1>7 DEF Piece
  <2>2. Quiet(h, lo + 1, hi)
    BY <2>1 DEF Quiet
  <2> QED BY <1>1, <1>5, <1>6, <1>7, <2>2
<1>8. CASE db.events[room] # {}
  <2>1. PICK sorted, skip : sorted = LastId(db, room) /\ skip = FALSE
    OBVIOUS
  <2>2. sorted \in Int /\ \A row \in db.events[room] : row.sorted_id <= sorted
    BY <1>2, <1>8, <2>1, LastIdIs
  <2>3. PICK past : past = PastEvents(db, room, sorted, skip)
    OBVIOUS
  <2>4. \A row \in db.events[room] :
          row.event.uid # NULL => (row.sorted_id <= sorted <=> row.event.uid <= hi)
    <3>1. \A row \in db.events[room] : row.event.uid # NULL => row.event.uid <= hi
      BY DEF Piece
    <3> QED BY <2>2, <3>1
  <2>5. skip \in BOOLEAN
    BY <2>1
  <2>6. start \in lo + 1 .. hi + 1 /\ (IF skip THEN start = hi /\ (h[hi].message
          \/ Quiet(h, lo + 1, start - 1)) ELSE start = hi + 1)
    BY <1>3, <1>4, <2>1
  <2>7. IsPage(past, h, lo, start)
    BY <1>2, <1>4, <2>2, <2>3, <2>4, <2>5, <2>6, PageOf
  <2>8. past \in Seq(Plain)
    BY <1>2, <2>2, <2>3, <2>5, PastTyped
  <2>9. last = First(past)
    <3>1. First(past) = First(PastEvents(db, room, LastId(db, room), FALSE))
      BY <2>1, <2>3
    <3> QED BY <1>1, <1>5, <1>8, <3>1
  <2>10. /\ last \in Seq(Plain) /\ Len(last) = (IF past = <<>> THEN 0 ELSE 1)
         /\ past # <<>> => last[1] = past[1]
    BY <2>8, <2>9, FirstIs
  <2>11. PICK g \in lo + 1 .. start :
           /\ past = Reverse(Between(h, g, start - 1))
           /\ IF past = <<>> THEN Quiet(h, lo + 1, start - 1) ELSE g < start /\ h[g].message
    BY <2>7 DEF IsPage
  <2>12. CASE past = <<>>
    <3>1. Len(last) = 0
      BY <2>10, <2>12
    <3>2. last = <<>>
      BY <2>10, <3>1
    <3>3. Quiet(h, lo + 1, hi)
      BY <1>4, <2>11, <2>12
    <3> QED BY <1>6, <3>2, <3>3
  <2>13. CASE past # <<>>
    <3>1. past = Reverse(Between(h, g, hi)) /\ g \in Nat /\ g > 0 /\ g <= hi
      <4>1. g < start
        BY <2>11, <2>13
      <4>2. g \in Nat /\ g > 0 /\ g <= hi
        BY <1>3, <4>1
      <4> QED BY <1>4, <2>11, <4>2
    <3>2. PICK u \in g .. hi : past[1] = h[u] /\ h[u].message /\ Between(h, u, hi) = <<h[u]>>
      BY <2>13, <3>1, NewestIs
    <3>3. u \in Nat /\ lo < u /\ u <= hi
      BY <3>1
    <3>4. last \in Seq(Plain) /\ Len(last) = 1 /\ last[1] = h[u]
      BY <2>10, <2>13, <3>2
    <3>5. Whole(last, h, lo, hi, u)
      BY <3>2, <3>3, <3>4, WholeOne
    <3> QED BY <1>5, <3>3, <3>5
  <2> QED BY <2>12, <2>13
<1> QED BY <1>7, <1>8

\* A client that has stored everything begins with the newest message.
LEMMA RestartListed ==
  ASSUME TypeInv, NEW lo \in Nat, NEW hi \in Nat, Stored(lo, hi), NEW start \in Nat, Listed(start),
         ~Crashes, Restart
  PROVE  \E s \in Nat : Listed(s)'
<1>1. /\ history' = history /\ db' = db /\ queue' = <<>> /\ done' = <<>>
      /\ client' = [since |-> Place(db.next_batch), sync |-> "listing", saving |-> "no",
                    starts |-> client.starts + 1, empty |-> client.empty]
      /\ shown' = Restored
      /\ message' = [x \in Txn |-> IF message[x] \in Under THEN "failed" ELSE message[x]]
      /\ queue = <<>> /\ done = <<>>
  BY RestartIs
<1>2. Thens(queue) = {} /\ DoneThens(done) = {} /\ DOMAIN queue = {} /\ DOMAIN done = {}
  BY <1>1 DEF Thens, DoneThens
<1>3. client.saving = "no"
  BY <1>2 DEF TypeInv, Flags
<1>4. Place(db.next_batch) = client.since
  BY <1>3 DEF Stored, Saves, ClientSaves
<1>5. client'.since = client.since /\ client'.saving = "no"
  BY <1>1, <1>4
<1>6. hi = client.since /\ lo = Place(shown.prev_batch)
  BY <1>2 DEF Stored, Rest, Adds
<1>7. db.prev_batch[room] = shown.prev_batch
  BY <1>2 DEF Stored, Saves, RoomSaves
<1>8. client.since \in Nat /\ lo <= hi /\ Piece(db.events[room], history, lo, hi)
      /\ IsHistory(history) /\ hi <= Len(history) /\ client.since <= Len(history)
  BY Bounds
<1>9. PICK r : r = LoadRoom(db, room)
  OBVIOUS
<1>10. /\ Len(r.last) <= 1 /\ r.last \in Seq(Plain)
       /\ \A k \in DOMAIN r.last : IsSynced(r.last[k], history, lo, hi)
       /\ db.events[room] = {} => r.last = <<>> /\ r.prev_batch = db.next_batch
       /\ db.events[room] # {} => r.prev_batch = db.prev_batch[room]
  BY <1>8, <1>9, LastSynced
<1>11. \/ room \in DOMAIN LoadClient(db).result.rooms
          /\ shown'.list = r.last /\ shown'.prev_batch = r.prev_batch /\ shown'.loading = "no"
       \/ room \notin DOMAIN LoadClient(db).result.rooms
          /\ shown'.list = <<>> /\ shown'.prev_batch = NULL /\ shown'.loading = "no"
  <2>1. shown' = IF room \in DOMAIN LoadClient(db).result.rooms
                 THEN [NewRoom EXCEPT !.list = r.last, !.prev_batch = r.prev_batch,
                                      !.synced = r.synced, !.joined = TRUE]
                 ELSE NewRoom
    BY <1>1, <1>9 DEF Restored
  <2> QED BY <2>1 DEF NewRoom
<1>12. PICK list : list = shown'.list
  OBVIOUS
<1>13. /\ shown'.prev_batch = shown.prev_batch /\ shown'.loading = "no"
       /\ list \in Seq(Plain) /\ Len(list) <= 1
       /\ \A k \in DOMAIN list : IsSynced(list[k], history, lo, hi)
       /\ client.since = 0 => list = <<>>
  <2>1. CASE client.since = 0
    <3>1. shown.prev_batch = NULL /\ db.next_batch = NULL /\ db.events[room] = {}
      BY <2>1 DEF Stored, Fresh
    <3> QED BY <1>10, <1>11, <1>12, <3>1
  <2>2. CASE client.since # 0
    <3>1. room \in db.rooms
      BY <1>2, <1>8, <2>2 DEF Stored, RoomFirst, HasRoom
    <3>2. room \notin db.replaced /\ db.state[room] = "join"
      BY <3>1 DEF Stored, RoomFirst
    <3>3. room \in DOMAIN LoadClient(db).result.rooms
      BY <3>1, <3>2, LoadedIs
    <3>4. db.events[room] # {}
      <4>1. lo < hi
        BY <1>6, <1>8, <2>2 DEF Stored, Tokened
      <4>2. hi \in lo + 1 .. hi
        BY <1>8, <4>1
      <4> QED BY <1>8, <4>2 DEF Piece
    <3> QED BY <1>7, <1>10, <1>11, <1>12, <2>2, <3>3, <3>4
  <2> QED BY <2>1, <2>2
<1>14. PICK h, since, loading, d :
         h = history /\ since = client.since /\ loading = shown'.loading /\ d = done'
  OBVIOUS
<1>15. IsHistory(h) /\ since \in Nat /\ lo <= since /\ since <= Len(h) /\ hi = since
  BY <1>6, <1>8, <1>14
<1>16. \E s \in Nat : Whole(list, h, lo, since, s)
  <2>1. CASE since = 0
    <3>1. list = <<>>
      BY <1>13, <1>14, <2>1
    <3>2. \A u \in lo + 1 .. since : FALSE
      BY <1>15, <2>1
    <3>3. Quiet(h, lo + 1, since)
      BY <3>2 DEF Quiet
    <3>4. PICK s : s = since + 1
      OBVIOUS
    <3>5. Whole(list, h, lo, since, s)
      BY <1>15, <3>1, <3>3, <3>4, WholeNone
    <3>6. s \in Nat
      BY <1>15, <3>4
    <3> QED BY <3>5, <3>6
  <2>2. CASE since # 0
    <3>1. room \in db.rooms
      BY <1>2, <1>14, <1>15, <2>2 DEF Stored, RoomFirst, HasRoom
    <3>2. room \notin db.replaced /\ db.state[room] = "join"
      BY <3>1 DEF Stored, RoomFirst
    <3>3. room \in DOMAIN LoadClient(db).result.rooms
      BY <3>1, <3>2, LoadedIs
    <3>4. list = r.last
      BY <1>11, <1>12, <3>3
    <3>5. \E s \in Nat : Whole(r.last, h, lo, hi, s)
      BY <1>8, <1>9, <1>14, LastWhole
    <3> QED BY <1>15, <3>4, <3>5
  <2> QED BY <2>1, <2>2
<1>17. PICK s \in Nat : Whole(list, h, lo, since, s)
  BY <1>16
<1>18. /\ queue' = <<>> /\ d = <<>> /\ loading = "no" /\ Place(shown'.prev_batch) = lo
       /\ client'.since = since /\ history' = h /\ db' = db /\ shown'.list = list
  BY <1>1, <1>5, <1>6, <1>12, <1>13, <1>14
<1>19. PICK q : q = queue'
  OBVIOUS
<1>20. Thens(q) = {} /\ DOMAIN q = {} /\ DOMAIN d = {}
  BY <1>18, <1>19 DEF Thens
<1>21. Asked(q, list, since, s)
  BY <1>20 DEF Asked
<1>22. Answered(d, h, lo, s, loading)
  BY <1>18, <1>20 DEF Answered
<1>23. NoRoom(db)
  BY DEF Listed
<1>24. Listed(s)'
  BY <1>14, <1>17, <1>18, <1>19, <1>21, <1>22, <1>23 DEF Listed
<1> QED BY <1>24

\* The client has nothing at first.
LEMMA InitListed ==
  ASSUME Init
  PROVE  ListInv
<1>1. StoreInv
  BY InitStored
<1>2. TypeInv
  BY <1>1 DEF StoreInv
<1>3. /\ client.since = 0 /\ shown.prev_batch = NULL /\ shown.list = <<>> /\ shown.loading = "no"
      /\ queue = <<>> /\ done = <<>>
  BY DEF Init, NewRoom
<1>4. db.events[room] = {}
  <2>1. db = [WithAccount(Created(NoTables)) EXCEPT !.next_batch = NULL, !.json = TRUE]
    BY DEF Init, SaveClient, Done
  <2>2. PICK d : d = NoTables
    OBVIOUS
  <2>3. d.events[room] = {}
    BY <2>2, NamesAssumption DEF NoTables
  <2>4. db.events = d.events
    BY <2>1, <2>2 DEF WithAccount, Created, NoTables
  <2> QED BY <2>3, <2>4
<1>5. IsHistory(history) /\ Len(history) \in Nat
  BY <1>2, Places DEF TypeInv
<1>6. PICK none, h, start : none = 0 /\ h = history /\ start = none + 1
  OBVIOUS
<1>7. /\ none \in Nat /\ none <= none /\ none <= Len(h) /\ start \in Nat
      /\ \A u \in none + 1 .. none : FALSE
  BY <1>5, <1>6
<1>8. Place(shown.prev_batch) = none /\ client.since = none
  BY <1>3, <1>6 DEF Place
<1>9. Quiet(h, none + 1, none)
  BY <1>7 DEF Quiet
<1>10. PICK list : list = shown.list
  OBVIOUS
<1>11. Whole(list, h, none, none, start)
  BY <1>3, <1>5, <1>6, <1>7, <1>9, <1>10, WholeNone
<1>12. PICK q, d, loading : q = queue /\ d = done /\ loading = shown.loading
  OBVIOUS
<1>13. Thens(q) = {} /\ DOMAIN q = {} /\ DOMAIN d = {} /\ loading = "no"
  BY <1>3, <1>12 DEF Thens
<1>14. Asked(q, list, none, start)
  BY <1>13 DEF Asked
<1>15. Answered(d, h, none, start, loading)
  BY <1>13 DEF Answered
<1>16. NoRoom(db)
  BY <1>4 DEF NoRoom
<1>17. Listed(start)
  BY <1>6, <1>8, <1>10, <1>11, <1>12, <1>14, <1>15, <1>16 DEF Listed
<1> QED BY <1>1, <1>7, <1>17 DEF ListInv

\* Every step keeps the list an end of the history.
LEMMA NextListed ==
  ASSUME ~LimitedSyncs, ~EmptySends, ~Crashes, ListInv, [Next]_vars
  PROVE  ListInv'
<1>1. StoreInv /\ StoreInv' /\ TypeInv
  BY NextStored DEF ListInv, StoreInv
<1>2. PICK lo \in Nat, hi \in Nat : Stored(lo, hi)
  BY <1>1 DEF StoreInv
<1>3. PICK start \in Nat : Listed(start)
  BY DEF ListInv
<1> DEFINE Goes == \E s \in Nat : Listed(s)'
<1>4. Listed(start)' => Goes
  OBVIOUS
<1>5. ASSUME \/ \E m \in BOOLEAN : Post(m)
             \/ \E x \in Txn : Accept(x)
      PROVE  Listed(start)'
  BY <1>1, <1>2, <1>3, <1>5, PostListed
<1>6. ASSUME \/ \E found \in BOOLEAN : RoomListed(found)
             \/ LoadFailed \/ NextSync \/ HistoryStored
             \/ \E x \in Txn : StartSending(x) \/ SendFailed(x)
      PROVE  Listed(start)'
  BY <1>1, <1>3, <1>6, QuietListed
<1>7. ASSUME SyncEmpty \/ ClientSaved \/ \E x \in Txn : Sent(x) PROVE Listed(start)'
  BY <1>1, <1>3, <1>7, SavedListed
<1>8. ASSUME NEW first \in 1 .. Len(history), SyncDone(first) PROVE Goes
  BY <1>1, <1>2, <1>3, <1>8, SyncDoneListed
<1>9. ASSUME NEW x \in Txn, Send(x) PROVE Listed(start)'
  BY <1>1, <1>2, <1>3, <1>9, SendListed
<1>10. ASSUME LoadPast \/ StateLoaded PROVE Listed(start)'
  BY <1>1, <1>2, <1>3, <1>10, AskingListed
<1>11. ASSUME HistoryLoaded PROVE Goes
  BY <1>1, <1>2, <1>3, <1>11, HistoryLoadedListed
<1>12. ASSUME Work PROVE Listed(start)'
  BY <1>1, <1>2, <1>3, <1>12, WorkListed
<1>13. ASSUME PastLoaded PROVE Goes
  BY <1>1, <1>2, <1>3, <1>13, PastLoadedListed
<1>14. ASSUME NEW x \in Txn, SetId(x) PROVE Listed(start)'
  BY <1>1, <1>2, <1>3, <1>14, SetIdListed
<1>15. ASSUME Restart PROVE Goes
  BY <1>1, <1>2, <1>3, <1>15, RestartListed
<1>16. ASSUME UNCHANGED vars PROVE Listed(start)'
  BY <1>3, <1>16 DEF vars, Listed, NoRoom
<1> HIDE DEF Goes
<1>17. Goes
  BY <1>4, <1>5, <1>6, <1>7, <1>8, <1>9, <1>10, <1>11, <1>12, <1>13, <1>14, <1>15, <1>16
     DEF Next
<1> QED BY <1>1, <1>17 DEF ListInv, Goes

\* The list is an end of the history, from the event it begins with.
LEMMA ListedIs ==
  ASSUME ListInv
  PROVE  ShownIsHistory
<1>1. PICK start \in Nat : Listed(start)
  BY DEF ListInv
<1>2. PICK lo \in Nat, hi \in Nat : TypeInv /\ Stored(lo, hi)
  BY DEF ListInv, StoreInv
<1>3. PICK since, prev : since = client.since /\ prev = Place(shown.prev_batch)
  OBVIOUS
<1>4. since \in Nat /\ prev \in Nat
  BY <1>2, <1>3, Bounds
<1>5. Whole(shown.list, history, prev, since, start)
  BY <1>1, <1>3 DEF Listed
<1>6. start \in prev + 1 .. since + 1 /\ Messages(shown.list) = Between(history, start, since)
  BY <1>5 DEF Whole
<1>7. start \in 1 .. since + 1
  BY <1>4, <1>6
<1>8. Messages(SyncedHistory(start)) = Between(history, start, since)
  BY <1>3 DEF SyncedHistory, Between
<1> QED BY <1>3, <1>6, <1>7, <1>8 DEF ShownIsHistory

\* The messages that are shown are at all times the end of those that have been synced,
\* in the order of the server, each once and without a gap, whatever was synced, sent,
\* loaded backwards and started again, if no answer of /sync leaves out events, no
\* message is sent into an empty list and the client stores what it has before it ends.
THEOREM TimelineShown ==
  ASSUME ~LimitedSyncs, ~EmptySends, ~Crashes
  PROVE  Spec => []ShownIsHistory
<1>1. Init => ListInv
  BY InitListed
<1>2. ListInv /\ [Next]_vars => ListInv'
  BY NextListed
<1>3. ListInv => ShownIsHistory
  BY ListedIs
<1> QED BY <1>1, <1>2, <1>3, PTL DEF Spec

===============================================================================
