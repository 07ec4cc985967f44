----------------------------- MODULE RoomKeysProofs -----------------------------
(***************************************************************************)
(* Proofs about RoomKeys.  Every call and callback takes the client's      *)
(* state, a record of the rooms and the list, through several states; what *)
(* holds of each of them is Good(w, open), where open is the room whose    *)
(* load of devices is just beginning or ending.  One lemma per operator    *)
(* says what the call keeps of it and what it does to the messages, one    *)
(* per action that it keeps the invariant, and the theorems follow.        *)
(***************************************************************************)
EXTENDS RoomKeys, FiniteSetTheorems, WellFoundedInduction, TLAPS

-----------------------------------------------------------------------------
(* Induction over a set of numbers.  It is stated of the set of those of   *)
(* which something is true, so that no operator is its parameter.          *)

\* What is true of 0, and of the next number if it is of a number, is true of all.
LEMMA Induction ==
  ASSUME NEW T, 0 \in T, \A n \in Nat : n \in T => n + 1 \in T
  PROVE  \A n \in Nat : n \in T
<1> SUFFICES ASSUME Nat \ T # {} PROVE FALSE
  OBVIOUS
<1> DEFINE R == {p \in Nat \X Nat : p[1] < p[2]}
<1>1. IsWellFoundedOn(R, Nat)
  BY NatLessThanWellFounded DEF OpToRel
<1>2. \A x, y \in Nat : y < x => <<y, x>> \in R
  OBVIOUS
<1> HIDE DEF R
<1>3. PICK x \in Nat \ T : \A y \in Nat \ T : <<y, x>> \notin R
  BY <1>1, WFMin
<1>4. x # 0 /\ x - 1 \in Nat /\ x - 1 < x /\ x - 1 + 1 = x
  BY <1>3
<1>5. x - 1 \in T
  <2>1. <<x - 1, x>> \in R
    BY <1>2, <1>3, <1>4
  <2> QED BY <1>3, <1>4, <2>1
<1>6. x \in T
  BY <1>4, <1>5
<1> QED BY <1>6

-----------------------------------------------------------------------------
\* The client's state, as the calls and callbacks of RoomKeys take it
World == [room : [Room -> Rooms], list : List]

\* Room r waits for its turn in the queue of device requests.
Waiting(l, r) == \E i \in DOMAIN l.queue : l.queue[i] = r

\* What is true of each room: it takes one step towards a key at a time, and loads
\* the members before it takes another.
RoomGood(rm) ==
  /\ rm \in Rooms
  /\ rm.busy \in {{}, {"members"}, {"query"}, {"claim"}, {"upload"}}
  /\ rm.busy = {"members"} => ~rm.members_loaded
  /\ rm.busy \notin {{}, {"members"}} => rm.members_loaded
  /\ rm.uploading => rm.sending # 0

\* The load of r's devices waits for one thing, and a room in the queue, or whose request
\* is under way, has users to load.  open: the room whose load begins or ends within the
\* call, so that its flag says something else than the list.
LoadGood(l, rm, r, open) ==
  /\ "query" \in rm.busy <=> Waiting(l, r) \/ l.current = r \/ rm.loaded \/ r \in open
  /\ Waiting(l, r) => l.current # r /\ ~rm.loaded /\ r \notin open /\ rm.changed_users # {}
  /\ l.current = r =>
       ~rm.loaded /\ r \notin open /\ l.asked # {} /\ l.asked \subseteq rm.changed_users
  /\ rm.loaded => r \notin open

\* What is true of the user list: no room is in the queue twice.
ListGood(l) ==
  /\ l \in List
  /\ \A i, j \in DOMAIN l.queue : l.queue[i] = l.queue[j] => i = j
  /\ l.current = NoRoom => l.asked = {} /\ ~l.read

\* The rooms and the list at any point of a call; between two calls nothing is open.
Good(w, open) ==
  /\ w \in World
  /\ \A r \in Room : RoomGood(w.room[r]) /\ LoadGood(w.list, w.room[r], r, open)
  /\ ListGood(w.list)

\* Between two calls, a queue that is not empty has a request under way.
Rest(l) == l.current = NoRoom => l.queue = <<>>

\* The devices of a user are right, or not known, or the user is marked, or a request
\* is under way that brings the right ones.
Told(l, s) ==
  MayFail("omit") \/ \A u \in User \ (l.changed \cup s.unseen) :
    IF u \in l.asked THEN l.read => l.answer[u] = s.devices[u]
    ELSE l.known[u] \in {{}, s.devices[u]}

\* v is w but for room r.
Touched(w, v, r) ==
  /\ v \in World /\ v.list = w.list
  /\ \A q \in Room \ {r} : v.room[q] = w.room[q]

\* A change of a room that leaves its load alone keeps Good.
LEMMA TouchedGood ==
  ASSUME NEW r \in Room, NEW open, NEW w, Good(w, open), NEW v, Touched(w, v, r),
         RoomGood(v.room[r]),
         "query" \in v.room[r].busy <=> "query" \in w.room[r].busy,
         v.room[r].loaded = w.room[r].loaded,
         w.room[r].changed_users \subseteq v.room[r].changed_users
  PROVE  Good(v, open)
<1>1. LoadGood(v.list, v.room[r], r, open)
  <2>1. LoadGood(w.list, w.room[r], r, open) /\ v.list = w.list
    BY DEF Good, Touched
  <2> QED BY <2>1 DEF LoadGood
<1> QED BY <1>1 DEF Good, Touched

\* A room that is not in the queue may begin or end its load.
LEMMA IdleGood ==
  ASSUME NEW r \in Room, NEW before \in SUBSET {r}, NEW after \in SUBSET {r},
         NEW w, Good(w, before), NEW v, Touched(w, v, r), RoomGood(v.room[r]),
         ~Waiting(w.list, r), w.list.current # r,
         "query" \in v.room[r].busy <=> v.room[r].loaded \/ r \in after,
         v.room[r].loaded => r \notin after
  PROVE  Good(v, after)
<1>1. LoadGood(v.list, v.room[r], r, after)
  BY DEF Touched, LoadGood
<1>2. \A q \in Room \ {r} : LoadGood(v.list, v.room[q], q, after)
  <2> SUFFICES ASSUME NEW q \in Room \ {r} PROVE LoadGood(v.list, v.room[q], q, after)
    OBVIOUS
  <2>1. LoadGood(w.list, w.room[q], q, before) /\ v.list = w.list /\ v.room[q] = w.room[q]
    BY DEF Good, Touched
  <2> QED BY <2>1 DEF LoadGood
<1> QED BY <1>1, <1>2 DEF Good, Touched

\* request_device_keys_from_queue() leaves the queue at rest, and the messages alone.
LEMMA StartGood ==
  ASSUME NEW open, NEW w, Good(w, open), NEW s, Told(w.list, s),
         NEW v, v = StartRequest(w)
  PROVE  Good(v, open) /\ Rest(v.list) /\ Told(v.list, s) /\ v.room = w.room
<1> DEFINE l == w.list
<1>1. CASE l.current # NoRoom \/ l.queue = <<>>
  BY <1>1 DEF StartRequest, Rest
<1>2. CASE l.current = NoRoom /\ l.queue # <<>>
  <2> DEFINE r == Head(l.queue)
             users == w.room[r].changed_users
             m == v.list
  <2>1. ListGood(l) /\ w \in World
    BY DEF Good
  <2>2. l \in List
    BY <2>1 DEF ListGood
  <2>3. l.queue \in Seq(Room)
    BY <2>2 DEF List
  <2>4. /\ r \in Room /\ r = l.queue[1] /\ Tail(l.queue) \in Seq(Room)
        /\ Len(l.queue) \in Nat /\ Len(l.queue) > 0 /\ DOMAIN l.queue = 1 .. Len(l.queue)
        /\ DOMAIN Tail(l.queue) = 1 .. Len(l.queue) - 1
        /\ \A i \in DOMAIN Tail(l.queue) :
             i + 1 \in DOMAIN l.queue /\ Tail(l.queue)[i] = l.queue[i + 1]
    BY <1>2, <2>3
  <2>5. v = [w EXCEPT !.list.queue = Tail(@), !.list.current = r, !.list.asked = users,
                     !.list.changed = @ \ users, !.list.read = FALSE]
    BY <1>2 DEF StartRequest
  <2>6. /\ users \in SUBSET User
        /\ w.room \in [Room -> Rooms]
    BY <2>1, <2>4 DEF World, Rooms
  <2> HIDE DEF users, r
  <2>61. v = [room |-> w.room,
              list |-> [l EXCEPT !.queue = Tail(@), !.current = r, !.asked = users,
                                 !.changed = @ \ users, !.read = FALSE]]
    BY <2>1, <2>5 DEF World
  <2>62. m = [l EXCEPT !.queue = Tail(@), !.current = r, !.asked = users,
                       !.changed = @ \ users, !.read = FALSE] /\ v.room = w.room
    BY <2>61
  <2>7. /\ m.queue = Tail(l.queue) /\ m.current = r /\ m.asked = users
        /\ m.changed = l.changed \ users /\ m.read = FALSE /\ m.known = l.known
        /\ m.answer = l.answer /\ v.room = w.room
    BY <2>2, <2>62 DEF List
  <2>71. m \in List
    BY ZenonT(30), <2>2, <2>4, <2>6, <2>62 DEF List
  <2>8. m \in List /\ v \in World
    BY <2>6, <2>61, <2>62, <2>71 DEF World
  <2> HIDE DEF m
  <2>9. Waiting(l, r)
    BY <2>4 DEF Waiting
  <2>10. users # {}
    BY <2>4, <2>9 DEF Good, LoadGood, users
  <2>11. \A q \in Room : Waiting(m, q) => Waiting(l, q) /\ q # r
    <3> SUFFICES ASSUME NEW q \in Room, NEW i \in DOMAIN m.queue, m.queue[i] = q
                 PROVE  Waiting(l, q) /\ q # r
      BY DEF Waiting
    <3>1. i \in 1 .. Len(l.queue) - 1 /\ i + 1 \in DOMAIN l.queue /\ q = l.queue[i + 1]
      BY <2>4, <2>7
    <3>2. i + 1 # 1 /\ 1 \in DOMAIN l.queue
      BY <2>4, <3>1
    <3> QED BY <2>1, <2>4, <3>1, <3>2 DEF Waiting, ListGood
  <2>12. \A q \in Room \ {r} : Waiting(l, q) => Waiting(m, q)
    <3> SUFFICES ASSUME NEW q \in Room \ {r}, NEW i \in DOMAIN l.queue, l.queue[i] = q
                 PROVE  Waiting(m, q)
      BY DEF Waiting
    <3>1. i # 1
      BY <2>4
    <3>2. i - 1 \in 1 .. Len(l.queue) - 1 /\ (i - 1) + 1 = i
      BY <2>4, <3>1
    <3> QED BY <2>4, <2>7, <3>2 DEF Waiting
  <2>13. ListGood(m)
    <3> SUFFICES ASSUME NEW i \in DOMAIN m.queue, NEW j \in DOMAIN m.queue,
                        m.queue[i] = m.queue[j]
                 PROVE  i = j
      BY <2>4, <2>7, <2>8, RoomKeysAssumption DEF ListGood
    <3>1. i \in 1 .. Len(l.queue) - 1 /\ j \in 1 .. Len(l.queue) - 1
      BY <2>4, <2>7
    <3>2. i + 1 \in DOMAIN l.queue /\ j + 1 \in DOMAIN l.queue /\ l.queue[i + 1] = l.queue[j + 1]
      BY <2>4, <2>7
    <3>3. i + 1 = j + 1
      BY <2>1, <3>2 DEF ListGood
    <3> QED BY <3>1, <3>3
  <2>14. \A q \in Room : LoadGood(m, v.room[q], q, open)
    <3> SUFFICES ASSUME NEW q \in Room PROVE LoadGood(m, v.room[q], q, open)
      OBVIOUS
    <3>1. LoadGood(l, w.room[q], q, open)
      BY DEF Good
    <3>2. CASE q = r
      BY <1>2, <2>4, <2>7, <2>9, <2>10, <2>11, <3>1, <3>2, RoomKeysAssumption DEF LoadGood, users
    <3>3. CASE q # r
      BY <1>2, <2>4, <2>7, <2>11, <2>12, <3>1, <3>3, RoomKeysAssumption DEF LoadGood
    <3> QED BY <3>2, <3>3
  <2>15. Good(v, open)
    BY <2>7, <2>8, <2>13, <2>14 DEF Good, m
  <2>16. Told(m, s)
    <3> SUFFICES ASSUME ~MayFail("omit"),
                        NEW u \in User \ (m.changed \cup s.unseen), u \notin m.asked
                 PROVE  m.known[u] \in {{}, s.devices[u]}
      BY <2>7 DEF Told
    <3>1. u \in User \ (l.changed \cup s.unseen) /\ u \notin l.asked
      BY <1>2, <2>1, <2>7 DEF ListGood
    <3> QED BY <2>7, <3>1 DEF Told
  <2> QED BY <2>4, <2>7, <2>15, <2>16, RoomKeysAssumption DEF Rest, m
<1> QED BY <1>1, <1>2

\* The messages of the rooms are what they were.
Same(rm, new) ==
  new.queue = rm.queue /\ new.sending = rm.sending /\ new.finished = rm.finished

\* ... and those of all rooms
Quiet(w, v) == \A q \in Room : Same(w.room[q], v.room[q])

\* v is w with another room r.
Sets(w, v, r, rm) ==
  /\ v = [room |-> v.room, list |-> v.list]
  /\ v.list = w.list /\ v.room = [w.room EXCEPT ![r] = rm]

\* Such a w is touched in r alone.
LEMMA RoomSet ==
  ASSUME NEW w \in World, NEW r \in Room, NEW rm \in Rooms, NEW v, Sets(w, v, r, rm)
  PROVE  Touched(w, v, r) /\ v.room[r] = rm /\ v.list = w.list /\ v.room \in [Room -> Rooms]
BY DEF Sets, Touched, World

\* A list with another queue is a list.
LEMMA ListSet ==
  ASSUME NEW l \in List, NEW q \in Seq(Room)
  PROVE  [l EXCEPT !.queue = q] \in List
BY DEF List

\* A world with another loaded flag is a world with another room.
LEMMA LoadedSet ==
  ASSUME NEW w \in World, NEW r \in Room, NEW b, NEW v, v = [w EXCEPT !.room[r].loaded = b]
  PROVE  Sets(w, v, r, [w.room[r] EXCEPT !.loaded = b])
BY DEF Sets, World

\* A room whose load begins is put into the queue.
LEMMA QueuePut ==
  ASSUME NEW r \in Room, NEW w, Good(w, {r}), NEW s, Told(w.list, s),
         w.room[r].changed_users # {},
         NEW v, v = [w EXCEPT !.list.queue = Append(@, r)]
  PROVE  Good(v, {}) /\ Told(v.list, s) /\ v.room = w.room
<1> DEFINE l == w.list
           m == v.list
<1>1. w \in World /\ ListGood(l) /\ l \in List /\ l.queue \in Seq(Room)
  BY DEF Good, ListGood, List
<1>2. v = [room |-> w.room, list |-> [l EXCEPT !.queue = Append(@, r)]]
  BY <1>1 DEF World
<1>3. m = [l EXCEPT !.queue = Append(@, r)] /\ v.room = w.room
  BY <1>2
<1>4. /\ m.queue = Append(l.queue, r) /\ m.current = l.current /\ m.asked = l.asked
      /\ m.changed = l.changed /\ m.read = l.read /\ m.known = l.known
      /\ m.answer = l.answer
  BY <1>1, <1>3 DEF List
<1>5. m \in List
  <2>1. Append(l.queue, r) \in Seq(Room)
    BY <1>1
  <2> QED BY <1>1, <1>3, <2>1, ListSet
<1>6. v \in World
  BY <1>1, <1>2, <1>3, <1>5 DEF World
<1> HIDE DEF m
<1>7. /\ Len(l.queue) \in Nat
      /\ DOMAIN m.queue = 1 .. Len(l.queue) + 1 /\ DOMAIN l.queue = 1 .. Len(l.queue)
      /\ m.queue[Len(l.queue) + 1] = r /\ \A i \in DOMAIN l.queue : m.queue[i] = l.queue[i]
  BY <1>1, <1>4
<1>8. \A q \in Room : Waiting(m, q) <=> Waiting(l, q) \/ q = r
  <2>1. \A i \in DOMAIN m.queue : i \in DOMAIN l.queue \/ i = Len(l.queue) + 1
    BY <1>7
  <2>2. DOMAIN l.queue \subseteq DOMAIN m.queue /\ Len(l.queue) + 1 \in DOMAIN m.queue
    BY <1>7
  <2> QED BY <1>7, <2>1, <2>2 DEF Waiting
<1>9. LoadGood(l, w.room[r], r, {r})
  BY DEF Good
<1>10. ~Waiting(l, r) /\ l.current # r
  BY <1>9 DEF LoadGood
<1>11. ListGood(m)
  <2> SUFFICES ASSUME NEW i \in DOMAIN m.queue, NEW j \in DOMAIN m.queue,
                      m.queue[i] = m.queue[j]
               PROVE  i = j
    BY <1>1, <1>4, <1>5 DEF ListGood
  <2>1. /\ i \in DOMAIN l.queue \/ i = Len(l.queue) + 1
        /\ j \in DOMAIN l.queue \/ j = Len(l.queue) + 1
    BY <1>7
  <2> QED BY <1>1, <1>7, <1>10, <2>1 DEF ListGood, Waiting
<1>12. \A q \in Room : LoadGood(m, v.room[q], q, {})
  <2> SUFFICES ASSUME NEW q \in Room PROVE LoadGood(m, v.room[q], q, {})
    OBVIOUS
  <2>1. LoadGood(l, w.room[q], q, {r}) /\ v.room[q] = w.room[q]
    BY <1>3 DEF Good
  <2> QED BY <1>4, <1>8, <2>1 DEF LoadGood
<1>13. Told(m, s)
  BY <1>4 DEF Told
<1> QED BY <1>3, <1>6, <1>11, <1>12, <1>13 DEF Good, m

\* cm_user_list_load_devices_async(): the load that begins waits for one thing.
LEMMA LoadDevicesGood ==
  ASSUME NEW r \in Room, NEW w, Good(w, {r}), NEW s, Told(w.list, s),
         NEW v, v = LoadDevices(w, r)
  PROVE  Good(v, {}) /\ Rest(v.list) /\ Told(v.list, s) /\ Quiet(w, v)
<1> DEFINE rm == w.room[r]
           users == rm.changed_users \ Unlisted(w.list, rm.changed_users)
           next == [w EXCEPT !.room[r].changed_users = users]
<1>1. w \in World /\ RoomGood(rm) /\ LoadGood(w.list, rm, r, {r})
  BY DEF Good
<1>2. rm \in Rooms /\ users \in SUBSET User
  BY <1>1 DEF RoomGood, Rooms
<1> HIDE DEF users
<1>3. CASE users = {}
  <2> DEFINE mid == [rm EXCEPT !.changed_users = users]
             new == [mid EXCEPT !.loaded = TRUE]
             x == [next EXCEPT !.room[r].loaded = TRUE]
  <2>1. v = StartRequest(x)
    BY <1>3 DEF LoadDevices, users
  <2>2. Sets(w, x, r, new)
    <3>1. Sets(w, next, r, mid) /\ mid \in Rooms
      <4>1. Sets(w, next, r, mid)
        BY <1>1, <1>2 DEF Sets, World
      <4>2. mid \in Rooms
        BY <1>2 DEF Rooms
      <4> QED BY <4>1, <4>2
    <3> HIDE DEF next, mid
    <3>2. next \in World /\ next.room[r] = mid
      BY <1>1, <3>1, RoomSet DEF Touched
    <3>3. Sets(next, x, r, [next.room[r] EXCEPT !.loaded = TRUE])
      BY <3>2, LoadedSet
    <3> QED BY <1>1, <3>1, <3>2, <3>3 DEF Sets, World
  <2>3. new \in Rooms
    BY <1>2 DEF Rooms
  <2>4. /\ new.busy = rm.busy /\ new.loaded /\ new.members_loaded = rm.members_loaded
        /\ new.uploading = rm.uploading /\ new.sending = rm.sending
        /\ new.queue = rm.queue /\ new.finished = rm.finished
    BY <1>2 DEF Rooms
  <2>5. RoomGood(new)
    BY <1>1, <2>3, <2>4 DEF RoomGood
  <2> HIDE DEF new, x
  <2>6. Touched(w, x, r) /\ x.room[r] = new /\ x.list = w.list
    BY <1>1, <2>2, <2>3, RoomSet
  <2>7. ~Waiting(w.list, r) /\ w.list.current # r /\ "query" \in rm.busy
    BY <1>1 DEF LoadGood
  <2>8. {} \in SUBSET {r} /\ {r} \in SUBSET {r}
    OBVIOUS
  <2>9. Good(x, {})
    BY <2>4, <2>5, <2>6, <2>7, <2>8, IdleGood
  <2>10. Good(v, {}) /\ Rest(v.list) /\ Told(v.list, s) /\ v.room = x.room
    BY <2>1, <2>6, <2>9, StartGood
  <2>11. Quiet(w, v)
    BY <2>4, <2>6, <2>10 DEF Quiet, Same, Touched
  <2> QED BY <2>10, <2>11
<1>4. CASE users # {}
  <2> DEFINE new == [rm EXCEPT !.changed_users = users]
             x == [next EXCEPT !.list.queue = Append(@, r)]
  <2>1. v = StartRequest(x)
    BY <1>4 DEF LoadDevices, users
  <2>2. Sets(w, next, r, new)
    BY <1>1, <1>2 DEF Sets, World
  <2>3. new \in Rooms
    BY <1>2 DEF Rooms
  <2>4. /\ new.busy = rm.busy /\ new.loaded = rm.loaded /\ new.members_loaded = rm.members_loaded
        /\ new.uploading = rm.uploading /\ new.sending = rm.sending
        /\ new.queue = rm.queue /\ new.finished = rm.finished /\ new.changed_users = users
    BY <1>2 DEF Rooms
  <2>5. RoomGood(new)
    BY <1>1, <2>3, <2>4 DEF RoomGood
  <2> HIDE DEF new, next
  <2>6. Touched(w, next, r) /\ next.room[r] = new /\ next.list = w.list
    BY <1>1, <2>2, <2>3, RoomSet
  <2>7. ~Waiting(w.list, r) /\ w.list.current # r /\ "query" \in rm.busy /\ ~rm.loaded
    BY <1>1 DEF LoadGood
  <2>8. {r} \in SUBSET {r}
    OBVIOUS
  <2>9. Good(next, {r})
    BY <2>4, <2>5, <2>6, <2>7, <2>8, IdleGood
  <2>91. Good(x, {}) /\ Told(x.list, s) /\ x.room = next.room
    BY <1>4, <2>4, <2>6, <2>9, QueuePut
  <2> HIDE DEF x
  <2>10. Good(v, {}) /\ Rest(v.list) /\ Told(v.list, s) /\ v.room = x.room
    BY <2>1, <2>91, StartGood
  <2>11. Quiet(w, v)
    BY <2>4, <2>6, <2>91, <2>10 DEF Quiet, Same, Touched
  <2> QED BY <2>10, <2>11
<1> QED BY <1>3, <1>4

\* The room takes the first message of its queue.
Takes(rm, new) ==
  /\ rm.queue # <<>> /\ rm.sending = 0
  /\ new.queue = Tail(rm.queue) /\ new.sending = Head(rm.queue)
  /\ new.finished = rm.finished

\* Room r may take its next message.
Sends(w, v, r) ==
  \/ Quiet(w, v)
  \/ Takes(w.room[r], v.room[r]) /\ \A q \in Room \ {r} : Same(w.room[q], v.room[q])

\* Another room r, whose load is as it was, keeps Good.
LEMMA ChangedGood ==
  ASSUME NEW r \in Room, NEW open, NEW w, Good(w, open), NEW new, RoomGood(new),
         NEW v, Sets(w, v, r, new),
         "query" \in new.busy <=> "query" \in w.room[r].busy,
         new.loaded = w.room[r].loaded,
         w.room[r].changed_users \subseteq new.changed_users
  PROVE  /\ Good(v, open) /\ v.list = w.list /\ v.room[r] = new
         /\ \A q \in Room \ {r} : v.room[q] = w.room[q]
<1>1. new \in Rooms /\ w \in World
  BY DEF RoomGood, Good
<1>2. Touched(w, v, r) /\ v.room[r] = new /\ v.list = w.list
  BY <1>1, RoomSet
<1>3. Good(v, open)
  BY <1>2, TouchedGood
<1> QED BY <1>2, <1>3 DEF Touched

\* The fields a claim sets
LEMMA ClaimSet ==
  ASSUME NEW w \in World, NEW r \in Room, NEW refused, NEW claim, NEW v,
         v = [w EXCEPT !.room[r].busy = {"claim"}, !.room[r].changed_devices = {},
                       !.room[r].refused = refused, !.room[r].claim = claim]
  PROVE  Sets(w, v, r, [w.room[r] EXCEPT !.busy = {"claim"}, !.changed_devices = {},
                                         !.refused = refused, !.claim = claim])
BY DEF Sets, World

\* ensure_encryption_keys() begins one step, if none is under way, and sends nothing.
LEMMA EnsureGood ==
  ASSUME NEW r \in Room, NEW w, Good(w, {}), Rest(w.list), NEW s, Told(w.list, s),
         NEW v, v = ensure_encryption_keys(w, r)
  PROVE  Good(v, {}) /\ Rest(v.list) /\ Told(v.list, s) /\ Quiet(w, v)
<1> DEFINE rm == w.room[r]
<1>1. w \in World /\ RoomGood(rm) /\ LoadGood(w.list, rm, r, {})
  BY DEF Good
<1>2. rm \in Rooms
  BY <1>1 DEF RoomGood
<1>3. CASE v = w
  BY <1>3 DEF Quiet, Same
<1>4. CASE rm.busy = {} /\ ~rm.members_loaded
  <2> DEFINE new == [rm EXCEPT !.busy = {"members"}]
  <2>1. v = [w EXCEPT !.room[r].busy = {"members"}]
    BY <1>4 DEF ensure_encryption_keys
  <2>2. Sets(w, v, r, new)
    BY <1>1, <2>1 DEF Sets, World
  <2>3. new \in Rooms
    BY <1>2 DEF Rooms
  <2>4. /\ new.busy = {"members"} /\ new.loaded = rm.loaded
        /\ new.members_loaded = rm.members_loaded
        /\ new.uploading = rm.uploading /\ new.sending = rm.sending
        /\ new.queue = rm.queue /\ new.finished = rm.finished
        /\ new.changed_users = rm.changed_users
    BY <1>2 DEF Rooms
  <2>5. RoomGood(new)
    BY <1>1, <1>4, <2>3, <2>4 DEF RoomGood
  <2> HIDE DEF new
  <2>6. /\ Good(v, {}) /\ v.list = w.list /\ v.room[r] = new
        /\ \A q \in Room \ {r} : v.room[q] = w.room[q]
    BY <1>4, <2>2, <2>4, <2>5, ChangedGood
  <2> QED BY <2>4, <2>6 DEF Quiet, Same
<1>5. CASE rm.busy = {} /\ rm.members_loaded /\ rm.changed_users # {}
  <2> DEFINE new == [rm EXCEPT !.busy = {"query"}, !.keys_claimed = FALSE]
             x == [w EXCEPT !.room[r].busy = {"query"}, !.room[r].keys_claimed = FALSE]
  <2>1. v = LoadDevices(x, r)
    BY <1>5 DEF ensure_encryption_keys
  <2>2. Sets(w, x, r, new)
    <3>1. PICK y : y = x
      OBVIOUS
    <3>2. Sets(w, y, r, new)
      BY <1>1, <3>1 DEF Sets, World
    <3> QED BY <3>1, <3>2
  <2>3. new \in Rooms
    BY <1>2 DEF Rooms
  <2>4. /\ new.busy = {"query"} /\ new.loaded = rm.loaded
        /\ new.members_loaded = rm.members_loaded
        /\ new.uploading = rm.uploading /\ new.sending = rm.sending
        /\ new.queue = rm.queue /\ new.finished = rm.finished
    BY <1>2 DEF Rooms
  <2>5. RoomGood(new)
    BY <1>1, <1>5, <2>3, <2>4 DEF RoomGood
  <2> HIDE DEF new, x
  <2>6. Touched(w, x, r) /\ x.room[r] = new /\ x.list = w.list
    BY <1>1, <2>2, <2>3, RoomSet
  <2>7. ~Waiting(w.list, r) /\ w.list.current # r /\ ~rm.loaded
    BY <1>1, <1>5 DEF LoadGood
  <2>8. {} \in SUBSET {r} /\ {r} \in SUBSET {r}
    OBVIOUS
  <2>9. Good(x, {r})
    BY <2>4, <2>5, <2>6, <2>7, <2>8, IdleGood
  <2>10. Good(v, {}) /\ Rest(v.list) /\ Told(v.list, s) /\ Quiet(x, v)
    BY <2>1, <2>6, <2>9, LoadDevicesGood
  <2>11. Quiet(w, v)
    BY <2>4, <2>6, <2>10 DEF Quiet, Same, Touched
  <2> QED BY <2>10, <2>11
<1>6. CASE rm.busy = {} /\ rm.members_loaded /\ v = ClaimKeys(w, r)
  <2> DEFINE added   == rm.changed_devices
             devices == IF added # {} THEN added ELSE KnownDevices(w.list, rm.members)
             users   == IF added # {} THEN {Owner[d] : d \in added} ELSE rm.members
             refused == users \cap w.list.changed # {}
             claim   == IF refused THEN {} ELSE devices
             new == [rm EXCEPT !.busy = {"claim"}, !.changed_devices = {}, !.refused = refused,
                               !.claim = claim]
  <2>1. v = [w EXCEPT !.room[r].busy = {"claim"}, !.room[r].changed_devices = {},
                      !.room[r].refused = refused, !.room[r].claim = claim]
    BY <1>6 DEF ClaimKeys
  <2>11. claim \in SUBSET Device /\ refused \in BOOLEAN
    <3>1. w.list \in List
      BY <1>1 DEF World
    <3>2. KnownDevices(w.list, rm.members) \in SUBSET Device
      BY <1>2, <3>1 DEF KnownDevices, List, Rooms
    <3> QED BY <1>2, <3>2 DEF Rooms
  <2> HIDE DEF refused, claim
  <2>2. Sets(w, v, r, new)
    BY <1>1, <2>1, ClaimSet
  <2>3. new \in Rooms
    BY <1>2, <2>11 DEF Rooms
  <2>4. /\ new.busy = {"claim"} /\ new.loaded = rm.loaded
        /\ new.members_loaded = rm.members_loaded
        /\ new.uploading = rm.uploading /\ new.sending = rm.sending
        /\ new.queue = rm.queue /\ new.finished = rm.finished
        /\ new.changed_users = rm.changed_users
    BY <1>2 DEF Rooms
  <2>5. RoomGood(new)
    BY <1>1, <1>6, <2>3, <2>4 DEF RoomGood
  <2> HIDE DEF new
  <2>6. /\ Good(v, {}) /\ v.list = w.list /\ v.room[r] = new
        /\ \A q \in Room \ {r} : v.room[q] = w.room[q]
    BY <1>6, <2>2, <2>4, <2>5, ChangedGood
  <2> QED BY <2>4, <2>6 DEF Quiet, Same
<1>7. CASE rm.busy = {} /\ rm.members_loaded /\ v = UploadKeys(w, r)
  <2> DEFINE upload == rm.holders \cup rm.one_time_keys
             new == [rm EXCEPT !.busy = {"upload"}, !.upload = upload]
  <2>1. v = [w EXCEPT !.room[r].busy = {"upload"}, !.room[r].upload = upload]
    BY <1>7 DEF UploadKeys
  <2>11. upload \in SUBSET Device
    BY <1>2 DEF Rooms
  <2> HIDE DEF upload
  <2>2. Sets(w, v, r, new)
    BY <1>1, <2>1 DEF Sets, World
  <2>3. new \in Rooms
    BY <1>2, <2>11 DEF Rooms
  <2>4. /\ new.busy = {"upload"} /\ new.loaded = rm.loaded
        /\ new.members_loaded = rm.members_loaded
        /\ new.uploading = rm.uploading /\ new.sending = rm.sending
        /\ new.queue = rm.queue /\ new.finished = rm.finished
        /\ new.changed_users = rm.changed_users
    BY <1>2 DEF Rooms
  <2>5. RoomGood(new)
    BY <1>1, <1>7, <2>3, <2>4 DEF RoomGood
  <2> HIDE DEF new
  <2>6. /\ Good(v, {}) /\ v.list = w.list /\ v.room[r] = new
        /\ \A q \in Room \ {r} : v.room[q] = w.room[q]
    BY <1>7, <2>2, <2>4, <2>5, ChangedGood
  <2> QED BY <2>4, <2>6 DEF Quiet, Same
<1>8. \/ v = w
      \/ rm.busy = {} /\ rm.members_loaded /\ (v = ClaimKeys(w, r) \/ v = UploadKeys(w, r))
      \/ rm.busy = {} /\ (~rm.members_loaded \/ rm.changed_users # {})
  BY DEF ensure_encryption_keys
<1> QED BY <1>3, <1>4, <1>5, <1>6, <1>7, <1>8

\* The fields that a message taken from the queue sets
LEMMA TakeSet ==
  ASSUME NEW w \in World, NEW r \in Room, NEW q, NEW m, NEW file, NEW v,
         v = [w EXCEPT !.room[r].queue = q, !.room[r].sending = m, !.room[r].uploading = file]
  PROVE  Sets(w, v, r, [w.room[r] EXCEPT !.queue = q, !.sending = m, !.uploading = file])
BY DEF Sets, World

\* room_send_message_from_queue() takes one message, or begins one step, or does nothing.
LEMMA SendGood ==
  ASSUME NEW r \in Room, NEW w, Good(w, {}), Rest(w.list), NEW s, Told(w.list, s),
         NEW v, v = room_send_message_from_queue(w, r)
  PROVE  Good(v, {}) /\ Rest(v.list) /\ Told(v.list, s) /\ Sends(w, v, r)
<1> DEFINE rm == w.room[r]
<1>1. w \in World /\ RoomGood(rm) /\ LoadGood(w.list, rm, r, {})
  BY DEF Good
<1>2. rm \in Rooms
  BY <1>1 DEF RoomGood
<1>3. CASE v = w
  BY <1>3 DEF Sends, Quiet, Same
<1>4. CASE v = ensure_encryption_keys(w, r)
  BY <1>4, EnsureGood DEF Sends
<1>5. CASE v # w /\ v # ensure_encryption_keys(w, r)
  <2> DEFINE q == Tail(rm.queue)
             m == Head(rm.queue)
             file == m \in Files
             new == [rm EXCEPT !.queue = q, !.sending = m, !.uploading = file]
  <2>1. /\ v = [w EXCEPT !.room[r].queue = Tail(@), !.room[r].sending = m,
                         !.room[r].uploading = file]
        /\ rm.queue # <<>> /\ rm.sending = 0
    BY <1>5 DEF room_send_message_from_queue
  <2>10. v = [w EXCEPT !.room[r].queue = q, !.room[r].sending = m, !.room[r].uploading = file]
    BY <2>1
  <2>11. q \in Seq(Message) /\ m \in Message /\ file \in BOOLEAN /\ m # 0
    <3>1. rm.queue \in Seq(Message)
      BY <1>2 DEF Rooms
    <3>2. q \in Seq(Message) /\ m \in Message
      BY <2>1, <3>1
    <3>3. m # 0
      BY <3>2, RoomKeysAssumption DEF Message
    <3> QED BY <3>2, <3>3
  <2> HIDE DEF q, m, file
  <2>2. Sets(w, v, r, new)
    BY <1>1, <2>10, TakeSet
  <2>3. new \in Rooms
    BY <1>2, <2>11 DEF Rooms
  <2>4. /\ new.busy = rm.busy /\ new.loaded = rm.loaded
        /\ new.members_loaded = rm.members_loaded
        /\ new.sending = m /\ new.queue = q /\ new.finished = rm.finished
        /\ new.changed_users = rm.changed_users
    BY <1>2 DEF Rooms
  <2>5. RoomGood(new)
    BY <1>1, <2>3, <2>4, <2>11 DEF RoomGood
  <2> HIDE DEF new
  <2>6. /\ Good(v, {}) /\ v.list = w.list /\ v.room[r] = new
        /\ \A p \in Room \ {r} : v.room[p] = w.room[p]
    BY <2>2, <2>4, <2>5, ChangedGood
  <2>7. Takes(rm, new)
    BY <2>1, <2>4 DEF Takes, q, m
  <2> QED BY <2>6, <2>7 DEF Sends, Same
<1> QED BY <1>3, <1>4, <1>5

\* A step that is not a load of devices ends.
LEMMA EndedGood ==
  ASSUME NEW r \in Room, NEW w, Good(w, {}), NEW kind,
         kind \in {"members", "claim", "upload"}, NEW v, v = Ended(w, r, kind)
  PROVE  /\ Good(v, {}) /\ v.list = w.list
         /\ v.room[r] = [w.room[r] EXCEPT !.busy = @ \ {kind}]
         /\ \A q \in Room \ {r} : v.room[q] = w.room[q]
<1> DEFINE rm == w.room[r]
           new == [rm EXCEPT !.busy = @ \ {kind}]
<1>1. w \in World /\ RoomGood(rm) /\ rm \in Rooms
  BY DEF Good, RoomGood
<1>2. Sets(w, v, r, new)
  BY <1>1 DEF Ended, Sets, World
<1>3. /\ new \in Rooms /\ new.busy = rm.busy \ {kind} /\ new.loaded = rm.loaded
      /\ new.members_loaded = rm.members_loaded
      /\ new.uploading = rm.uploading /\ new.sending = rm.sending
      /\ new.changed_users = rm.changed_users
  BY <1>1 DEF Rooms
<1>4. new.busy \in {rm.busy, {}}
  BY <1>1, <1>3 DEF RoomGood
<1>5. RoomGood(new)
  BY <1>1, <1>3, <1>4 DEF RoomGood
<1> HIDE DEF new
<1>6. /\ Good(v, {}) /\ v.list = w.list /\ v.room[r] = new
      /\ \A q \in Room \ {r} : v.room[q] = w.room[q]
  BY <1>2, <1>3, <1>5, ChangedGood
<1> QED BY <1>6 DEF new

\* A load of devices ends.
LEMMA QueryEnded ==
  ASSUME NEW r \in Room, NEW w, Good(w, {r}), NEW v, v = Ended(w, r, "query")
  PROVE  Good(v, {}) /\ v.list = w.list /\ Quiet(w, v)
<1> DEFINE rm == w.room[r]
           new == [rm EXCEPT !.busy = @ \ {"query"}]
<1>1. w \in World /\ RoomGood(rm) /\ rm \in Rooms /\ LoadGood(w.list, rm, r, {r})
  BY DEF Good, RoomGood
<1>2. Sets(w, v, r, new)
  BY <1>1 DEF Ended, Sets, World
<1>3. /\ new \in Rooms /\ new.busy = rm.busy \ {"query"} /\ new.loaded = rm.loaded
      /\ new.members_loaded = rm.members_loaded
      /\ new.uploading = rm.uploading /\ new.sending = rm.sending
      /\ new.queue = rm.queue /\ new.finished = rm.finished
  BY <1>1 DEF Rooms
<1>4. new.busy \in {rm.busy, {}}
  BY <1>1, <1>3 DEF RoomGood
<1>5. RoomGood(new)
  BY <1>1, <1>3, <1>4 DEF RoomGood
<1>6. ~Waiting(w.list, r) /\ w.list.current # r /\ ~rm.loaded
  BY <1>1 DEF LoadGood
<1> HIDE DEF new
<1>7. Touched(w, v, r) /\ v.room[r] = new /\ v.list = w.list
  BY <1>1, <1>2, <1>3, RoomSet
<1>8. {} \in SUBSET {r} /\ {r} \in SUBSET {r}
  OBVIOUS
<1>9. "query" \notin new.busy
  BY <1>3
<1>10. Good(v, {})
  BY <1>3, <1>5, <1>6, <1>7, <1>8, <1>9, IdleGood
<1> QED BY <1>3, <1>7, <1>10 DEF Quiet, Same, Touched

-----------------------------------------------------------------------------

\* The inductive invariant: between two steps nothing is open, and the queue is at rest.
IInv == server \in Server /\ Good(Client, {}) /\ Rest(list) /\ Told(list, server)

\* A message is queued; the messages of a room are numbered as they come.
Puts(a, b) ==
  LET n == Len(a.queue) + Len(a.finished) + IF a.sending = 0 THEN 0 ELSE 1
  IN  /\ n < MaxMessages
      /\ b.queue = Append(a.queue, n + 1) /\ b.sending = a.sending /\ b.finished = a.finished

\* The task of the message that is being sent returns.
Returns(a, b) ==
  /\ a.sending # 0
  /\ \E ok \in BOOLEAN : b.finished = Append(a.finished, [msg |-> a.sending, ok |-> ok])
  /\ b.sending = 0 /\ b.queue = a.queue

\* A call or a callback for room r.
Moves(w, v, r) ==
  \E x : /\ \A q \in Room \ {r} : Same(w.room[q], x.room[q])
         /\ \/ Same(w.room[r], x.room[r])
            \/ Puts(w.room[r], x.room[r])
            \/ Returns(w.room[r], x.room[r])
         /\ Sends(x, v, r)

\* What the invariant says of the variables themselves
LEMMA ClientIs ==
  ASSUME IInv
  PROVE  /\ Client.room = room /\ Client.list = list /\ Good(Client, {}) /\ Client \in World
         /\ server \in Server /\ Rest(Client.list) /\ Told(Client.list, server)
         /\ room \in [Room -> Rooms] /\ list \in List
         /\ \A r \in Room : RoomGood(room[r]) /\ LoadGood(list, room[r], r, {}) /\ room[r] \in Rooms
<1>1. Client.room = room /\ Client.list = list
  BY DEF Client
<1>2. room \in [Room -> Rooms] /\ list \in List
  BY <1>1 DEF IInv, Good, World
<1> QED BY <1>1, <1>2 DEF IInv, Good

\* The state a call ends with is the next state.
LEMMA Became ==
  ASSUME server \in Server, UNCHANGED server, NEW v, Good(v, {}), Rest(v.list),
         Told(v.list, server), Becomes(v)
  PROVE  IInv' /\ Client' = v
<1>1. v = [room |-> v.room, list |-> v.list]
  BY DEF Good, World
<1>2. Client' = v
  BY <1>1 DEF Becomes, Client
<1>3. Good(Client', {})
  BY <1>2
<1>4. (server \in Server)' /\ Rest(list') /\ Told(list', server')
  BY DEF Becomes
<1> QED BY <1>2, <1>3, <1>4 DEF IInv

\* The client changes, and room r goes on with its queue or does not.
LEMMA ListChanged ==
  ASSUME IInv, UNCHANGED server, NEW r \in Room, NEW x, Good(x, {}), Rest(x.list),
         Told(x.list, server),
         \A q \in Room \ {r} : Same(room[q], x.room[q]),
         Same(room[r], x.room[r]) \/ Puts(room[r], x.room[r]) \/ Returns(room[r], x.room[r]),
         Becomes(x) \/ Becomes(room_send_message_from_queue(x, r))
  PROVE  IInv' /\ Moves(Client, Client', r)
<1>1. server \in Server /\ Client.room = room
  BY ClientIs
<1>2. CASE Becomes(x)
  <2>1. IInv' /\ Client' = x
    BY <1>1, <1>2, Became
  <2>2. Sends(x, x, r)
    BY DEF Sends, Quiet, Same
  <2> QED BY <1>1, <2>1, <2>2 DEF Moves
<1>3. CASE Becomes(room_send_message_from_queue(x, r))
  <2> DEFINE v == room_send_message_from_queue(x, r)
  <2>1. Good(v, {}) /\ Rest(v.list) /\ Told(v.list, server) /\ Sends(x, v, r)
    BY <1>1, SendGood
  <2> HIDE DEF v
  <2>2. IInv' /\ Client' = v
    BY <1>1, <1>3, <2>1, Became DEF v
  <2> QED BY <1>1, <2>1, <2>2 DEF Moves
<1> QED BY <1>2, <1>3

\* ... where the list stays.
LEMMA Changed ==
  ASSUME IInv, UNCHANGED server, NEW r \in Room, NEW x, Good(x, {}), x.list = list,
         \A q \in Room \ {r} : Same(room[q], x.room[q]),
         Same(room[r], x.room[r]) \/ Puts(room[r], x.room[r]) \/ Returns(room[r], x.room[r]),
         Becomes(x) \/ Becomes(room_send_message_from_queue(x, r))
  PROVE  IInv' /\ Moves(Client, Client', r)
<1>1. Rest(x.list) /\ Told(x.list, server)
  BY ClientIs
<1> QED BY <1>1, ListChanged

\* A world with room r replaced
LEMMA RoomPut ==
  ASSUME NEW w \in World, NEW r \in Room, NEW rm, NEW v, v = [w EXCEPT !.room[r] = rm]
  PROVE  Sets(w, v, r, rm)
BY DEF Sets, World

\* room_find_user() only adds to what a room has to load.
LEMMA FindUserGood ==
  ASSUME NEW rm, RoomGood(rm), NEW users \in SUBSET User, NEW new, new = FindUser(rm, users)
  PROVE  /\ RoomGood(new) /\ new.busy = rm.busy /\ new.loaded = rm.loaded
         /\ new.sending = rm.sending /\ new.queue = rm.queue /\ new.finished = rm.finished
         /\ new.uploading = rm.uploading /\ rm.changed_users \subseteq new.changed_users
<1>1. rm \in Rooms
  BY DEF RoomGood
<1> DEFINE members == rm.members \cup users
           changed == IF rm.encrypted THEN rm.changed_users \cup (users \ rm.members)
                      ELSE rm.changed_users
<1>2. members \in SUBSET User /\ changed \in SUBSET User /\ rm.changed_users \subseteq changed
  BY <1>1 DEF Rooms
<1>3. new = [rm EXCEPT !.members = members, !.changed_users = changed]
  BY <1>1 DEF FindUser, Rooms
<1> HIDE DEF members, changed
<1>4. new \in Rooms
  BY <1>1, <1>2, <1>3 DEF Rooms
<1>5. /\ new.busy = rm.busy /\ new.loaded = rm.loaded /\ new.members_loaded = rm.members_loaded
      /\ new.sending = rm.sending /\ new.queue = rm.queue /\ new.finished = rm.finished
      /\ new.uploading = rm.uploading /\ new.changed_users = changed
  BY <1>1, <1>3 DEF Rooms
<1> QED BY <1>2, <1>4, <1>5 DEF RoomGood

\* get_joined_members_cb() keeps the invariant.
LEMMA MembersLoadedKeeps ==
  ASSUME IInv, NEW r \in Room, MembersLoaded(r)
  PROVE  IInv' /\ Moves(Client, Client', r)
<1> DEFINE w == Ended(Client, r, "members")
           rm == w.room[r]
           new == [FindUser(rm, MembersOf[r]) EXCEPT !.members_loaded = TRUE]
           found == [w EXCEPT !.room[r] =
                       [FindUser(@, MembersOf[r]) EXCEPT !.members_loaded = TRUE]]
<1>1. /\ "members" \in room[r].busy /\ UNCHANGED server
      /\ Becomes(room_send_message_from_queue(found, r)) \/ Becomes(w)
  BY DEF MembersLoaded
<1>2. "members" \in {"members", "claim", "upload"}
  OBVIOUS
<1>3. /\ Good(w, {}) /\ w.list = list /\ w.room[r] = [room[r] EXCEPT !.busy = @ \ {"members"}]
      /\ \A q \in Room \ {r} : w.room[q] = room[q]
  BY <1>2, ClientIs, EndedGood
<1>4. w \in World /\ RoomGood(rm) /\ room[r] \in Rooms /\ RoomGood(room[r])
  BY <1>3, ClientIs DEF Good
<1>5. /\ rm.busy = {} /\ Same(room[r], rm)
  BY <1>1, <1>3, <1>4 DEF RoomGood, Rooms, Same
<1>6. CASE Becomes(w)
  <2> HIDE DEF w
  <2>1. \A q \in Room \ {r} : Same(room[q], w.room[q])
    BY <1>3 DEF Same
  <2> QED BY <1>1, <1>3, <1>5, <1>6, <2>1, Changed
<1>7. CASE Becomes(room_send_message_from_queue(found, r))
  <2> HIDE DEF w
  <2>1. PICK mid : mid = FindUser(rm, MembersOf[r])
    OBVIOUS
  <2>2. MembersOf[r] \in SUBSET User
    BY RoomKeysAssumption
  <2>3. /\ RoomGood(mid) /\ mid.busy = rm.busy /\ mid.loaded = rm.loaded
        /\ mid.sending = rm.sending /\ mid.queue = rm.queue /\ mid.finished = rm.finished
        /\ mid.uploading = rm.uploading /\ rm.changed_users \subseteq mid.changed_users
    BY <1>4, <2>1, <2>2, FindUserGood
  <2>4. new = [mid EXCEPT !.members_loaded = TRUE]
    BY <2>1
  <2>5. Sets(w, found, r, new)
    BY <1>4, RoomPut
  <2> HIDE DEF new, found
  <2>6. new \in Rooms /\ new.busy = {} /\ new.uploading = mid.uploading
        /\ new.sending = mid.sending /\ new.loaded = mid.loaded
        /\ new.changed_users = mid.changed_users
        /\ new.queue = mid.queue /\ new.finished = mid.finished
    BY <1>5, <2>3, <2>4 DEF Rooms, RoomGood
  <2>7. RoomGood(new)
    BY <2>3, <2>6 DEF RoomGood
  <2>8. /\ Good(found, {}) /\ found.list = w.list /\ found.room[r] = new
        /\ \A q \in Room \ {r} : found.room[q] = w.room[q]
    <3>1. /\ "query" \in new.busy <=> "query" \in w.room[r].busy
          /\ new.loaded = w.room[r].loaded /\ w.room[r].changed_users \subseteq new.changed_users
      BY <1>5, <2>3, <2>6
    <3>2. Good(w, {})
      BY <1>3
    <3> QED BY <2>5, <2>7, <3>1, <3>2, ChangedGood
  <2>9. Same(room[r], found.room[r]) /\ \A q \in Room \ {r} : Same(room[q], found.room[q])
    BY <1>3, <1>5, <2>3, <2>6, <2>8 DEF Same
  <2> QED BY <1>1, <1>3, <1>7, <2>8, <2>9, Changed
<1> QED BY <1>1, <1>6, <1>7

\* The end of a load with nothing to load keeps it.
LEMMA NothingToLoadKeeps ==
  ASSUME IInv, NEW r \in Room, NothingToLoad(r)
  PROVE  IInv' /\ Moves(Client, Client', r)
<1> DEFINE w == [Client EXCEPT !.room[r].loaded = FALSE]
           new == [room[r] EXCEPT !.loaded = FALSE]
           x == Ended(w, r, "query")
<1>1. /\ room[r].loaded /\ UNCHANGED server
      /\ Becomes(room_send_message_from_queue(x, r))
  BY DEF NothingToLoad
<1>2. Sets(Client, w, r, new)
  BY ClientIs, LoadedSet
<1>3. RoomGood(room[r]) /\ LoadGood(list, room[r], r, {}) /\ room[r] \in Rooms
  BY ClientIs
<1>4. /\ new \in Rooms /\ new.busy = room[r].busy /\ ~new.loaded
      /\ new.members_loaded = room[r].members_loaded
      /\ new.uploading = room[r].uploading /\ new.sending = room[r].sending
      /\ new.queue = room[r].queue /\ new.finished = room[r].finished
  BY <1>3 DEF Rooms
<1>5. RoomGood(new)
  BY <1>3, <1>4 DEF RoomGood
<1>6. ~Waiting(list, r) /\ list.current # r /\ "query" \in room[r].busy
  BY <1>1, <1>3 DEF LoadGood
<1> HIDE DEF new, w
<1>7. Touched(Client, w, r) /\ w.room[r] = new /\ w.list = list
  BY <1>2, <1>4, ClientIs, RoomSet
<1>8. {} \in SUBSET {r} /\ {r} \in SUBSET {r} /\ r \in {r}
  OBVIOUS
<1>9. Good(w, {r})
  BY <1>4, <1>5, <1>6, <1>7, <1>8, ClientIs, IdleGood
<1>10. Good(x, {}) /\ x.list = w.list /\ Quiet(w, x)
  BY <1>9, QueryEnded
<1> HIDE DEF x
<1>11. \A q \in Room : Same(room[q], x.room[q])
  BY <1>4, <1>7, <1>10, ClientIs DEF Quiet, Same, Touched
<1> QED BY <1>1, <1>7, <1>10, <1>11, Changed

\* The fields that the end of a claim sets
LEMMA OneKeySet ==
  ASSUME NEW w \in World, NEW r \in Room, NEW keys, NEW yes, NEW v,
         v = [w EXCEPT !.room[r].one_time_keys = keys, !.room[r].keys_claimed = yes,
                       !.room[r].claim = {}]
  PROVE  Sets(w, v, r, [w.room[r] EXCEPT !.one_time_keys = keys, !.keys_claimed = yes,
                                         !.claim = {}])
BY DEF Sets, World

\* claim_keys_cb() keeps it,
LEMMA KeysClaimedKeeps ==
  ASSUME IInv, NEW r \in Room, KeysClaimed(r)
  PROVE  IInv' /\ Moves(Client, Client', r)
<1>1. PICK keys \in SUBSET (room[r].claim \cap KnownDevices(list, User)) :
        Becomes(room_send_message_from_queue(
          Ended([Client EXCEPT !.room[r].one_time_keys = keys, !.room[r].keys_claimed = TRUE,
                               !.room[r].claim = {}], r, "claim"), r))
  BY DEF KeysClaimed
<1> DEFINE w == [Client EXCEPT !.room[r].one_time_keys = keys, !.room[r].keys_claimed = TRUE,
                               !.room[r].claim = {}]
           new == [room[r] EXCEPT !.one_time_keys = keys, !.keys_claimed = TRUE, !.claim = {}]
           x == Ended(w, r, "claim")
<1>2. UNCHANGED server /\ Becomes(room_send_message_from_queue(x, r))
  BY <1>1 DEF KeysClaimed
<1>3. Sets(Client, w, r, new)
  BY ClientIs, OneKeySet
<1>4. RoomGood(room[r]) /\ room[r] \in Rooms
  BY ClientIs
<1>5. keys \in SUBSET Device
  BY <1>4 DEF Rooms
<1>6. /\ new \in Rooms /\ new.busy = room[r].busy /\ new.loaded = room[r].loaded
      /\ new.members_loaded = room[r].members_loaded
      /\ new.uploading = room[r].uploading /\ new.sending = room[r].sending
      /\ new.queue = room[r].queue /\ new.finished = room[r].finished
      /\ new.changed_users = room[r].changed_users
  BY <1>4, <1>5 DEF Rooms
<1>7. RoomGood(new)
  BY <1>4, <1>6 DEF RoomGood
<1> HIDE DEF new, w
<1>8. /\ Good(w, {}) /\ w.list = list /\ w.room[r] = new
      /\ \A q \in Room \ {r} : w.room[q] = room[q]
  BY <1>3, <1>6, <1>7, ClientIs, ChangedGood
<1>9. "claim" \in {"members", "claim", "upload"}
  OBVIOUS
<1>10. /\ Good(x, {}) /\ x.list = list
       /\ x.room[r] = [new EXCEPT !.busy = @ \ {"claim"}]
       /\ \A q \in Room \ {r} : x.room[q] = room[q]
  BY <1>8, <1>9, EndedGood
<1> HIDE DEF x
<1>11. Same(room[r], x.room[r]) /\ \A q \in Room \ {r} : Same(room[q], x.room[q])
  BY <1>6, <1>10 DEF Same, Rooms
<1> QED BY <1>2, <1>10, <1>11, Changed

\* with an error too.
LEMMA ClaimFailedKeeps ==
  ASSUME IInv, NEW r \in Room, ClaimFailed(r)
  PROVE  IInv' /\ Moves(Client, Client', r)
<1> DEFINE w == [Client EXCEPT !.room[r].one_time_keys = {}, !.room[r].claim = {},
                               !.room[r].refused = FALSE]
           new == [room[r] EXCEPT !.one_time_keys = {}, !.claim = {}, !.refused = FALSE]
           x == Ended(w, r, "claim")
<1>2. UNCHANGED server /\ Becomes(x)
  BY DEF ClaimFailed
<1>3. Sets(Client, w, r, new)
  <2>1. PICK y : y = w
    OBVIOUS
  <2>2. Sets(Client, y, r, new)
    BY <2>1, ClientIs DEF Sets, World
  <2> QED BY <2>1, <2>2
<1>4. RoomGood(room[r]) /\ room[r] \in Rooms
  BY ClientIs
<1>6. /\ new \in Rooms /\ new.busy = room[r].busy /\ new.loaded = room[r].loaded
      /\ new.members_loaded = room[r].members_loaded
      /\ new.uploading = room[r].uploading /\ new.sending = room[r].sending
      /\ new.queue = room[r].queue /\ new.finished = room[r].finished
      /\ new.changed_users = room[r].changed_users
  BY <1>4 DEF Rooms
<1>7. RoomGood(new)
  BY <1>4, <1>6 DEF RoomGood
<1> HIDE DEF new, w
<1>8. /\ Good(w, {}) /\ w.list = list /\ w.room[r] = new
      /\ \A q \in Room \ {r} : w.room[q] = room[q]
  BY <1>3, <1>6, <1>7, ClientIs, ChangedGood
<1>9. "claim" \in {"members", "claim", "upload"}
  OBVIOUS
<1>10. /\ Good(x, {}) /\ x.list = list
       /\ x.room[r] = [new EXCEPT !.busy = @ \ {"claim"}]
       /\ \A q \in Room \ {r} : x.room[q] = room[q]
  BY <1>8, <1>9, EndedGood
<1> HIDE DEF x
<1>11. Same(room[r], x.room[r]) /\ \A q \in Room \ {r} : Same(room[q], x.room[q])
  BY <1>6, <1>10 DEF Same, Rooms
<1> QED BY <1>2, <1>10, <1>11, Changed

\* The client's room r becomes new.
LEMMA RoomChanged ==
  ASSUME IInv, UNCHANGED server, NEW r \in Room, NEW new, RoomGood(new), NEW x,
         Sets(Client, x, r, new),
         "query" \in new.busy <=> "query" \in room[r].busy,
         new.loaded = room[r].loaded, room[r].changed_users \subseteq new.changed_users,
         Same(room[r], new) \/ Puts(room[r], new) \/ Returns(room[r], new),
         Becomes(x) \/ Becomes(room_send_message_from_queue(x, r))
  PROVE  IInv' /\ Moves(Client, Client', r)
<1>1. /\ Good(x, {}) /\ x.list = list /\ x.room[r] = new
      /\ \A q \in Room \ {r} : x.room[q] = room[q]
  BY ClientIs, ChangedGood
<1>2. \A q \in Room \ {r} : Same(room[q], x.room[q])
  BY <1>1 DEF Same
<1> QED BY <1>1, <1>2, Changed

\* The fields that the end of an upload sets
LEMMA UploadSet ==
  ASSUME NEW w \in World, NEW r \in Room, NEW yes, NEW holders, NEW v,
         v = [w EXCEPT !.room[r].has_key = yes, !.room[r].holders = holders,
                       !.room[r].one_time_keys = {}]
  PROVE  Sets(w, v, r, [w.room[r] EXCEPT !.has_key = yes, !.holders = holders,
                                         !.one_time_keys = {}])
BY DEF Sets, World

\* upload_group_keys_cb() keeps it.
LEMMA KeysUploadedKeeps ==
  ASSUME IInv, NEW r \in Room, KeysUploaded(r)
  PROVE  IInv' /\ Moves(Client, Client', r)
<1> DEFINE u == [Client EXCEPT !.room[r].upload = {}]
           mid == [room[r] EXCEPT !.upload = {}]
           w == Ended(u, r, "upload")
           x == [w EXCEPT !.room[r].has_key = TRUE, !.room[r].holders = room[r].upload,
                          !.room[r].one_time_keys = {}]
           new == [w.room[r] EXCEPT !.has_key = TRUE, !.holders = room[r].upload,
                                    !.one_time_keys = {}]
<1>1. UNCHANGED server /\ (Becomes(room_send_message_from_queue(x, r)) \/ Becomes(w))
  BY DEF KeysUploaded
<1>2. RoomGood(room[r]) /\ room[r] \in Rooms
  BY ClientIs
<1>3. Sets(Client, u, r, mid)
  BY SMTT(20), ClientIs DEF Sets, World
<1>4. /\ mid \in Rooms /\ mid.busy = room[r].busy /\ mid.loaded = room[r].loaded
      /\ mid.members_loaded = room[r].members_loaded
      /\ mid.uploading = room[r].uploading /\ mid.sending = room[r].sending
      /\ mid.queue = room[r].queue /\ mid.finished = room[r].finished
      /\ mid.changed_users = room[r].changed_users
  BY <1>2 DEF Rooms
<1>5. RoomGood(mid)
  BY <1>2, <1>4 DEF RoomGood
<1> HIDE DEF mid, u
<1>6. /\ Good(u, {}) /\ u.list = list /\ u.room[r] = mid
      /\ \A q \in Room \ {r} : u.room[q] = room[q]
  BY <1>3, <1>4, <1>5, ClientIs, ChangedGood
<1>7. "upload" \in {"members", "claim", "upload"}
  OBVIOUS
<1>8. /\ Good(w, {}) /\ w.list = list
      /\ w.room[r] = [mid EXCEPT !.busy = @ \ {"upload"}]
      /\ \A q \in Room \ {r} : w.room[q] = room[q]
  BY <1>6, <1>7, EndedGood
<1> HIDE DEF w
<1>9. Same(room[r], w.room[r])
  BY <1>4, <1>8 DEF Same, Rooms
<1>10. Good(w, {}) /\ w.list = list /\ \A q \in Room \ {r} : Same(room[q], w.room[q])
  BY <1>8 DEF Same
<1>11. CASE Becomes(w)
  BY <1>1, <1>9, <1>10, <1>11, Changed
<1>12. CASE Becomes(room_send_message_from_queue(x, r))
  <2>1. w \in World /\ RoomGood(w.room[r]) /\ w.room[r] \in Rooms
    BY <1>10 DEF Good, RoomGood
  <2>2. Sets(w, x, r, new)
    BY <2>1, UploadSet
  <2>3. /\ new \in Rooms /\ new.busy = w.room[r].busy /\ new.loaded = w.room[r].loaded
        /\ new.members_loaded = w.room[r].members_loaded
        /\ new.uploading = w.room[r].uploading /\ new.sending = w.room[r].sending
        /\ new.queue = w.room[r].queue /\ new.finished = w.room[r].finished
        /\ new.changed_users = w.room[r].changed_users
    BY <1>2, <2>1 DEF Rooms
  <2>4. RoomGood(new)
    BY <2>1, <2>3 DEF RoomGood
  <2> HIDE DEF new, x
  <2>5. /\ Good(x, {}) /\ x.list = list /\ x.room[r] = new
        /\ \A q \in Room \ {r} : x.room[q] = w.room[q]
    BY <1>10, <2>2, <2>3, <2>4, ChangedGood
  <2>6. Same(room[r], x.room[r]) /\ \A q \in Room \ {r} : Same(room[q], x.room[q])
    BY <1>9, <1>10, <2>3, <2>5 DEF Same
  <2> QED BY <1>1, <1>12, <2>5, <2>6, Changed
<1> QED BY <1>1, <1>11, <1>12

\* The fields that the end of a message sets
LEMMA ReturnedSet ==
  ASSUME NEW w \in World, NEW r \in Room, NEW no, NEW ended, NEW v,
         v = [w EXCEPT !.room[r].sending = 0, !.room[r].uploading = no,
                       !.room[r].finished = ended]
  PROVE  Sets(w, v, r, [w.room[r] EXCEPT !.sending = 0, !.uploading = no, !.finished = ended])
BY DEF Sets, World

\* The task of a message returns.
LEMMA ReturnedKeeps ==
  ASSUME IInv, UNCHANGED server, NEW r \in Room, room[r].sending # 0, NEW ok \in BOOLEAN,
         NEW x, x = Returned(Client, r, ok),
         Becomes(x) \/ Becomes(room_send_message_from_queue(x, r))
  PROVE  IInv' /\ Moves(Client, Client', r)
<1> DEFINE ended == Append(room[r].finished, [msg |-> room[r].sending, ok |-> ok])
           new == [room[r] EXCEPT !.sending = 0, !.uploading = FALSE, !.finished = ended]
<1>1. RoomGood(room[r]) /\ room[r] \in Rooms /\ Client.room = room
  BY ClientIs
<1>2. ended \in Seq([msg : Message, ok : BOOLEAN])
  <2>1. room[r].finished \in Seq([msg : Message, ok : BOOLEAN]) /\ room[r].sending \in Message
    BY <1>1 DEF Rooms
  <2>2. [msg |-> room[r].sending, ok |-> ok] \in [msg : Message, ok : BOOLEAN]
    BY <2>1
  <2> QED BY <2>1, <2>2
<1>3. x = [Client EXCEPT !.room[r].sending = 0, !.room[r].uploading = FALSE,
                         !.room[r].finished = ended]
  <2>1. x = [Client EXCEPT !.room[r].sending = 0, !.room[r].uploading = FALSE,
              !.room[r].finished = Append(@, [msg |-> Client.room[r].sending, ok |-> ok])]
    BY DEF Returned
  <2> QED BY <1>1, <2>1
<1>4. Returns(room[r], new)
  BY <1>1 DEF Returns, Rooms
<1> HIDE DEF ended
<1>5. Sets(Client, x, r, new)
  BY <1>3, ClientIs, ReturnedSet
<1>6. /\ new \in Rooms /\ new.busy = room[r].busy /\ new.loaded = room[r].loaded
      /\ new.members_loaded = room[r].members_loaded /\ ~new.uploading
      /\ new.changed_users = room[r].changed_users
  BY <1>1, <1>2 DEF Rooms
<1>7. RoomGood(new)
  BY <1>1, <1>6 DEF RoomGood
<1> HIDE DEF new
<1> QED BY <1>4, <1>5, <1>6, <1>7, RoomChanged

\* A world with another uploading flag is a world with another room.
LEMMA UploadingSet ==
  ASSUME NEW w \in World, NEW r \in Room, NEW b, NEW v, v = [w EXCEPT !.room[r].uploading = b]
  PROVE  Sets(w, v, r, [w.room[r] EXCEPT !.uploading = b])
BY DEF Sets, World

\* room_send_file_cb() keeps it.
LEMMA FileUploadedKeeps ==
  ASSUME IInv, NEW r \in Room, FileUploaded(r)
  PROVE  IInv' /\ Moves(Client, Client', r)
<1>1. room[r].sending # 0 /\ RoomGood(room[r]) /\ room[r] \in Rooms
  BY ClientIs DEF FileUploaded, RoomGood
<1>2. CASE Becomes([Client EXCEPT !.room[r].uploading = FALSE])
  <2> DEFINE x == [Client EXCEPT !.room[r].uploading = FALSE]
             new == [room[r] EXCEPT !.uploading = FALSE]
  <2>1. Sets(Client, x, r, new)
    BY ClientIs, UploadingSet
  <2>2. /\ new \in Rooms /\ new.busy = room[r].busy /\ new.loaded = room[r].loaded
        /\ new.members_loaded = room[r].members_loaded
        /\ ~new.uploading /\ new.sending = room[r].sending
        /\ new.queue = room[r].queue /\ new.finished = room[r].finished
        /\ new.changed_users = room[r].changed_users
    BY <1>1 DEF Rooms
  <2>3. RoomGood(new) /\ Same(room[r], new)
    BY <1>1, <2>2 DEF RoomGood, Same
  <2>4. UNCHANGED server /\ Becomes(x)
    BY <1>2 DEF FileUploaded
  <2> HIDE DEF new, x
  <2> QED BY <2>1, <2>2, <2>3, <2>4, RoomChanged
<1>3. CASE Becomes(room_send_message_from_queue(Returned(Client, r, FALSE), r))
  <2>1. PICK x : x = Returned(Client, r, FALSE)
    OBVIOUS
  <2>2. UNCHANGED server /\ FALSE \in BOOLEAN
    BY DEF FileUploaded
  <2> QED BY <1>1, <1>3, <2>1, <2>2, ReturnedKeeps
<1> QED BY <1>2, <1>3 DEF FileUploaded

\* send_cb() keeps it.
LEMMA MessageSentKeeps ==
  ASSUME IInv, NEW r \in Room, MessageSent(r)
  PROVE  IInv' /\ Moves(Client, Client', r)
<1>1. PICK ok \in BOOLEAN : Becomes(Returned(Client, r, ok))
  BY DEF MessageSent
<1>2. UNCHANGED server /\ room[r].sending # 0
  BY DEF MessageSent
<1> QED BY <1>1, <1>2, ReturnedKeeps

\* A message that is queued keeps it.
LEMMA SendKeeps ==
  ASSUME IInv, NEW r \in Room, Send(r)
  PROVE  IInv' /\ Moves(Client, Client', r)
<1> DEFINE n == Queued(r)
           rm == room[r]
           mid == FindUser(rm, {Me})
           new == [mid EXCEPT !.queue = Append(@, n + 1)]
           x == [Client EXCEPT !.room[r] = new]
<1>1. n < MaxMessages /\ UNCHANGED server /\ Becomes(room_send_message_from_queue(x, r))
  BY DEF Send
<1>2. RoomGood(rm) /\ rm \in Rooms /\ Client.room = room
  BY ClientIs
<1>3. rm.queue \in Seq(Message) /\ rm.finished \in Seq([msg : Message, ok : BOOLEAN])
  BY <1>2 DEF Rooms
<1>4. n + 1 \in Message
  <2>1. Len(rm.queue) \in Nat /\ Len(rm.finished) \in Nat
    BY <1>3
  <2>2. n \in Nat
    <3>1. \A a, b, c \in Nat : a + b + c \in Nat
      OBVIOUS
    <3>2. PICK c \in Nat : c = IF rm.sending = 0 THEN 0 ELSE 1
      OBVIOUS
    <3>3. n = Len(rm.queue) + Len(rm.finished) + c
      BY <3>2 DEF Queued
    <3> QED BY <2>1, <3>1, <3>3
  <2> QED BY <1>1, <2>2, RoomKeysAssumption DEF Message
<1>5. n = Len(rm.queue) + Len(rm.finished) + (IF rm.sending = 0 THEN 0 ELSE 1)
  BY DEF Queued
<1> HIDE DEF n
<1>6. Me \in User
  BY RoomKeysAssumption
<1>7. /\ RoomGood(mid) /\ mid.busy = rm.busy /\ mid.loaded = rm.loaded
      /\ mid.sending = rm.sending /\ mid.queue = rm.queue /\ mid.finished = rm.finished
      /\ mid.uploading = rm.uploading /\ rm.changed_users \subseteq mid.changed_users
  <2>1. {Me} \in SUBSET User
    BY <1>6
  <2> QED BY <1>2, <2>1, FindUserGood
<1>8. Sets(Client, x, r, new)
  <2> HIDE DEF new
  <2> QED BY ClientIs, RoomPut
<1> HIDE DEF mid, x
<1>9. Append(mid.queue, n + 1) \in Seq(Message)
  BY <1>3, <1>4, <1>7
<1>10. mid \in Rooms
  BY <1>7 DEF RoomGood
<1>11. /\ new \in Rooms /\ new.busy = mid.busy /\ new.loaded = mid.loaded
       /\ new.members_loaded = mid.members_loaded
       /\ new.uploading = mid.uploading /\ new.sending = mid.sending
       /\ new.queue = Append(mid.queue, n + 1) /\ new.finished = mid.finished
       /\ new.changed_users = mid.changed_users
  BY <1>9, <1>10 DEF Rooms
<1> HIDE DEF new
<1>12. RoomGood(new)
  BY <1>7, <1>11 DEF RoomGood
<1>13. Puts(rm, new)
  BY <1>1, <1>5, <1>7, <1>11 DEF Puts
<1> QED BY <1>1, <1>7, <1>8, <1>11, <1>12, <1>13, RoomChanged

\* The application's own load of the members keeps it.
LEMMA LoadMembersKeeps ==
  ASSUME IInv, NEW r \in Room, LoadMembers(r)
  PROVE  IInv' /\ Moves(Client, Client', r)
<1> DEFINE x == [Client EXCEPT !.room[r].busy = @ \cup {"members"}]
           new == [room[r] EXCEPT !.busy = @ \cup {"members"}]
<1>1. UNCHANGED server /\ Becomes(x) /\ ~room[r].members_loaded /\ "members" \notin room[r].busy
  BY DEF LoadMembers
<1>2. RoomGood(room[r]) /\ room[r] \in Rooms
  BY ClientIs
<1>3. Sets(Client, x, r, new)
  <2>1. PICK y : y = x
    OBVIOUS
  <2>2. Sets(Client, y, r, new)
    BY <2>1, ClientIs DEF Sets, World
  <2> QED BY <2>1, <2>2
<1>4. room[r].busy = {}
  BY <1>1, <1>2 DEF RoomGood
<1>5. /\ new \in Rooms /\ new.busy = {"members"} /\ new.loaded = room[r].loaded
      /\ new.members_loaded = room[r].members_loaded
      /\ new.uploading = room[r].uploading /\ new.sending = room[r].sending
      /\ new.queue = room[r].queue /\ new.finished = room[r].finished
      /\ new.changed_users = room[r].changed_users
  BY <1>2, <1>4 DEF Rooms
<1>6. RoomGood(new) /\ Same(room[r], new)
  BY <1>1, <1>2, <1>5 DEF RoomGood, Same
<1> HIDE DEF new, x
<1> QED BY <1>1, <1>3, <1>4, <1>5, <1>6, RoomChanged

\* A member that is seen keeps it,
LEMMA MemberSeenKeeps ==
  ASSUME IInv, NEW r \in Room, MemberSeen(r)
  PROVE  IInv' /\ Moves(Client, Client', r)
<1>1. PICK u \in User : Becomes([Client EXCEPT !.room[r] = FindUser(@, {u})])
  BY DEF MemberSeen
<1> DEFINE x == [Client EXCEPT !.room[r] = FindUser(@, {u})]
           new == FindUser(room[r], {u})
<1>2. UNCHANGED server /\ Becomes(x)
  BY <1>1 DEF MemberSeen
<1>3. RoomGood(room[r]) /\ Client.room = room
  BY ClientIs
<1>4. Sets(Client, x, r, new)
  BY <1>3, ClientIs, RoomPut
<1>5. /\ RoomGood(new) /\ new.busy = room[r].busy /\ new.loaded = room[r].loaded
      /\ Same(room[r], new) /\ room[r].changed_users \subseteq new.changed_users
  BY <1>3, FindUserGood DEF Same
<1> HIDE DEF new, x
<1> QED BY <1>2, <1>4, <1>5, RoomChanged

\* one that leaves,
LEMMA MemberLeftKeeps ==
  ASSUME IInv, NEW r \in Room, MemberLeft(r)
  PROVE  IInv' /\ Moves(Client, Client', r)
<1>1. PICK u : Becomes([Client EXCEPT !.room[r].members = @ \ {u}])
  BY DEF MemberLeft
<1> DEFINE new == [room[r] EXCEPT !.members = @ \ {u}]
<1>2. PICK x : x = [Client EXCEPT !.room[r].members = @ \ {u}]
  OBVIOUS
<1>3. UNCHANGED server /\ Becomes(x)
  BY <1>1, <1>2 DEF MemberLeft
<1>4. RoomGood(room[r]) /\ room[r] \in Rooms
  BY ClientIs
<1>5. Sets(Client, x, r, new)
  BY <1>2, ClientIs DEF Sets, World
<1>6. /\ new \in Rooms /\ new.busy = room[r].busy /\ new.loaded = room[r].loaded
      /\ new.members_loaded = room[r].members_loaded
      /\ new.uploading = room[r].uploading /\ new.sending = room[r].sending
      /\ new.queue = room[r].queue /\ new.finished = room[r].finished
      /\ new.changed_users = room[r].changed_users
  BY <1>4 DEF Rooms
<1>7. RoomGood(new) /\ Same(room[r], new)
  BY <1>4, <1>6 DEF RoomGood, Same
<1> HIDE DEF new
<1> QED BY <1>3, <1>5, <1>6, <1>7, RoomChanged

\* A world with another encrypted flag is a world with another room.
LEMMA EncryptedSet ==
  ASSUME NEW w \in World, NEW r \in Room, NEW b, NEW v, v = [w EXCEPT !.room[r].encrypted = b]
  PROVE  Sets(w, v, r, [w.room[r] EXCEPT !.encrypted = b])
BY DEF Sets, World

\* and encryption that is enabled.
LEMMA EncryptionEnabledKeeps ==
  ASSUME IInv, NEW r \in Room, EncryptionEnabled(r)
  PROVE  IInv' /\ Moves(Client, Client', r)
<1> DEFINE x == [Client EXCEPT !.room[r].encrypted = TRUE]
           new == [room[r] EXCEPT !.encrypted = TRUE]
<1>1. UNCHANGED server /\ Becomes(x)
  BY DEF EncryptionEnabled
<1>2. RoomGood(room[r]) /\ room[r] \in Rooms
  BY ClientIs
<1>3. Sets(Client, x, r, new)
  BY ClientIs, EncryptedSet
<1>4. /\ new \in Rooms /\ new.busy = room[r].busy /\ new.loaded = room[r].loaded
      /\ new.members_loaded = room[r].members_loaded
      /\ new.uploading = room[r].uploading /\ new.sending = room[r].sending
      /\ new.queue = room[r].queue /\ new.finished = room[r].finished
      /\ new.changed_users = room[r].changed_users
  BY <1>2 DEF Rooms
<1>5. RoomGood(new) /\ Same(room[r], new)
  BY <1>2, <1>4 DEF RoomGood, Same
<1> HIDE DEF new, x
<1> QED BY <1>1, <1>3, <1>4, <1>5, RoomChanged

-----------------------------------------------------------------------------
\* The server and the list change; the rooms are what they were, or have more
\* changed users.
LEMMA ServerAnswersKeeps ==
  ASSUME IInv, ServerAnswers
  PROVE  IInv' /\ Quiet(Client, Client')
<1>1. /\ list.current # NoRoom /\ ~list.read /\ UNCHANGED <<room, server>>
      /\ list' = [list EXCEPT !.read = TRUE,
                !.answer = [u \in User |-> IF u \in list.asked THEN server.devices[u] ELSE {}]]
  BY DEF ServerAnswers
<1> DEFINE answer == [u \in User |-> IF u \in list.asked THEN server.devices[u] ELSE {}]
           m == list'
<1>2. list \in List /\ server \in Server /\ ListGood(list)
  BY ClientIs DEF Good
<1>3. answer \in [User -> SUBSET Device]
  BY <1>2 DEF Server
<1>4. /\ m \in List /\ m.queue = list.queue /\ m.current = list.current /\ m.asked = list.asked
      /\ m.changed = list.changed /\ m.known = list.known /\ m.read /\ m.answer = answer
  <2> HIDE DEF answer
  <2> QED BY <1>1, <1>2, <1>3 DEF List, answer
<1> HIDE DEF m
<1>5. ListGood(m) /\ Rest(m)
  BY <1>1, <1>2, <1>4, ClientIs DEF ListGood, Rest
<1>6. \A r \in Room : LoadGood(m, room[r], r, {})
  <2> SUFFICES ASSUME NEW r \in Room PROVE LoadGood(m, room[r], r, {})
    OBVIOUS
  <2>1. LoadGood(list, room[r], r, {})
    BY ClientIs
  <2>2. Waiting(m, r) <=> Waiting(list, r)
    BY <1>4 DEF Waiting
  <2> QED BY <1>4, <2>1, <2>2 DEF LoadGood
<1>7. Told(m, server)
  <2>1. Told(list, server)
    BY DEF IInv
  <2> QED BY <1>4, <2>1 DEF Told
<1>8. Client' = [room |-> room, list |-> m]
  BY <1>1 DEF Client, m
<1>9. Good(Client', {})
  <2>1. Client' \in World /\ Client'.room = room /\ Client'.list = m
    BY <1>4, <1>8, ClientIs DEF World
  <2> QED BY <1>5, <1>6, <2>1, ClientIs DEF Good
<1> QED BY <1>1, <1>2, <1>5, <1>7, <1>8, <1>9, ClientIs DEF IInv, Quiet, Same, m

\* A device that changes is announced to the client.
LEMMA DeviceChangedKeeps ==
  ASSUME IInv, NEW d \in Device, DeviceChanged(d)
  PROVE  IInv' /\ Quiet(Client, Client')
<1> DEFINE u == Owner[d]
           new == IF d \in server.devices[u] THEN server.devices[u] \ {d}
                  ELSE server.devices[u] \cup {d}
<1>1. /\ server.changes < MaxChanges /\ UNCHANGED <<room, list>>
      /\ server' = [server EXCEPT !.changes = @ + 1, !.unseen = @ \cup {u}, !.devices[u] = new]
  BY DEF DeviceChanged
<1>2. server \in Server /\ u \in User
  BY ClientIs, RoomKeysAssumption
<1>3. new \in SUBSET Device
  BY <1>2 DEF Server
<1> HIDE DEF new, u
<1>4. /\ server'.unseen = server.unseen \cup {u}
      /\ server'.devices = [server.devices EXCEPT ![u] = new]
      /\ server'.changes = server.changes + 1
  BY <1>1, <1>2 DEF Server
<1>5. server' \in Server
  <2>1. server.changes + 1 \in 0 .. MaxChanges
    BY <1>1, <1>2, RoomKeysAssumption DEF Server
  <2>2. [server.devices EXCEPT ![u] = new] \in [User -> SUBSET Device]
    BY <1>2, <1>3 DEF Server
  <2>3. server.unseen \cup {u} \in SUBSET User
    BY <1>2 DEF Server
  <2>4. server' = [devices |-> [server.devices EXCEPT ![u] = new],
                   unseen |-> server.unseen \cup {u}, changes |-> server.changes + 1]
    BY <1>1, <1>2 DEF Server
  <2> QED BY <2>1, <2>2, <2>3, <2>4 DEF Server
<1>6. Told(list, server')
  <2> SUFFICES ASSUME ~MayFail("omit"), NEW v \in User \ (list.changed \cup server'.unseen)
               PROVE  IF v \in list.asked THEN list.read => list.answer[v] = server'.devices[v]
                      ELSE list.known[v] \in {{}, server'.devices[v]}
    BY DEF Told
  <2>1. v \in User \ (list.changed \cup server.unseen) /\ v # u
    BY <1>4
  <2>2. server'.devices[v] = server.devices[v]
    BY <1>2, <1>4, <2>1 DEF Server
  <2> QED BY <2>1, <2>2 DEF IInv, Told
<1>7. Client' = Client
  BY <1>1 DEF Client
<1> QED BY <1>1, <1>5, <1>6, <1>7 DEF IInv, Quiet, Same

\* handle_device_list() marks the users the server announced.
LEMMA ChangesSeenKeeps ==
  ASSUME IInv, ChangesSeen
  PROVE  IInv' /\ Quiet(Client, Client')
<1> DEFINE m == list'
           changed(r) == IF room[r].encrypted
                         THEN room[r].changed_users \cup (server.unseen \cap room[r].members)
                         ELSE room[r].changed_users
<1>1. /\ room' = [r \in Room |-> [room[r] EXCEPT !.changed_users = changed(r)]]
      /\ list' = [list EXCEPT !.changed = @ \cup server.unseen]
      /\ server' = [server EXCEPT !.unseen = {}]
  <2>1. room' = [r \in Room |->
            [room[r] EXCEPT !.changed_users =
               IF room[r].encrypted THEN @ \cup (server.unseen \cap room[r].members) ELSE @]]
    BY DEF ChangesSeen
  <2> QED BY <2>1 DEF ChangesSeen
<1>2. list \in List /\ server \in Server /\ ListGood(list)
  BY ClientIs DEF Good
<1>3. \A r \in Room : changed(r) \in SUBSET User /\ room[r].changed_users \subseteq changed(r)
  BY <1>2, ClientIs DEF Rooms, Server
<1> HIDE DEF changed
<1>4. /\ m \in List /\ m.queue = list.queue /\ m.current = list.current /\ m.asked = list.asked
      /\ m.changed = list.changed \cup server.unseen /\ m.known = list.known
      /\ m.read = list.read /\ m.answer = list.answer
  BY <1>1, <1>2 DEF List, Server
<1> HIDE DEF m
<1>5. ListGood(m) /\ Rest(m)
  BY <1>2, <1>4, ClientIs DEF ListGood, Rest
<1>6. \A r \in Room : /\ room'[r] \in Rooms /\ RoomGood(room'[r]) /\ Same(room[r], room'[r])
                      /\ LoadGood(m, room'[r], r, {})
  <2> SUFFICES ASSUME NEW r \in Room
               PROVE  /\ room'[r] \in Rooms /\ RoomGood(room'[r]) /\ Same(room[r], room'[r])
                      /\ LoadGood(m, room'[r], r, {})
    OBVIOUS
  <2> DEFINE new == [room[r] EXCEPT !.changed_users = changed(r)]
  <2>1. RoomGood(room[r]) /\ room[r] \in Rooms /\ LoadGood(list, room[r], r, {})
    BY ClientIs
  <2>2. room'[r] = new
    BY <1>1
  <2>3. /\ new \in Rooms /\ new.busy = room[r].busy /\ new.loaded = room[r].loaded
        /\ new.members_loaded = room[r].members_loaded
        /\ new.uploading = room[r].uploading /\ new.sending = room[r].sending
        /\ new.queue = room[r].queue /\ new.finished = room[r].finished
        /\ new.changed_users = changed(r)
    BY <1>3, <2>1 DEF Rooms
  <2> HIDE DEF new
  <2>4. RoomGood(new) /\ Same(room[r], new)
    BY <2>1, <2>3 DEF RoomGood, Same
  <2>5. Waiting(m, r) <=> Waiting(list, r)
    BY <1>4 DEF Waiting
  <2>6. LoadGood(m, new, r, {})
    BY <1>3, <1>4, <2>1, <2>3, <2>5 DEF LoadGood
  <2> QED BY <2>2, <2>3, <2>4, <2>6
<1>7. server'.unseen = {} /\ server'.devices = server.devices /\ server' \in Server
  BY <1>1, <1>2 DEF Server
<1>8. Told(m, server')
  <2>1. Told(list, server)
    BY DEF IInv
  <2> QED BY <1>4, <1>7, <2>1 DEF Told
<1>9. room' \in [Room -> Rooms]
  BY <1>1, <1>6
<1>10. Client' = [room |-> room', list |-> m]
  BY DEF Client, m
<1>11. Client' \in World /\ Client'.room = room' /\ Client'.list = m
  BY <1>4, <1>9, <1>10 DEF World
<1>12. Good(Client', {})
  BY <1>5, <1>6, <1>11 DEF Good
<1> QED BY <1>5, <1>6, <1>7, <1>8, <1>11, <1>12, ClientIs DEF IInv, Quiet, m

-----------------------------------------------------------------------------
\* w has the load of devices and the messages as they are; r's request is ending.
Loads(w, r) ==
  /\ w \in World
  /\ w.list.queue = list.queue /\ w.list.read = list.read /\ w.list.asked = list.asked
  /\ w.list.answer = list.answer
  /\ \A q \in Room :
       /\ RoomGood(w.room[q]) /\ Same(room[q], w.room[q])
       /\ w.room[q].busy = room[q].busy /\ w.room[q].loaded = room[q].loaded
       /\ q # r /\ room[q].changed_users # {} => w.room[q].changed_users # {}

\* The end of a request, once the devices of its users are right or they are marked:
\* the next one is sent, and the room goes on with its queue or does not.
LEMMA RequestEnds ==
  ASSUME IInv, UNCHANGED server, NEW r \in Room, list.current = r, NEW w, Loads(w, r),
         \A u \in User : \/ MayFail("omit") \/ u \in w.list.changed \cup server.unseen
                         \/ w.list.known[u] \in {{}, server.devices[u]},
         NEW x, x = Ended(EndRequest(w), r, "query"),
         Becomes(x) \/ Becomes(room_send_message_from_queue(x, r))
  PROVE  IInv' /\ Moves(Client, Client', r)
<1> DEFINE v == NoRequest(w)
           l == w.list
           m == v.list
           none == [u \in User |-> {}]
<1>1. w \in World /\ l \in List /\ list \in List /\ ListGood(list)
  BY ClientIs DEF Loads, World, Good
<1>2. v = [w EXCEPT !.list.current = NoRoom, !.list.asked = {}, !.list.read = FALSE,
                    !.list.answer = none]
  BY DEF NoRequest
<1>3. none \in [User -> SUBSET Device]
  OBVIOUS
<1> HIDE DEF none
<1>4. v = [room |-> w.room, list |-> [l EXCEPT !.current = NoRoom, !.asked = {}, !.read = FALSE,
                                               !.answer = none]]
  BY <1>1, <1>2 DEF World
<1>5. m = [l EXCEPT !.current = NoRoom, !.asked = {}, !.read = FALSE, !.answer = none]
      /\ v.room = w.room
  BY <1>4
<1>6. /\ m \in List /\ m.queue = l.queue /\ m.current = NoRoom /\ m.asked = {} /\ ~m.read
      /\ m.changed = l.changed /\ m.known = l.known
  BY <1>1, <1>3, <1>5 DEF List
<1>7. v \in World
  BY <1>1, <1>4, <1>5, <1>6 DEF World
<1> HIDE DEF m, v
<1>8. ListGood(m)
  BY <1>1, <1>6 DEF ListGood, Loads
<1>9. \A q \in Room : RoomGood(v.room[q]) /\ LoadGood(m, v.room[q], q, {r})
  <2> SUFFICES ASSUME NEW q \in Room PROVE RoomGood(v.room[q]) /\ LoadGood(m, v.room[q], q, {r})
    OBVIOUS
  <2>1. LoadGood(list, room[q], q, {}) /\ v.room[q] = w.room[q]
    BY <1>5, ClientIs
  <2>2. Waiting(m, q) <=> Waiting(list, q)
    BY <1>6 DEF Waiting, Loads
  <2>3. /\ RoomGood(w.room[q])
        /\ w.room[q].busy = room[q].busy /\ w.room[q].loaded = room[q].loaded
        /\ q # r /\ room[q].changed_users # {} => w.room[q].changed_users # {}
    BY DEF Loads
  <2>4. LoadGood(m, w.room[q], q, {r})
    BY <1>6, <2>1, <2>2, <2>3, RoomKeysAssumption DEF LoadGood
  <2> QED BY <2>1, <2>3, <2>4
<1>10. Good(v, {r})
  BY <1>7, <1>8, <1>9 DEF Good, m
<1>11. Told(v.list, server)
  BY <1>6 DEF Told, m
<1>12. PICK y : y = StartRequest(v)
  OBVIOUS
<1>13. Good(y, {r}) /\ Rest(y.list) /\ Told(y.list, server) /\ y.room = v.room
  BY <1>10, <1>11, <1>12, StartGood
<1>14. x = Ended(y, r, "query")
  BY <1>12 DEF EndRequest, v
<1>15. Good(x, {}) /\ x.list = y.list /\ Quiet(y, x)
  BY <1>13, <1>14, QueryEnded
<1>16. \A q \in Room : Same(room[q], x.room[q])
  BY <1>5, <1>13, <1>15 DEF Quiet, Same, Loads
<1> QED BY <1>13, <1>15, <1>16, ListChanged

\* A list with other changed users is a list.
LEMMA ChangedSet ==
  ASSUME NEW l \in List, NEW users \in SUBSET User, NEW m, m = [l EXCEPT !.changed = users]
  PROVE  /\ m \in List /\ m.queue = l.queue /\ m.read = l.read /\ m.asked = l.asked
         /\ m.changed = users /\ m.known = l.known /\ m.answer = l.answer
         /\ m.current = l.current
BY DEF List

\* A request that fails marks its users again.
LEMMA LoadFailedKeeps ==
  ASSUME IInv, NEW r \in Room, LoadFailed(r)
  PROVE  IInv' /\ Moves(Client, Client', r)
<1> DEFINE w == [Client EXCEPT !.list.changed = @ \cup room[r].changed_users]
           x == Ended(EndRequest(w), r, "query")
           m == w.list
           users == list.changed \cup room[r].changed_users
<1>1. list.current = r /\ UNCHANGED server /\ Becomes(x)
  BY DEF LoadFailed
<1>2. /\ room \in [Room -> Rooms] /\ list \in List /\ Client.room = room /\ Client.list = list
      /\ Client \in World /\ \A q \in Room : RoomGood(room[q])
  BY ClientIs
<1>3. w = [room |-> room, list |-> [list EXCEPT !.changed = users]]
  BY DEF Client
<1>4. users \in SUBSET User
  <2>1. room[r].changed_users \in SUBSET User /\ list.changed \in SUBSET User
    BY <1>2 DEF Rooms, List
  <2> QED BY <2>1
<1>5. m = [list EXCEPT !.changed = users] /\ w.room = room
  BY <1>3
<1> HIDE DEF m, users
<1>6. /\ m \in List /\ m.queue = list.queue /\ m.read = list.read /\ m.asked = list.asked
      /\ m.changed = users /\ m.known = list.known /\ m.answer = list.answer
  BY <1>2, <1>4, <1>5, ChangedSet
<1>7. w \in World
  BY <1>2, <1>3, <1>5, <1>6 DEF World, m
<1> HIDE DEF w, x
<1>8. Loads(w, r)
  BY <1>2, <1>5, <1>6, <1>7 DEF Loads, Same, m
<1>9. list.asked \subseteq room[r].changed_users
  <2>1. LoadGood(list, room[r], r, {})
    BY ClientIs
  <2> QED BY <1>1, <2>1 DEF LoadGood
<1>10. ASSUME NEW u \in User
       PROVE  \/ MayFail("omit") \/ u \in w.list.changed \cup server.unseen
              \/ w.list.known[u] \in {{}, server.devices[u]}
  <2>1. Told(list, server)
    BY DEF IInv
  <2> QED BY <1>6, <1>9, <2>1 DEF Told, m, users
<1>11. x = Ended(EndRequest(w), r, "query")
  BY DEF x
<1> QED BY <1>1, <1>8, <1>10, <1>11, RequestEnds

\* room_user_changed() never takes the last user a room has to load: a removed device
\* makes it load all members, and the user is one of them.
LEMMA UserChangedGood ==
  ASSUME NEW rm, RoomGood(rm), NEW u \in User, NEW added \in SUBSET Device, NEW removed,
         NEW new, new = room_user_changed(rm, u, added, removed)
  PROVE  /\ RoomGood(new) /\ Same(rm, new)
         /\ new.busy = rm.busy /\ new.loaded = rm.loaded
         /\ rm.changed_users # {} => new.changed_users # {}
<1>1. rm \in Rooms
  BY DEF RoomGood
<1>2. CASE ~rm.encrypted \/ u \notin rm.members
  BY <1>2 DEF room_user_changed, Same
<1>3. CASE rm.encrypted /\ u \in rm.members /\ removed # {}
  <2> DEFINE members == rm.members
             none == {}
  <2>1. members \in SUBSET User /\ members # {}
    BY <1>1, <1>3 DEF Rooms
  <2>2. PICK no : no = FALSE
    OBVIOUS
  <2>3. new = [rm EXCEPT !.has_key = no, !.holders = {}, !.keys_claimed = no,
                         !.changed_users = members, !.changed_devices = {}]
    BY <1>3, <2>2 DEF room_user_changed
  <2> HIDE DEF members
  <2>4. no \in BOOLEAN
    BY <2>2
  <2>5. /\ new \in Rooms /\ new.busy = rm.busy /\ new.loaded = rm.loaded
        /\ new.members_loaded = rm.members_loaded /\ new.changed_users = members
        /\ new.uploading = rm.uploading /\ new.sending = rm.sending
        /\ new.queue = rm.queue /\ new.finished = rm.finished
    BY ZenonT(30), <1>1, <2>1, <2>3, <2>4 DEF Rooms
  <2> QED BY <2>1, <2>5 DEF RoomGood, Same
<1>4. CASE rm.encrypted /\ u \in rm.members /\ removed = {} /\ added # {}
  <2> DEFINE devices == (rm.changed_devices \ DevicesOf(u)) \cup added
  <2>1. devices \in SUBSET Device
    BY <1>1 DEF Rooms
  <2>2. new = [rm EXCEPT !.changed_devices = devices]
    BY <1>4 DEF room_user_changed
  <2> HIDE DEF devices
  <2>3. /\ new \in Rooms /\ new.busy = rm.busy /\ new.loaded = rm.loaded
        /\ new.members_loaded = rm.members_loaded /\ new.changed_users = rm.changed_users
        /\ new.uploading = rm.uploading /\ new.sending = rm.sending
        /\ new.queue = rm.queue /\ new.finished = rm.finished
    BY <1>1, <2>1, <2>2 DEF Rooms
  <2> QED BY <2>3 DEF RoomGood, Same
<1>5. CASE rm.encrypted /\ u \in rm.members /\ removed = {} /\ added = {}
  BY <1>5 DEF room_user_changed, Same
<1> QED BY <1>2, <1>3, <1>4, <1>5

\* One user of an answer: the rooms hear of it, and the list has the answer.
LEMMA UserLoadedGood ==
  ASSUME IInv, NEW r \in Room, NEW w, Loads(w, r), NEW u \in User, NEW v, v = UserLoaded(w, r, u)
  PROVE  /\ Loads(v, r) /\ v.list.changed = w.list.changed
         /\ v.list.known = [w.list.known EXCEPT ![u] = list.answer[u]]
<1> DEFINE old == w.list.known[u]
           new == list.answer[u]
           told == [q \in Room |-> room_user_changed(w.room[q], u, new \ old, old \ new)]
           users == told[r].changed_users \ {u}
           last == [told[r] EXCEPT !.changed_users = users]
<1>1. w \in World /\ w.list \in List /\ w.list.answer = list.answer /\ w.room \in [Room -> Rooms]
  BY DEF Loads, World
<1>2. old \in SUBSET Device /\ new \in SUBSET Device
  BY <1>1 DEF List
<1>3. v.room = [told EXCEPT ![r] = last]
      /\ v.list = [w.list EXCEPT !.known[u] = new]
      /\ v = [room |-> v.room, list |-> v.list]
  BY <1>1 DEF UserLoaded
<1>4. /\ v.list \in List /\ v.list.queue = w.list.queue /\ v.list.read = w.list.read
      /\ v.list.asked = w.list.asked /\ v.list.changed = w.list.changed
      /\ v.list.known = [w.list.known EXCEPT ![u] = new]
      /\ v.list.answer = w.list.answer
  <2> HIDE DEF new
  <2> PICK l \in List : l = w.list
    BY <1>1
  <2> PICK devices \in SUBSET Device : devices = new
    BY <1>2
  <2>1. PICK m : m = [l EXCEPT !.known[u] = devices]
    OBVIOUS
  <2>2. /\ m \in List /\ m.queue = l.queue /\ m.read = l.read
        /\ m.asked = l.asked /\ m.changed = l.changed
        /\ m.known = [l.known EXCEPT ![u] = devices] /\ m.answer = l.answer
    BY <2>1 DEF List
  <2>3. v.list = m
    BY <1>3, <2>1
  <2> QED BY <2>2, <2>3
<1>5. ASSUME NEW q \in Room
      PROVE  /\ RoomGood(told[q]) /\ Same(w.room[q], told[q])
             /\ told[q].busy = w.room[q].busy /\ told[q].loaded = w.room[q].loaded
             /\ w.room[q].changed_users # {} => told[q].changed_users # {}
  <2>1. RoomGood(w.room[q])
    BY DEF Loads
  <2>2. new \ old \in SUBSET Device
    BY <1>2
  <2>3. told[q] = room_user_changed(w.room[q], u, new \ old, old \ new)
    OBVIOUS
  <2> HIDE DEF new, old, told
  <2> QED BY <2>1, <2>2, <2>3, UserChangedGood
<1> HIDE DEF told
<1>6. /\ RoomGood(last) /\ Same(told[r], last)
      /\ last.busy = told[r].busy /\ last.loaded = told[r].loaded
  <2>1. RoomGood(told[r]) /\ told[r] \in Rooms
    BY <1>5 DEF RoomGood
  <2>2. users \in SUBSET User
    BY <2>1 DEF Rooms
  <2> HIDE DEF users
  <2>3. /\ last \in Rooms /\ last.busy = told[r].busy /\ last.loaded = told[r].loaded
        /\ last.members_loaded = told[r].members_loaded
        /\ last.uploading = told[r].uploading /\ last.sending = told[r].sending
        /\ last.queue = told[r].queue /\ last.finished = told[r].finished
    BY <2>1, <2>2 DEF Rooms
  <2> QED BY <2>1, <2>3 DEF RoomGood, Same
<1>7. DOMAIN told = Room
  BY DEF told
<1> HIDE DEF last
<1>8. /\ v.room[r] = last /\ \A q \in Room \ {r} : v.room[q] = told[q]
      /\ DOMAIN v.room = Room /\ v.room = [q \in Room |-> IF q = r THEN last ELSE told[q]]
  BY <1>3, <1>7
<1>9. v.room \in [Room -> Rooms]
  BY <1>5, <1>6, <1>8 DEF RoomGood
<1>10. v \in World
  BY <1>3, <1>4, <1>9 DEF World
<1>11. ASSUME NEW q \in Room
       PROVE  /\ RoomGood(v.room[q]) /\ Same(room[q], v.room[q])
              /\ v.room[q].busy = room[q].busy /\ v.room[q].loaded = room[q].loaded
              /\ q # r /\ room[q].changed_users # {} => v.room[q].changed_users # {}
  <2>1. /\ Same(room[q], w.room[q])
        /\ w.room[q].busy = room[q].busy /\ w.room[q].loaded = room[q].loaded
        /\ q # r /\ room[q].changed_users # {} => w.room[q].changed_users # {}
    BY DEF Loads
  <2>2. CASE q = r
    BY <1>5, <1>6, <1>8, <2>1, <2>2 DEF Same
  <2>3. CASE q # r
    BY <1>5, <1>8, <2>1, <2>3 DEF Same
  <2> QED BY <2>2, <2>3
<1>12. Loads(v, r)
  BY <1>4, <1>10, <1>11 DEF Loads
<1> QED BY <1>4, <1>12

-----------------------------------------------------------------------------
(* The users of an answer.                                                  *)

\* One step of UsersLoaded
LoadedNext(f, r, order, n) ==
  IF n = 0 THEN Client ELSE UserLoaded(f[n - 1], r, order[n])

\* There is a function that takes k users one after the other, by induction.
LEMMA LoadedExists ==
  ASSUME NEW r, NEW order, NEW k \in Nat
  PROVE  \E f : f = [n \in 0..k |-> LoadedNext(f, r, order, n)]
<1> DEFINE T == {i \in Nat : \E f : f = [n \in 0..i |-> LoadedNext(f, r, order, n)]}
<1>1. 0 \in T
  <2> DEFINE g == [n \in 0..0 |-> Client]
  <2>1. \A n \in 0..0 : LoadedNext(g, r, order, n) = Client
    BY DEF LoadedNext
  <2>2. g = [n \in 0..0 |-> LoadedNext(g, r, order, n)]
    BY <2>1
  <2> QED BY <2>2
<1>2. ASSUME NEW i \in Nat, i \in T
      PROVE  i + 1 \in T
  <2>1. PICK f : f = [n \in 0..i |-> LoadedNext(f, r, order, n)]
    BY <1>2
  <2> DEFINE g == [n \in 0..(i + 1) |->
                     IF n = i + 1 THEN UserLoaded(f[i], r, order[i + 1]) ELSE f[n]]
  <2>2. \A n \in 0..i : g[n] = f[n]
    OBVIOUS
  <2>3. g[i + 1] = LoadedNext(g, r, order, i + 1)
    <3>1. i + 1 # 0 /\ (i + 1) - 1 = i /\ i \in 0..i /\ i + 1 \in 0..(i + 1)
      OBVIOUS
    <3> QED BY <2>2, <3>1 DEF LoadedNext
  <2>4. ASSUME NEW n \in 0..i
        PROVE  g[n] = LoadedNext(g, r, order, n)
    <3>1. f[n] = LoadedNext(f, r, order, n)
      BY <2>1
    <3>2. n # 0 => g[n - 1] = f[n - 1]
      BY <2>2
    <3> QED BY <2>2, <3>1, <3>2 DEF LoadedNext
  <2>5. DOMAIN g = 0..(i + 1) /\ \A n \in 0..(i + 1) : n \in 0..i \/ n = i + 1
    OBVIOUS
  <2>6. \A n \in 0..(i + 1) : g[n] = LoadedNext(g, r, order, n)
    BY <2>3, <2>4, <2>5
  <2>7. g = [n \in 0..(i + 1) |-> g[n]]
    OBVIOUS
  <2> HIDE DEF g
  <2>8. g = [n \in 0..(i + 1) |-> LoadedNext(g, r, order, n)]
    BY <2>6, <2>7
  <2> QED BY <2>8
<1> HIDE DEF T
<1>3. \A i \in Nat : i \in T
  BY <1>1, <1>2, Induction
<1> QED BY <1>3 DEF T

\* UsersLoaded is its last value.
LEMMA LoadedIs ==
  ASSUME NEW r, NEW order, Len(order) \in Nat
  PROVE  \E f : /\ f = [n \in 0..Len(order) |-> LoadedNext(f, r, order, n)]
                /\ UsersLoaded(r, order) = f[Len(order)]
<1> DEFINE f == CHOOSE g : g = [n \in 0..Len(order) |-> LoadedNext(g, r, order, n)]
<1>1. \E g : g = [n \in 0..Len(order) |-> LoadedNext(g, r, order, n)]
  BY LoadedExists
<1>2. f = [n \in 0..Len(order) |-> LoadedNext(f, r, order, n)]
  BY <1>1
<1>3. UsersLoaded(r, order) = f[Len(order)]
  BY DEF UsersLoaded, LoadedNext
<1> QED BY <1>2, <1>3

\* w after the users were loaded
Loaded(w, r, users) ==
  /\ Loads(w, r) /\ w.list.changed = list.changed
  /\ \A u \in User :
       w.list.known[u] = IF u \in users THEN list.answer[u] ELSE list.known[u]

\* All users of an answer, by induction over their number
LEMMA UsersLoadedGood ==
  ASSUME IInv, NEW r \in Room, NEW order \in Seq(User)
  PROVE  Loaded(UsersLoaded(r, order), r, {order[i] : i \in DOMAIN order})
<1>1. /\ Len(order) \in Nat /\ DOMAIN order = 1..Len(order)
      /\ \A i \in DOMAIN order : order[i] \in User
  OBVIOUS
<1>2. PICK f : /\ f = [n \in 0..Len(order) |-> LoadedNext(f, r, order, n)]
               /\ UsersLoaded(r, order) = f[Len(order)]
  BY <1>1, LoadedIs
<1> DEFINE Users(k) == {order[i] : i \in 1..k}
           T == {k \in Nat : k <= Len(order) => Loaded(f[k], r, Users(k))}
<1>3. 0 \in T
  <2>1. f[0] = Client
    BY <1>1, <1>2 DEF LoadedNext
  <2>2. Loads(Client, r)
    BY ClientIs DEF Loads, Same
  <2>3. Users(0) = {}
    OBVIOUS
  <2> HIDE DEF Users
  <2>4. Loaded(f[0], r, Users(0))
    BY <2>1, <2>2, <2>3, ClientIs DEF Loaded
  <2> QED BY <2>4
<1>4. ASSUME NEW k \in Nat, k \in T
      PROVE  k + 1 \in T
  <2> SUFFICES ASSUME k + 1 <= Len(order) PROVE Loaded(f[k + 1], r, Users(k + 1))
    OBVIOUS
  <2> DEFINE u == order[k + 1]
  <2>1. Loaded(f[k], r, Users(k))
    BY <1>1, <1>4
  <2>2. f[k + 1] = UserLoaded(f[k], r, u)
    <3>1. k + 1 \in 0..Len(order) /\ k + 1 # 0 /\ (k + 1) - 1 = k
      BY <1>1
    <3> QED BY <1>2, <3>1 DEF LoadedNext
  <2>3. u \in User
    BY <1>1
  <2>4. Users(k + 1) = Users(k) \cup {u}
    <3>1. 1..(k + 1) = (1..k) \cup {k + 1}
      OBVIOUS
    <3> QED BY <3>1
  <2> HIDE DEF Users, u
  <2>5. /\ Loads(f[k + 1], r) /\ f[k + 1].list.changed = f[k].list.changed
        /\ f[k + 1].list.known = [f[k].list.known EXCEPT ![u] = list.answer[u]]
    BY <2>1, <2>2, <2>3, UserLoadedGood DEF Loaded
  <2>6. DOMAIN f[k].list.known = User
    BY <2>1 DEF Loaded, Loads, World, List
  <2> QED BY <2>1, <2>4, <2>5, <2>6 DEF Loaded
<1> HIDE DEF T
<1>5. Len(order) \in T
  BY <1>1, <1>3, <1>4, Induction
<1> QED BY <1>1, <1>2, <1>5 DEF T

\* What SetToSeqs gives: sequences of the set's members, with each of them.
LEMMA OrderOf ==
  ASSUME NEW S, IsFiniteSet(S), NEW order \in SetToSeqs(S)
  PROVE  order \in Seq(S) /\ S = {order[i] : i \in DOMAIN order}
<1> DEFINE n == Cardinality(S)
<1>1. n \in Nat
  BY FS_CardinalityType
<1>2. order \in [1..n -> S] /\ \A i, j \in 1..n : order[i] = order[j] => i = j
  BY DEF SetToSeqs, IsInjective
<1>3. order \in Seq(S)
  BY <1>1, <1>2
<1>4. IsFiniteSet(1..n) /\ Cardinality(1..n) = n
  BY <1>1, FS_Interval
<1>5. order \in Injection(1..n, S)
  BY <1>2 DEF Injection, IsInjective
<1>6. order \in Surjection(1..n, S)
  BY <1>4, <1>5, FS_Injection
<1>7. DOMAIN order = 1..n /\ \A x \in S : \E i \in 1..n : order[i] = x
  BY <1>2, <1>6 DEF Surjection
<1> QED BY <1>2, <1>3, <1>7

\* device_keys_query_cb() keeps the invariant, whatever the order of the users.
LEMMA DevicesLoadedKeeps ==
  ASSUME IInv, NEW r \in Room, DevicesLoaded(r)
  PROVE  IInv' /\ Moves(Client, Client', r)
<1>1. list.current = r /\ list.read /\ UNCHANGED server
  BY DEF DevicesLoaded
<1>2. PICK users \in IF MayFail("omit") THEN SUBSET list.asked ELSE {list.asked} :
        \E order \in SetToSeqs(users) :
          LET w == EndRequest(UsersLoaded(r, order))
          IN  Becomes(room_send_message_from_queue(Ended(w, r, "query"), r))
  BY DEF DevicesLoaded
<1>3. PICK order \in SetToSeqs(users) :
        LET w == EndRequest(UsersLoaded(r, order))
        IN  Becomes(room_send_message_from_queue(Ended(w, r, "query"), r))
  BY <1>2
<1>4. users \in SUBSET list.asked /\ users \in SUBSET User /\ list.asked \in SUBSET User
  BY <1>2, ClientIs DEF List
<1>5. IsFiniteSet(users)
  BY <1>4, RoomKeysAssumption, FS_Subset
<1>6. order \in Seq(User) /\ users = {order[i] : i \in DOMAIN order}
  BY <1>3, <1>4, <1>5, OrderOf
<1>7. PICK w : w = UsersLoaded(r, order)
  OBVIOUS
<1>8. Loaded(w, r, users)
  BY <1>6, <1>7, UsersLoadedGood
<1>9. ASSUME NEW u \in User
      PROVE  \/ MayFail("omit") \/ u \in w.list.changed \cup server.unseen
             \/ w.list.known[u] \in {{}, server.devices[u]}
  <2> SUFFICES ASSUME ~MayFail("omit"), u \notin list.changed \cup server.unseen
               PROVE  w.list.known[u] \in {{}, server.devices[u]}
    BY <1>8 DEF Loaded
  <2>1. users = list.asked
    BY <1>2
  <2>2. Told(list, server)
    BY DEF IInv
  <2> QED BY <1>1, <1>8, <2>1, <2>2 DEF Loaded, Told
<1>10. PICK x : x = Ended(EndRequest(w), r, "query")
  OBVIOUS
<1>11. Becomes(room_send_message_from_queue(x, r))
  BY <1>3, <1>7, <1>10
<1> QED BY <1>1, <1>8, <1>9, <1>10, <1>11, RequestEnds DEF Loaded

-----------------------------------------------------------------------------
(* The theorems.                                                            *)

\* The invariant holds of new rooms and a new list,
LEMMA InitGood ==
  ASSUME Init
  PROVE  IInv
<1>1. ASSUME NEW r \in Room
      PROVE  /\ room[r] \in Rooms /\ room[r].busy = {} /\ ~room[r].loaded
             /\ ~room[r].uploading
  <2>1. room[r] \in NewRooms
    BY DEF Init
  <2>2. NewRooms \subseteq Rooms
    <3>1. <<>> \in Seq(Message) /\ <<>> \in Seq([msg : Message, ok : BOOLEAN])
      OBVIOUS
    <3>2. {<<>>} \subseteq Seq(Message) /\ {<<>>} \subseteq Seq([msg : Message, ok : BOOLEAN])
      BY <3>1
    <3>3. {0} \subseteq Message \cup {0}
      OBVIOUS
    <3> QED BY <3>2, <3>3 DEF NewRooms, Rooms
  <2>3. room[r].busy = {} /\ ~room[r].loaded /\ ~room[r].uploading
    BY <2>1 DEF NewRooms
  <2> QED BY <2>1, <2>2, <2>3
<1>2. /\ list.queue = <<>> /\ list.current = NoRoom /\ list.asked = {} /\ ~list.read
      /\ list.changed = {} /\ list.known = [u \in User |-> {}]
  BY DEF Init
<1>3. room \in [Room -> Rooms] /\ list \in List /\ server \in Server
  <2>1. room \in [Room -> Rooms]
    BY <1>1 DEF Init
  <2>2. list \in List
    BY DEF Init, List
  <2>3. server \in Server
    BY RoomKeysAssumption DEF Init, Server
  <2> QED BY <2>1, <2>2, <2>3
<1>4. Client \in World /\ Client.room = room /\ Client.list = list
  BY <1>3 DEF Client, World
<1>5. \A r \in Room : ~Waiting(list, r)
  BY <1>2 DEF Waiting
<1>6. \A r \in Room : RoomGood(room[r]) /\ LoadGood(list, room[r], r, {})
  BY <1>1, <1>2, <1>5, RoomKeysAssumption DEF RoomGood, LoadGood
<1>7. ListGood(list)
  BY <1>2, <1>3 DEF ListGood
<1>8. Rest(list) /\ Told(list, server)
  BY <1>2 DEF Rest, Told
<1> QED BY <1>3, <1>4, <1>6, <1>7, <1>8 DEF IInv, Good

\* and every step keeps it, and moves the messages of one room or of none.
LEMMA NextGood ==
  ASSUME IInv, [Next]_vars
  PROVE  IInv' /\ (Quiet(Client, Client') \/ \E r \in Room : Moves(Client, Client', r))
<1>1. CASE UNCHANGED vars
  BY <1>1 DEF vars, IInv, Client, Quiet, Same
<1>2. CASE \E r \in Room : Answer(r)
  BY <1>2, MembersLoadedKeeps, DevicesLoadedKeeps, LoadFailedKeeps, NothingToLoadKeeps,
     KeysClaimedKeeps, ClaimFailedKeeps, KeysUploadedKeeps, FileUploadedKeeps,
     MessageSentKeeps DEF Answer
<1>3. CASE ServerAnswers
  BY <1>3, ServerAnswersKeeps
<1>4. CASE \E r \in Room : Send(r) \/ LoadMembers(r) \/ MemberSeen(r) \/ MemberLeft(r)
                             \/ EncryptionEnabled(r)
  BY <1>4, SendKeeps, LoadMembersKeeps, MemberSeenKeeps, MemberLeftKeeps,
     EncryptionEnabledKeeps
<1>5. CASE \E d \in Device : DeviceChanged(d)
  BY <1>5, DeviceChangedKeeps
<1>6. CASE ChangesSeen
  BY <1>6, ChangesSeenKeeps
<1> QED BY <1>1, <1>2, <1>3, <1>4, <1>5, <1>6 DEF Next

\* The inductive invariant holds in every state, for any rooms, users and devices.
THEOREM RoomKeysGood == Spec => []IInv
<1>1. Init => IInv
  BY InitGood
<1>2. IInv /\ [Next]_vars => IInv'
  BY NextGood
<1> QED BY <1>1, <1>2, PTL DEF Spec

\* The type invariant
THEOREM RoomKeysTyped == Spec => []TypeOK
<1>1. IInv => TypeOK
  BY ClientIs DEF TypeOK
<1> QED BY <1>1, RoomKeysGood, PTL

\* Waits(r) says where the room waits, Waiting whether it does.
LEMMA WaitsWaiting ==
  ASSUME IInv, NEW r \in Room
  PROVE  /\ Waits(r) # {} <=> Waiting(list, r)
         /\ \A i, j \in Waits(r) : i = j
<1>1. list.queue \in Seq(Room) /\ ListGood(list)
  BY ClientIs DEF List, Good
<1>2. DOMAIN list.queue = 1..Len(list.queue)
  BY <1>1
<1>3. \A i \in Waits(r) : i \in DOMAIN list.queue /\ list.queue[i] = r
  BY <1>2 DEF Waits
<1>4. Waits(r) # {} <=> Waiting(list, r)
  BY <1>2 DEF Waits, Waiting
<1>5. \A i, j \in Waits(r) : i = j
  BY <1>1, <1>3 DEF ListGood
<1> QED BY <1>4, <1>5

\* A room that loads devices waits for exactly one thing: its turn, the request that is
\* under way, or the callback of a load that needs none.
THEOREM QueriesStayAnswered == Spec => []QueriesAreAnswered
<1>1. IInv => QueriesAreAnswered
  <2> SUFFICES ASSUME IInv, NEW r \in Room
               PROVE  /\ \A i, j \in Waits(r) : i = j
                      /\ "query" \in room[r].busy
                           <=> Waits(r) # {} \/ list.current = r \/ room[r].loaded
                      /\ ~(Waits(r) # {} /\ list.current = r)
                      /\ room[r].loaded => Waits(r) = {} /\ list.current # r
    BY DEF QueriesAreAnswered
  <2>1. LoadGood(list, room[r], r, {})
    BY ClientIs
  <2> QED BY <2>1, WaitsWaiting DEF LoadGood
<1> QED BY <1>1, RoomKeysGood, PTL

\* The steps towards a key are taken one at a time, and no request is left behind: the
\* assertions of request_device_keys_from_queue() hold.
THEOREM OneStepStays == Spec => []OneStepAtATime
<1>1. IInv => OneStepAtATime
  <2> SUFFICES ASSUME IInv PROVE OneStepAtATime
    OBVIOUS
  <2>1. ASSUME NEW r \in Room, NEW a \in room[r].busy, NEW b \in room[r].busy
        PROVE  a = b
    <3>1. RoomGood(room[r])
      BY ClientIs
    <3> QED BY <3>1 DEF RoomGood
  <2>2. list.current # NoRoom => list.asked # {}
    <3> SUFFICES ASSUME list.current # NoRoom PROVE list.asked # {}
      OBVIOUS
    <3>1. list.current \in Room
      BY ClientIs DEF List
    <3>2. LoadGood(list, room[list.current], list.current, {})
      BY <3>1, ClientIs
    <3> QED BY <3>2 DEF LoadGood
  <2>3. list.current = NoRoom => list.queue = <<>>
    BY DEF IInv, Rest
  <2> QED BY <2>1, <2>2, <2>3 DEF OneStepAtATime
<1> QED BY <1>1, RoomKeysGood, PTL

\* If the server answers for every user it was asked about, the devices a client knows
\* are never wrong unnoticed.  device_keys_query_cb() takes a user the answer leaves out
\* for loaded, hence the assumption.
THEOREM StaleStayMarked ==
  ASSUME "omit" \notin Fails
  PROVE  Spec => []StaleDevicesAreMarked
<1>1. IInv => StaleDevicesAreMarked
  BY DEF IInv, Told, MayFail, StaleDevicesAreMarked, BeingLoaded
<1> QED BY <1>1, RoomKeysGood, PTL

-----------------------------------------------------------------------------
(* The rooms implement Outbox.                                              *)

\* What a call or a callback does to the messages of a room is a step of Outbox.
LEMMA MovesStep ==
  ASSUME IInv, IInv', NEW r \in Room, Moves(Client, Client', r)
  PROVE  Messages!Step(r)
<1> DEFINE a == room[r]
           b == room'[r]
<1>1. /\ Client.room = room /\ Client'.room = room' /\ a \in Rooms
      /\ room \in [Room -> Rooms] /\ room' \in [Room -> Rooms]
  <2>1. Client'.room = room'
    BY DEF Client
  <2>2. room' \in [Room -> Rooms]
    BY <2>1 DEF IInv, Good, World
  <2> QED BY <2>1, <2>2, ClientIs
<1>2. PICK x : /\ \A q \in Room \ {r} : Same(room[q], x.room[q])
               /\ Same(a, x.room[r]) \/ Puts(a, x.room[r]) \/ Returns(a, x.room[r])
               /\ Sends(x, Client', r)
  BY <1>1 DEF Moves
<1> DEFINE y == x.room[r]
           queue == y.queue
           ended == y.finished
           busy == IF ended = a.finished THEN a.sending ELSE 0
<1>3. \A q \in Room \ {r} : Same(room[q], room'[q])
  BY <1>1, <1>2 DEF Sends, Quiet, Same
<1>4. Same(y, b) \/ Takes(y, b)
  BY <1>1, <1>2 DEF Sends, Quiet
<1>5. a.queue \in Seq(Message) /\ a.finished \in Seq([msg : Message, ok : BOOLEAN])
      /\ a.sending \in Message \cup {0}
  BY <1>1 DEF Rooms
<1>6. \A e : Append(a.finished, e) # a.finished
  <2>1. \A e : Len(Append(a.finished, e)) = Len(a.finished) + 1 /\ Len(a.finished) \in Nat
    BY <1>5
  <2> QED BY <2>1
<1>7. /\ queue \in Messages!Queues(r) /\ ended \in Messages!Endings(r)
      /\ queue = a.queue \/ ended = a.finished
      /\ y.sending = busy
  <2>1. CASE Same(a, y)
    BY <2>1 DEF Same, Messages!Queues, Messages!Endings
  <2>2. CASE Puts(a, y)
    BY <2>2 DEF Puts, Messages!Queues, Messages!Endings, Messages!Total
  <2>3. CASE Returns(a, y)
    BY <1>6, <2>3 DEF Returns, Messages!Queues, Messages!Endings
  <2> QED BY <1>2, <2>1, <2>2, <2>3
<1>8. /\ [q \in Room |-> room'[q].finished]
           = [[q \in Room |-> room[q].finished] EXCEPT ![r] = ended]
      /\ \/ /\ [q \in Room |-> room'[q].queue]
                 = [[q \in Room |-> room[q].queue] EXCEPT ![r] = queue]
            /\ [q \in Room |-> room'[q].sending]
                 = [[q \in Room |-> room[q].sending] EXCEPT ![r] = busy]
         \/ /\ busy = 0 /\ queue # <<>>
            /\ [q \in Room |-> room'[q].queue]
                 = [[q \in Room |-> room[q].queue] EXCEPT ![r] = Tail(queue)]
            /\ [q \in Room |-> room'[q].sending]
                 = [[q \in Room |-> room[q].sending] EXCEPT ![r] = Head(queue)]
  BY <1>3, <1>4, <1>7 DEF Same, Takes
<1> QED BY <1>7, <1>8 DEF Messages!Step

\* What leaves the messages alone is no step of it.
LEMMA QuietStutters ==
  ASSUME IInv, IInv', Quiet(Client, Client')
  PROVE  UNCHANGED Messages!vars
<1>1. Client.room = room /\ Client'.room = room'
  BY DEF Client
<1> QED BY <1>1 DEF Quiet, Same, Messages!vars

\* Each room sends each message once, one at a time and in the order of the calls,
\* whatever requests fail and whoever joins or changes devices meanwhile.
THEOREM RoomsImplementOutbox == Spec => ImplementsOutbox
<1>1. Init => Messages!Init
  <2> SUFFICES ASSUME Init PROVE Messages!Init
    OBVIOUS
  <2>1. \A r \in Room : room[r].queue = <<>> /\ room[r].sending = 0 /\ room[r].finished = <<>>
    BY DEF Init, NewRooms
  <2> QED BY <2>1 DEF Messages!Init
<1>2. IInv /\ [Next]_vars => [Messages!Next]_(Messages!vars)
  <2> SUFFICES ASSUME IInv, [Next]_vars
               PROVE  Messages!Next \/ UNCHANGED Messages!vars
    OBVIOUS
  <2>1. IInv' /\ (Quiet(Client, Client') \/ \E r \in Room : Moves(Client, Client', r))
    BY NextGood
  <2>2. CASE Quiet(Client, Client')
    BY <2>1, <2>2, QuietStutters
  <2>3. CASE \E r \in Room : Moves(Client, Client', r)
    BY <2>1, <2>3, MovesStep DEF Messages!Next
  <2> QED BY <2>1, <2>2, <2>3
<1> QED BY <1>1, <1>2, RoomKeysGood, PTL DEF Spec, ImplementsOutbox, Messages!Spec

===============================================================================
