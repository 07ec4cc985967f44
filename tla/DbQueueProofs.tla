----------------------------- MODULE DbQueueProofs -----------------------------
(***************************************************************************)
(* Proofs about DbQueue, for any tables, any calls and any number of them. *)
(*                                                                         *)
(* What the queue does to its tasks does not depend on what they do to the *)
(* tables.  Good is the inductive invariant of the one, Kept that of the   *)
(* other; both are operators of the parts of a state, so that the tasks of *)
(* a step between two changes can be spoken of.                            *)
(***************************************************************************)
EXTENDS DbQueue, SequenceTheorems, WellFoundedInduction, TLAPS

-----------------------------------------------------------------------------
(* Induction over a set of numbers.  It is stated of the set of those of   *)
(* which something is true, so that no operator is its parameter.          *)

\* What is true of 0, and of the next number if it is of a number, is true of all.
LEMMA Induction ==
  ASSUME NEW T, 0 \in T, \A n \in Nat : n \in T => n + 1 \in T
  PROVE  \A n \in Nat : n \in T
<1> SUFFICES ASSUME Nat \ T # {} PROVE FALSE
  OBVIOUS
<1> DEFINE R == {p \in Nat \X Nat : p[1] < p[2]}
<1>1. IsWellFoundedOn(R, Nat)
  BY NatLessThanWellFounded DEF OpToRel
<1>2. \A x, y \in Nat : y < x => <<y, x>> \in R
  OBVIOUS
<1> HIDE DEF R
<1>3. PICK x \in Nat \ T : \A y \in Nat \ T : <<y, x>> \notin R
  BY <1>1, WFMin
<1>4. x # 0 /\ x - 1 \in Nat /\ x - 1 < x /\ x - 1 + 1 = x
  BY <1>3
<1>5. x - 1 \in T
  <2>1. <<x - 1, x>> \in R
    BY <1>2, <1>3, <1>4
  <2> QED BY <1>3, <1>4, <2>1
<1>6. x \in T
  BY <1>4, <1>5
<1> QED BY <1>6

-----------------------------------------------------------------------------
\* A task and nothing else
IsTask(t) ==
  /\ t = [req |-> t.req, stage |-> t.stage, result |-> t.result, held |-> t.held]
  /\ t.stage \in Stages
  /\ t.held \in BOOLEAN

\* The tasks made so far; there is at least the one that opens the database.
Tasks(ts) ==
  /\ ts \in Seq(Range(ts)) /\ 1 \in DOMAIN ts
  /\ \A i \in DOMAIN ts : IsTask(ts[i])

\* The queue holds what was not run yet.
Queued(q, ts) ==
  /\ q \in Seq(DOMAIN ts) /\ IsInjective(q)
  /\ Range(q) = {i \in DOMAIN ts : ts[i].stage = "queued"}

\* Nobody but the call that waits for a task is told of its result.
Waited(ws, ts) ==
  /\ ws \in Seq(DOMAIN ts) /\ IsInjective(ws)
  /\ \A i \in Range(ws) : ts[i].stage # "delivered" /\ ts[i].req.op \in Sync

\* The worker holds one task at most that is no longer in the queue.
HeldBy(w, ts) ==
  /\ \A i \in DOMAIN ts : ts[i].stage = "queued" => ts[i].held
  /\ w = "busy" <=> \E i \in DOMAIN ts : ts[i].held /\ ts[i].stage # "queued"
  /\ \A i, j \in DOMAIN ts :
       ts[i].held /\ ts[i].stage # "queued" /\ ts[j].held /\ ts[j].stage # "queued" => i = j

\* Once the database is to be closed nobody can call, no other task is left, and
\* it is not opened again, so that it is closed once.
CloseIsLast(o, ts, a) ==
  \A i \in DOMAIN ts : ts[i].req.op = "close" =>
    /\ ~a
    /\ \A j \in DOMAIN ts \ {i} : ts[j].stage = "delivered" /\ ~ts[j].held
    /\ ts[i].stage # "queued" => ~o

\* The inductive invariant for the queue
Good(o, q, w, ts, ws, a) ==
  /\ o \in BOOLEAN /\ a \in BOOLEAN /\ w \in {"idle", "busy", "ended", "stuck"}
  /\ Tasks(ts)
  /\ Queued(q, ts)
  /\ Waited(ws, ts)
  /\ HeldBy(w, ts)
  /\ CloseIsLast(o, ts, a)

Inv == Good(open, queue, worker, task, waits, app)

-----------------------------------------------------------------------------
(* What the tasks leave in the tables.                                      *)

Ran(ts, i) == ts[i].stage # "queued"
Deletes(ts) == {i \in DOMAIN ts : ts[i].req.op = "delete_client"}
Adds(ts, s) == {i \in DOMAIN ts : ts[i].req.op = "add_session" /\ ts[i].req.session = s}

\* The calls of an application
IsCall(req) ==
  /\ req.op \in {"save_client", "load_client", "save_room", "delete_client",
                 "save_file_enc", "find_file_enc", "add_session", "lookup_session",
                 "lookup_room_session", "lookup_olm_session", "mark_user_device_change",
                 "update_user_devices", "update_device", "add_room_events",
                 "get_past_events"}
  /\ req.op = "add_room_events" => req.events \in Seq(Event)

\* The first task opens the database, and no other.
Kinds(ts) ==
  /\ ts[1].req = OpenCall
  /\ \A i \in DOMAIN ts \ {1} : ts[i].req = CloseCall \/ IsCall(ts[i].req)

\* Only a call to the front overtakes another, in the queue...
Ordered(q, ts) ==
  \A m, n \in DOMAIN q : m < n /\ q[n] < q[m] => ts[q[m]].req.op \in ToFront

\* ... and with the worker.
InTurn(ts) ==
  \A k \in DOMAIN ts : Ran(ts, k) /\ ts[k].req.op \notin ToFront
                         => \A j \in DOMAIN ts : j < k => Ran(ts, j)

\* A task has no result before it is run.
Unanswered(ts) == \A i \in DOMAIN ts : ~Ran(ts, i) => ts[i].result = NULL

\* The tables as far as the properties look at them
Shape(d) ==
  /\ {"next_batch", "prev_batch", "outdated", "sessions", "usable"} \subseteq DOMAIN d
  /\ DOMAIN d.prev_batch = Room
  /\ d.sessions \in Seq(Range(d.sessions))

\* A lookup finds the session.
Found(d, s) == Contains(d.sessions, s) /\ s \in d.usable

\* A session that was stored, and never as one not to be used, is found.
Stored(d, ts) ==
  \A s : \A i \in Adds(ts, s) :
    /\ Ran(ts, i) /\ ts[i].result # "error"
    /\ \A k \in Adds(ts, s) : ts[k].req.usable
    /\ \A k \in Deletes(ts) : ~Ran(ts, k)
    => Found(d, s)

\* What LookupFindsStored says, of any tasks
FindsStored(ts) ==
  \A j \in DOMAIN ts : ts[j].req.op = "lookup_session" =>
    \A i \in Adds(ts, ts[j].req.session) :
      /\ i < j /\ Ran(ts, j) /\ ts[j].result # "error" /\ ts[i].result # "error"
      /\ \A k \in Adds(ts, ts[j].req.session) : ts[k].req.usable
      /\ \A k \in Deletes(ts) : k > j
      => ts[j].result = ts[j].req.session

\* i is the last of the calls J that settle something, has done so, and the account
\* was not deleted since.
Settles(ts, J, i) ==
  /\ i \in J /\ \A j \in J : j <= i
  /\ ts[i].result = "ok" /\ \A k \in Deletes(ts) : k < i

Saves(ts)    == {i \in DOMAIN ts : ts[i].req.op = "save_client"}
Rooms(ts, r) == {i \in DOMAIN ts : ts[i].req.op = "save_room" /\ ts[i].req.room = r}
Marks(ts, u) ==
  {i \in DOMAIN ts : ts[i].req.op = "mark_user_device_change" /\ u \in ts[i].req.users}
Loads(ts, u) ==
  {i \in DOMAIN ts : ts[i].req.op = "update_user_devices" /\ u = ts[i].req.user}

\* What LastCallWins says, of any tables and tasks
LastWins(d, ts) ==
  /\ \A i \in DOMAIN ts : Settles(ts, Saves(ts), i) => d.next_batch = ts[i].req.batch
  /\ \A r \in Room : \A i \in DOMAIN ts :
       Settles(ts, Rooms(ts, r), i) => d.prev_batch[r] = ts[i].req.prev
  /\ \A u \in User : \A i \in DOMAIN ts :
       Settles(ts, Marks(ts, u) \cup Loads(ts, u), i)
         => (u \in d.outdated <=> i \in Marks(ts, u) /\ ts[i].req.outdated)

\* The inductive invariant for the tables
Kept(d, q, ts) ==
  /\ Kinds(ts) /\ Ordered(q, ts) /\ InTurn(ts) /\ Unanswered(ts)
  /\ Shape(d) /\ Stored(d, ts) /\ FindsStored(ts) /\ LastWins(d, ts)

-----------------------------------------------------------------------------
(* Sequences without repetitions.                                          *)

\* A queue with one more task behind all others
LEMMA Appended ==
  ASSUME NEW S, NEW q \in Seq(S), NEW x, IsInjective(q), x \notin Range(q)
  PROVE  /\ Append(q, x) \in Seq(S \cup {x}) /\ IsInjective(Append(q, x))
         /\ Range(Append(q, x)) = Range(q) \cup {x}
<1>1. /\ Append(q, x) \in Seq(S \cup {x})
      /\ DOMAIN q = 1 .. Len(q) /\ Len(q) \in Nat
      /\ DOMAIN Append(q, x) = 1 .. Len(q) + 1
      /\ \A i \in 1 .. Len(q) : Append(q, x)[i] = q[i]
      /\ Append(q, x)[Len(q) + 1] = x
  OBVIOUS
<1>2. Range(Append(q, x)) = Range(q) \cup {x}
  BY <1>1 DEF Range
<1>3. IsInjective(Append(q, x))
  BY <1>1 DEF IsInjective, Range
<1> QED BY <1>1, <1>2, <1>3

\* A queue with one more task before all others
LEMMA Prepended ==
  ASSUME NEW S, NEW q \in Seq(S), NEW x, IsInjective(q), x \notin Range(q)
  PROVE  /\ <<x>> \o q \in Seq(S \cup {x}) /\ IsInjective(<<x>> \o q)
         /\ Range(<<x>> \o q) = Range(q) \cup {x}
<1>1. /\ <<x>> \o q \in Seq(S \cup {x})
      /\ DOMAIN q = 1 .. Len(q) /\ Len(q) \in Nat
      /\ DOMAIN (<<x>> \o q) = 1 .. Len(q) + 1
      /\ \A i \in 1 .. Len(q) : (<<x>> \o q)[i + 1] = q[i]
      /\ (<<x>> \o q)[1] = x
  OBVIOUS
<1>2. ASSUME NEW i \in 1 .. Len(q) + 1, i # 1
      PROVE  i - 1 \in 1 .. Len(q) /\ (<<x>> \o q)[i] = q[i - 1]
  BY <1>1, <1>2
<1>3. Range(<<x>> \o q) = Range(q) \cup {x}
  <2>1. Range(q) \subseteq Range(<<x>> \o q)
    <3> SUFFICES ASSUME NEW y \in Range(q)
                 PROVE  y \in Range(<<x>> \o q)
      OBVIOUS
    <3>1. PICK i \in 1 .. Len(q) : y = q[i]
      BY <1>1 DEF Range
    <3>2. i + 1 \in 1 .. Len(q) + 1 /\ (<<x>> \o q)[i + 1] = y
      BY <1>1, <3>1
    <3> QED BY <1>1, <3>2 DEF Range
  <2>2. Range(<<x>> \o q) \subseteq Range(q) \cup {x}
    BY <1>1, <1>2 DEF Range
  <2>3. x \in Range(<<x>> \o q)
    BY <1>1 DEF Range
  <2> QED BY <2>1, <2>2, <2>3
<1>4. IsInjective(<<x>> \o q)
  BY <1>1, <1>2 DEF IsInjective, Range
<1> QED BY <1>1, <1>3, <1>4

\* A queue without the task the worker takes
LEMMA WithoutHead ==
  ASSUME NEW S, NEW q \in Seq(S), IsInjective(q), q # <<>>
  PROVE  /\ Head(q) \in Range(q) /\ Tail(q) \in Seq(S) /\ IsInjective(Tail(q))
         /\ Range(Tail(q)) = Range(q) \ {Head(q)}
<1>1. /\ Tail(q) \in Seq(S)
      /\ DOMAIN q = 1 .. Len(q) /\ Len(q) \in Nat \ {0}
      /\ DOMAIN Tail(q) = 1 .. Len(q) - 1
      /\ \A i \in 1 .. Len(q) - 1 : Tail(q)[i] = q[i + 1]
      /\ Head(q) = q[1]
  OBVIOUS
<1>2. Head(q) \in Range(q)
  BY <1>1 DEF Range
<1>3. IsInjective(Tail(q))
  BY <1>1 DEF IsInjective
<1>4. ASSUME NEW y \in Range(q), y # Head(q)
      PROVE  y \in Range(Tail(q))
  <2>1. PICK i \in 1 .. Len(q) : y = q[i]
    BY <1>1 DEF Range
  <2>2. i - 1 \in 1 .. Len(q) - 1 /\ Tail(q)[i - 1] = y
    BY <1>1, <1>4, <2>1
  <2> QED BY <1>1, <2>2 DEF Range
<1>5. Range(Tail(q)) \subseteq Range(q) \ {Head(q)}
  BY <1>1 DEF Range, IsInjective
<1> QED BY <1>1, <1>2, <1>3, <1>4, <1>5

\* The stack of waits without the innermost one
LEMMA WithoutLast ==
  ASSUME NEW S, NEW q \in Seq(S), IsInjective(q), q # <<>>
  PROVE  /\ Last(q) \in Range(q) /\ Front(q) \in Seq(S) /\ IsInjective(Front(q))
         /\ Range(Front(q)) \subseteq Range(q) \ {Last(q)}
<1>1. /\ DOMAIN q = 1 .. Len(q) /\ Len(q) \in Nat \ {0}
      /\ Front(q) \in Seq(S)
      /\ DOMAIN Front(q) = 1 .. Len(q) - 1
      /\ \A i \in 1 .. Len(q) - 1 : Front(q)[i] = q[i]
      /\ Last(q) = q[Len(q)]
  BY DEF Front, Last
<1> QED BY <1>1 DEF Range, IsInjective

-----------------------------------------------------------------------------
(* What a change of one task leaves of the others.                         *)

\* us are the tasks ts with the stage of one of them changed.
Moved(ts, us, id, stage) ==
  /\ Tasks(us) /\ DOMAIN us = DOMAIN ts
  /\ \A i \in DOMAIN ts :
       /\ us[i].req = ts[i].req /\ us[i].held = ts[i].held
       /\ us[i].stage = IF i = id THEN stage ELSE ts[i].stage
       /\ i # id => us[i].result = ts[i].result

\* One task is replaced by another.
LEMMA Replaced ==
  ASSUME NEW ts, Tasks(ts), NEW id \in DOMAIN ts, NEW t, IsTask(t),
         NEW us, us = [ts EXCEPT ![id] = t]
  PROVE  /\ Tasks(us) /\ DOMAIN us = DOMAIN ts /\ us[id] = t
         /\ \A i \in DOMAIN ts : i # id => us[i] = ts[i]
<1>1. ts \in Seq(Range(ts)) /\ 1 \in DOMAIN ts /\ \A i \in DOMAIN ts : IsTask(ts[i])
  BY DEF Tasks
<1>2. DOMAIN us = DOMAIN ts /\ us[id] = t /\ \A i \in DOMAIN ts : i # id => us[i] = ts[i]
  BY <1>1
<1>3. us \in Seq(Range(ts) \cup {t})
  <2>1. ts \in Seq(Range(ts) \cup {t}) /\ id \in 1 .. Len(ts)
    BY <1>1, SeqMonotonic
  <2> QED BY <2>1, ExceptSeq
<1>4. us \in Seq(Range(us))
  BY <1>3, SeqOfRange
<1> QED BY <1>1, <1>2, <1>4 DEF Tasks

\* One task's stage is changed, and not its result.
LEMMA StageChanged ==
  ASSUME NEW ts, Tasks(ts), NEW id \in DOMAIN ts, NEW stage \in Stages
  PROVE  /\ Moved(ts, [ts EXCEPT ![id].stage = stage], id, stage)
         /\ [ts EXCEPT ![id].stage = stage][id].result = ts[id].result
<1> DEFINE t == [ts[id] EXCEPT !.stage = stage]
           us == [ts EXCEPT ![id] = t]
<1>1. IsTask(ts[id])
  BY DEF Tasks
<1>2. /\ IsTask(t) /\ t.req = ts[id].req /\ t.held = ts[id].held /\ t.stage = stage
      /\ t.result = ts[id].result
  BY <1>1 DEF IsTask
<1> HIDE DEF t
<1>3. /\ Tasks(us) /\ DOMAIN us = DOMAIN ts /\ us[id] = t
      /\ \A i \in DOMAIN ts : i # id => us[i] = ts[i]
  BY <1>2, Replaced
<1>4. us = [ts EXCEPT ![id].stage = stage]
  BY DEF t
<1> HIDE DEF us
<1> QED BY <1>2, <1>3, <1>4 DEF Moved

\* The worker returns the result of a task.
LEMMA ResultReturned ==
  ASSUME NEW ts, Tasks(ts), NEW id \in DOMAIN ts, NEW result
  PROVE  LET us == [ts EXCEPT ![id].stage = "returned", ![id].result = result]
         IN  Moved(ts, us, id, "returned") /\ us[id].result = result
<1> DEFINE us == [ts EXCEPT ![id].stage = "returned"]
           t  == [us[id] EXCEPT !.result = result]
           vs == [us EXCEPT ![id] = t]
<1>1. Moved(ts, us, id, "returned")
  BY StageChanged DEF Stages
<1> HIDE DEF us
<1>2. Tasks(us) /\ DOMAIN us = DOMAIN ts /\ id \in DOMAIN us /\ IsTask(us[id])
  BY <1>1 DEF Moved, Tasks
<1>3. /\ IsTask(t) /\ t.req = us[id].req /\ t.held = us[id].held /\ t.stage = us[id].stage
      /\ t.result = result
  BY <1>2 DEF IsTask
<1> HIDE DEF t
<1>4. /\ Tasks(vs) /\ DOMAIN vs = DOMAIN us /\ vs[id] = t
      /\ \A i \in DOMAIN us : i # id => vs[i] = us[i]
  BY <1>2, <1>3, Replaced
<1>5. vs = [ts EXCEPT ![id].stage = "returned", ![id].result = result]
  BY DEF t, us
<1> HIDE DEF vs
<1> QED BY <1>1, <1>2, <1>3, <1>4, <1>5 DEF Moved

\* us are the tasks ts with one of them let go of.
LetGo(ts, us, id) ==
  /\ Tasks(us) /\ DOMAIN us = DOMAIN ts
  /\ \A i \in DOMAIN ts :
       /\ us[i].req = ts[i].req /\ us[i].stage = ts[i].stage
       /\ us[i].result = ts[i].result
       /\ us[i].held <=> i # id /\ ts[i].held

\* One task is let go of.
LEMMA HeldChanged ==
  ASSUME NEW ts, Tasks(ts), NEW id \in DOMAIN ts, NEW b \in BOOLEAN, ~b
  PROVE  LetGo(ts, [ts EXCEPT ![id].held = b], id)
<1> DEFINE t == [ts[id] EXCEPT !.held = b]
           us == [ts EXCEPT ![id] = t]
<1>1. IsTask(ts[id])
  BY DEF Tasks
<1>2. /\ IsTask(t) /\ t.req = ts[id].req /\ t.stage = ts[id].stage /\ t.held = b
      /\ t.result = ts[id].result
  BY <1>1 DEF IsTask
<1> HIDE DEF t
<1>3. /\ Tasks(us) /\ DOMAIN us = DOMAIN ts /\ us[id] = t
      /\ \A i \in DOMAIN ts : i # id => us[i] = ts[i]
  BY <1>2, Replaced
<1>4. us = [ts EXCEPT ![id].held = b]
  BY DEF t
<1> HIDE DEF us
<1> QED BY <1>2, <1>3, <1>4 DEF LetGo

\* The same, as the actions write it
LEMMA HeldNoMore ==
  ASSUME NEW ts, Tasks(ts), NEW id \in DOMAIN ts
  PROVE  LetGo(ts, [ts EXCEPT ![id].held = FALSE], id)
BY HeldChanged, Zenon

\* us are the tasks ts and a new one.
Made(ts, us, req) ==
  /\ Tasks(us) /\ DOMAIN us = DOMAIN ts \cup {Len(ts) + 1} /\ Len(ts) + 1 \notin DOMAIN ts
  /\ \A i \in DOMAIN ts : us[i] = ts[i]
  /\ LET t == us[Len(ts) + 1] IN t.req = req /\ t.stage = "queued" /\ t.held /\ t.result = NULL

\* A call makes a task.
LEMMA TaskMade ==
  ASSUME NEW ts, Tasks(ts), NEW req
  PROVE  Made(ts, Append(ts, NewTask(req)), req)
<1> DEFINE us == Append(ts, NewTask(req))
<1>1. /\ ts \in Seq(Range(ts)) /\ DOMAIN ts = 1 .. Len(ts) /\ Len(ts) \in Nat
      /\ 1 \in DOMAIN ts /\ \A i \in DOMAIN ts : IsTask(ts[i])
  BY DEF Tasks
<1>2. us \in Seq(Range(ts) \cup {NewTask(req)})
  BY <1>1
<1>3. /\ DOMAIN us = 1 .. Len(ts) + 1 /\ us[Len(ts) + 1] = NewTask(req)
      /\ \A i \in 1 .. Len(ts) : us[i] = ts[i]
  BY <1>1
<1>4. us \in Seq(Range(us))
  BY <1>2, SeqOfRange
<1>5. /\ IsTask(NewTask(req)) /\ NewTask(req).req = req
      /\ NewTask(req).stage = "queued" /\ NewTask(req).held
      /\ NewTask(req).result = NULL
  BY DEF NewTask, IsTask, Stages
<1>6. Tasks(us)
  <2> HIDE DEF us
  <2> QED BY <1>1, <1>3, <1>4, <1>5 DEF Tasks
<1> HIDE DEF us
<1>7. Made(ts, us, req)
  BY <1>1, <1>3, <1>5, <1>6 DEF Made
<1> QED BY <1>7 DEF us

-----------------------------------------------------------------------------
(* What each change makes of a good state.                                 *)

\* A call, while the application may make one
LEMMA CallGood ==
  ASSUME NEW o, NEW q, NEW w, NEW ts, NEW ws, NEW us, NEW req, NEW p, NEW vs,
         NEW a, Good(o, q, w, ts, ws, a), a, Made(ts, us, req), req.op # "close",
         \/ p = Append(q, Len(ts) + 1)
         \/ p = <<Len(ts) + 1>> \o q,
         \/ vs = ws
         \/ req.op \in Sync /\ vs = Append(ws, Len(ts) + 1)
  PROVE  Good(o, p, w, us, vs, a)
<1> DEFINE id == Len(ts) + 1
<1>1. /\ Tasks(us) /\ DOMAIN us = DOMAIN ts \cup {id} /\ id \notin DOMAIN ts
      /\ \A i \in DOMAIN ts : us[i] = ts[i]
      /\ us[id].req = req /\ us[id].stage = "queued" /\ us[id].held
  BY DEF Made
<1> HIDE DEF id
<1>2. Queued(p, us)
  <2>1. q \in Seq(DOMAIN ts) /\ IsInjective(q) /\ id \notin Range(q)
    BY <1>1 DEF Good, Queued
  <2>2. p \in Seq(DOMAIN us) /\ IsInjective(p) /\ Range(p) = Range(q) \cup {id}
    <3>1. /\ Append(q, id) \in Seq(DOMAIN ts \cup {id}) /\ IsInjective(Append(q, id))
          /\ Range(Append(q, id)) = Range(q) \cup {id}
      BY <2>1, Appended
    <3>2. /\ <<id>> \o q \in Seq(DOMAIN ts \cup {id}) /\ IsInjective(<<id>> \o q)
          /\ Range(<<id>> \o q) = Range(q) \cup {id}
      BY <2>1, Prepended
    <3>3. p = Append(q, id) \/ p = <<id>> \o q
      BY DEF id
    <3> QED BY <1>1, <3>1, <3>2, <3>3, Zenon
  <2> QED BY <1>1, <2>2 DEF Good, Queued
<1>3. Waited(vs, us)
  <2>1. ws \in Seq(DOMAIN ts) /\ IsInjective(ws) /\ Range(ws) \subseteq DOMAIN ts
        /\ \A i \in Range(ws) : ts[i].stage # "delivered" /\ ts[i].req.op \in Sync
    BY RangeOfSeq DEF Good, Waited
  <2>2. CASE vs = ws
    BY <1>1, <2>1, <2>2, SeqMonotonic DEF Waited
  <2>3. CASE req.op \in Sync /\ vs = Append(ws, id)
    <3>1. id \notin Range(ws)
      BY <1>1, <2>1
    <3>2. /\ Append(ws, id) \in Seq(DOMAIN ts \cup {id}) /\ IsInjective(Append(ws, id))
          /\ Range(Append(ws, id)) = Range(ws) \cup {id}
      BY <2>1, <3>1, Appended
    <3>3. vs \in Seq(DOMAIN us) /\ IsInjective(vs) /\ Range(vs) = Range(ws) \cup {id}
      BY <1>1, <2>3, <3>2, Zenon
    <3> QED BY <1>1, <2>1, <2>3, <3>3 DEF Waited
  <2> QED BY <2>2, <2>3 DEF id
<1>4. HeldBy(w, us)
  BY <1>1 DEF Good, HeldBy
<1>5. CloseIsLast(o, us, a)
  BY <1>1 DEF Good, CloseIsLast
<1> QED BY <1>1, <1>2, <1>3, <1>4, <1>5 DEF Good

\* The database is open and nothing refers to it any more.
Disposable(o, q, w, ts, ws, a) == Good(o, q, w, ts, ws, a) /\ o /\ Unused(a, ts)

\* The task that closes the database, once nothing else is alive
LEMMA CloseGood ==
  ASSUME NEW q, NEW w, NEW ts, NEW ws, NEW us, NEW p, NEW vs,
         NEW o, NEW a, Disposable(o, q, w, ts, ws, a),
         Made(ts, us, CloseCall), p = Append(q, Len(ts) + 1),
         vs = ws \/ vs = Append(ws, Len(ts) + 1)
  PROVE  Good(o, p, w, us, vs, a)
<1> DEFINE id == Len(ts) + 1
<1>0. Good(o, q, w, ts, ws, a) /\ o /\ Unused(a, ts)
  BY DEF Disposable
<1>1. /\ Tasks(us) /\ DOMAIN us = DOMAIN ts \cup {id} /\ id \notin DOMAIN ts
      /\ \A i \in DOMAIN ts : us[i] = ts[i]
      /\ us[id].req = CloseCall /\ us[id].stage = "queued" /\ us[id].held
  BY DEF Made
<1>2. \A i \in DOMAIN ts : ~ts[i].held /\ ts[i].stage = "delivered"
  BY <1>0 DEF Unused, Alive
<1>3. \A i \in DOMAIN ts : ts[i].req.op # "close"
  BY <1>0, <1>2 DEF Good, CloseIsLast
<1> HIDE DEF id
<1>4. Queued(p, us)
  <2>1. q \in Seq(DOMAIN ts) /\ IsInjective(q) /\ id \notin Range(q)
    BY <1>0, <1>1 DEF Good, Queued
  <2>2. p \in Seq(DOMAIN us) /\ IsInjective(p) /\ Range(p) = Range(q) \cup {id}
    BY <1>1, <2>1, Appended DEF id
  <2> QED BY <1>0, <1>1, <2>2 DEF Good, Queued
<1>5. Waited(vs, us)
  <2>1. ws \in Seq(DOMAIN ts) /\ IsInjective(ws) /\ Range(ws) \subseteq DOMAIN ts
        /\ \A i \in Range(ws) : ts[i].stage # "delivered" /\ ts[i].req.op \in Sync
    BY <1>0, RangeOfSeq DEF Good, Waited
  <2>2. CASE vs = ws
    BY <1>1, <2>1, <2>2, SeqMonotonic DEF Waited
  <2>3. CASE vs = Append(ws, id)
    <3>1. vs \in Seq(DOMAIN us) /\ IsInjective(vs) /\ Range(vs) = Range(ws) \cup {id}
      BY <1>1, <2>1, <2>3, Appended
    <3>2. us[id].req.op \in Sync
      BY <1>1 DEF CloseCall, Sync
    <3> QED BY <1>1, <2>1, <3>1, <3>2 DEF Waited
  <2> QED BY <2>2, <2>3 DEF id
<1>6. HeldBy(w, us)
  BY <1>0, <1>1 DEF Good, HeldBy
<1>7. CloseIsLast(o, us, a)
  BY <1>0, <1>1, <1>2, <1>3 DEF CloseIsLast, Unused
<1> QED BY <1>0, <1>1, <1>4, <1>5, <1>6, <1>7 DEF Good

\* The worker runs the task at the head of the queue; o is what it leaves of the
\* database.
LEMMA WorkGood ==
  ASSUME NEW o, NEW q, NEW ts, NEW ws, NEW a, NEW us, NEW v \in BOOLEAN,
         Good(o, q, "idle", ts, ws, a), q # <<>>,
         Moved(ts, us, Head(q), "returned"),
         o <=> ts[Head(q)].req.op # "open",
         ts[Head(q)].req.op = "close" => ~v
  PROVE  Good(v, Tail(q), "busy", us, ws, a)
<1> DEFINE id == Head(q)
<1>1. /\ q \in Seq(DOMAIN ts) /\ IsInjective(q)
      /\ Range(q) = {i \in DOMAIN ts : ts[i].stage = "queued"}
  BY DEF Good, Queued
<1>2. id \in Range(q) /\ Tail(q) \in Seq(DOMAIN ts) /\ IsInjective(Tail(q))
      /\ Range(Tail(q)) = Range(q) \ {id}
  BY <1>1, WithoutHead
<1>3. id \in DOMAIN ts /\ ts[id].stage = "queued"
  BY <1>1, <1>2
<1>4. /\ Tasks(us) /\ DOMAIN us = DOMAIN ts
      /\ \A i \in DOMAIN ts : us[i].req = ts[i].req /\ us[i].held = ts[i].held
                              /\ us[i].stage = IF i = id THEN "returned" ELSE ts[i].stage
  BY DEF Moved
<1> HIDE DEF id
<1>5. Queued(Tail(q), us)
  BY <1>1, <1>2, <1>3, <1>4 DEF Queued
<1>6. Waited(ws, us)
  <2>1. Range(ws) \subseteq DOMAIN ts
    BY RangeOfSeq DEF Good, Waited
  <2> QED BY <1>3, <1>4, <2>1 DEF Good, Waited
<1>7. HeldBy("busy", us)
  <2>1. ts[id].held /\ \A i \in DOMAIN ts : ~(ts[i].held /\ ts[i].stage # "queued")
    BY <1>3 DEF Good, HeldBy
  <2> QED BY <1>3, <1>4, <2>1 DEF Good, HeldBy
<1>8. CloseIsLast(v, us, a)
  <2> SUFFICES ASSUME NEW i \in DOMAIN us, us[i].req.op = "close"
               PROVE  /\ ~a
                      /\ \A j \in DOMAIN us \ {i} : us[j].stage = "delivered" /\ ~us[j].held
                      /\ us[i].stage # "queued" => ~v
    BY DEF CloseIsLast
  <2>1. /\ ~a /\ \A j \in DOMAIN ts \ {i} : ts[j].stage = "delivered" /\ ~ts[j].held
        /\ i \in DOMAIN ts /\ ts[i].req.op = "close"
    BY <1>4 DEF Good, CloseIsLast
  <2>2. i = id
    BY <1>3, <2>1
  <2> QED BY <1>4, <2>1, <2>2 DEF id
<1> QED BY <1>4, <1>5, <1>6, <1>7, <1>8 DEF Good

\* The worker lets go of the task it has run.
LEMMA ReleaseGood ==
  ASSUME NEW o, NEW q, NEW ts, NEW ws, NEW a, NEW us, NEW id \in DOMAIN ts, NEW w,
         Good(o, q, "busy", ts, ws, a), ts[id].held, ts[id].stage # "queued",
         LetGo(ts, us, id), w \in {"idle", "ended", "stuck"}
  PROVE  Good(o, q, w, us, ws, a)
<1>1. /\ Tasks(us) /\ DOMAIN us = DOMAIN ts
      /\ \A i \in DOMAIN ts : /\ us[i].req = ts[i].req /\ us[i].stage = ts[i].stage
                              /\ us[i].held <=> i # id /\ ts[i].held
  BY DEF LetGo
<1>2. Queued(q, us)
  BY <1>1 DEF Good, Queued
<1>3. Waited(ws, us)
  <2>1. Range(ws) \subseteq DOMAIN ts
    BY RangeOfSeq DEF Good, Waited
  <2> QED BY <1>1, <2>1 DEF Good, Waited
<1>4. HeldBy(w, us)
  BY <1>1 DEF Good, HeldBy
<1>5. CloseIsLast(o, us, a)
  BY <1>1 DEF Good, CloseIsLast
<1> QED BY <1>1, <1>2, <1>3, <1>4, <1>5 DEF Good

\* The main loop sees that a task has returned, or tells the caller.
LEMMA SeenGood ==
  ASSUME NEW o, NEW q, NEW w, NEW ts, NEW ws, NEW a, NEW us, NEW vs,
         NEW id \in DOMAIN ts, NEW stage, NEW b \in BOOLEAN, b => a,
         Good(o, q, w, ts, ws, a), Moved(ts, us, id, stage),
         ts[id].stage \in {"returned", "completed"},
         \/ stage = "completed" /\ vs = ws
         \/ stage = "delivered" /\ vs = ws /\ ts[id].req.op \notin Sync
         \/ stage = "delivered" /\ vs = Front(ws) /\ ws # <<>> /\ id = Last(ws)
  PROVE  Good(o, q, w, us, vs, b)
<1>1. /\ Tasks(us) /\ DOMAIN us = DOMAIN ts
      /\ \A i \in DOMAIN ts : us[i].req = ts[i].req /\ us[i].held = ts[i].held
                              /\ us[i].stage = IF i = id THEN stage ELSE ts[i].stage
      /\ stage # "queued" /\ ts[id].stage # "queued" /\ ts[id].stage # "delivered"
  BY DEF Moved
<1>2. Queued(q, us)
  BY <1>1 DEF Good, Queued
<1>3. Waited(vs, us)
  <2>1. ws \in Seq(DOMAIN ts) /\ IsInjective(ws) /\ Range(ws) \subseteq DOMAIN ts
        /\ \A i \in Range(ws) : ts[i].stage # "delivered" /\ ts[i].req.op \in Sync
    BY RangeOfSeq DEF Good, Waited
  <2>2. CASE vs = ws /\ (stage = "completed" \/ ts[id].req.op \notin Sync)
    <3>1. stage # "delivered" \/ id \notin Range(ws)
      BY <2>1, <2>2
    <3> QED BY <1>1, <2>1, <2>2, <3>1 DEF Waited
  <2>3. CASE vs = Front(ws) /\ ws # <<>> /\ id = Last(ws)
    <3>1. vs \in Seq(DOMAIN ts) /\ IsInjective(vs) /\ Range(vs) \subseteq Range(ws) \ {id}
      BY <2>1, <2>3, WithoutLast
    <3> QED BY <1>1, <2>1, <3>1 DEF Waited
  <2> QED BY <2>2, <2>3
<1>4. HeldBy(w, us)
  BY <1>1 DEF Good, HeldBy
<1>5. CloseIsLast(o, us, b)
  BY <1>1 DEF Good, CloseIsLast
<1> QED BY <1>1, <1>2, <1>3, <1>4, <1>5 DEF Good

-----------------------------------------------------------------------------
(* The invariant.                                                          *)

\* cm_db_dispose() where a step of the main loop ends
LEMMA DisposeGood ==
  ASSUME NEW ts, NEW ws, NEW a, Good(open, queue, worker, ts, ws, a),
         MainStep(a, ts, ws), UNCHANGED <<open, worker>>
  PROVE  Inv'
<1>1. CASE Unused(a, ts) /\ open
  <2>1. /\ app' = a /\ task' = Append(ts, NewTask(CloseCall))
        /\ queue' = Append(queue, Len(ts) + 1) /\ waits' = Append(ws, Len(ts) + 1)
    BY <1>1, Zenon DEF MainStep
  <2>2. Made(ts, task', CloseCall)
    BY <2>1, TaskMade DEF Good
  <2>3. Disposable(open, queue, worker, ts, ws, a)
    BY <1>1 DEF Disposable
  <2>4. Good(open, queue', worker, task', waits', a)
    BY <2>1, <2>2, <2>3, CloseGood
  <2> QED BY <2>1, <2>4, Zenon DEF Inv
<1>2. CASE ~(Unused(a, ts) /\ open)
  BY <1>2 DEF MainStep, Inv
<1> QED BY <1>1, <1>2

\* The CmDb starts with the one task that opens the database.
LEMMA InitGood == Init => Inv
<1> SUFFICES ASSUME Init PROVE Inv
  OBVIOUS
<1> DEFINE t == NewTask(OpenCall)
<1>1. /\ IsTask(t) /\ t.req.op = "open" /\ t.stage = "queued" /\ t.held
  BY DEF NewTask, OpenCall, IsTask, Stages
<1>2. DOMAIN task = {1} /\ task[1] = t /\ task \in Seq({t})
  BY DEF Init
<1>3. Tasks(task)
  BY <1>1, <1>2, SeqOfRange DEF Tasks
<1>4. queue = <<1>> /\ waits = <<>> /\ open = FALSE /\ worker = "idle" /\ app = TRUE
  BY DEF Init
<1> HIDE DEF t
<1>5. Queued(queue, task)
  BY <1>1, <1>2, <1>4 DEF Queued, IsInjective, Range
<1>6. Waited(waits, task)
  BY <1>4 DEF Waited, IsInjective, Range
<1>7. HeldBy(worker, task) /\ CloseIsLast(open, task, app)
  BY <1>1, <1>2, <1>4 DEF HeldBy, CloseIsLast
<1> QED BY <1>3, <1>4, <1>5, <1>6, <1>7 DEF Inv, Good

\* No step leaves the invariant for the queue.
LEMMA StepGood == Inv /\ [Next]_vars => Inv'
<1> SUFFICES ASSUME Inv, [Next]_vars
             PROVE  Inv'
  OBVIOUS
<1>1. Good(open, queue, worker, task, waits, app)
  BY DEF Inv
<1>2. /\ Tasks(task) /\ queue \in Seq(DOMAIN task) /\ waits \in Seq(DOMAIN task)
      /\ IsInjective(queue) /\ IsInjective(waits)
      /\ Range(queue) = {i \in DOMAIN task : task[i].stage = "queued"}
      /\ open \in BOOLEAN /\ app \in BOOLEAN
  BY <1>1 DEF Good, Queued, Waited
<1>3. ASSUME Len(task) <= Len(Requests), NEW req \in Requests[Len(task)], Call(req)
      PROVE  Inv'
  <2>1. IsCall(req) /\ req.op \notin {"open", "close"}
    <3>1. Len(task) \in DOMAIN Requests
      <4>1. Requests \in Seq(Range(Requests)) /\ Len(task) \in Nat /\ task # <<>>
        BY <1>2, RequestsAssumption DEF Tasks
      <4> QED BY <1>2, <1>3, <4>1 DEF Tasks
    <3>2. IsCall(req)
      BY <1>3, <3>1, RequestsAssumption DEF IsCall
    <3> QED BY <3>2 DEF IsCall
  <2>2. app /\ app' = app /\ open' = open /\ worker' = worker
    BY <1>2, <1>3 DEF Call
  <2>3. Made(task, task', req)
    BY <1>2, <1>3, TaskMade DEF Call
  <2>4. queue' = Append(queue, Len(task) + 1) \/ queue' = <<Len(task) + 1>> \o queue
    BY <1>3 DEF Call, Pushed
  <2>5. \/ waits' = waits
        \/ req.op \in Sync /\ waits' = Append(waits, Len(task) + 1)
    BY <1>3 DEF Call, Waiting
  <2> QED BY <1>1, <2>1, <2>2, <2>3, <2>4, <2>5, CallGood DEF Inv
<1>4. CASE Work \/ WorkFails
  <2> DEFINE id == Head(queue)
  <2>1. /\ worker = "idle" /\ queue # <<>> /\ worker' = "busy" /\ queue' = Tail(queue)
        /\ waits' = waits /\ app' = app
        /\ open <=> task[id].req.op # "open"
    BY <1>2, <1>4 DEF Work, WorkFails, Expected
  <2>2. open' \in BOOLEAN /\ (task[id].req.op = "close" => ~open')
    BY <1>4 DEF Work, WorkFails
  <2>3. id \in DOMAIN task
    BY <1>2, <2>1, WithoutHead
  <2>4. PICK result : task' = [task EXCEPT ![id].stage = "returned", ![id].result = result]
    BY <1>4 DEF Work, WorkFails, Returned
  <2>5. Moved(task, task', id, "returned")
    BY <1>2, <2>3, <2>4, ResultReturned, Zenon
  <2> QED BY <1>1, <2>1, <2>2, <2>5, WorkGood DEF Inv
<1>5. ASSUME NEW id \in DOMAIN task, Release(id)
      PROVE  Inv'
  <2> DEFINE tasks == [task EXCEPT ![id].held = FALSE]
  <2>1. LetGo(task, tasks, id)
    BY <1>2, HeldNoMore
  <2>2. /\ worker = "busy" /\ task[id].held /\ task[id].stage # "queued"
        /\ open' = open /\ waits' = waits /\ app' = app
    BY <1>5 DEF Release
  <2>3. \/ worker' \in {"idle", "ended", "stuck"} /\ task' = tasks /\ queue' = queue
        \/ /\ worker' = "stuck" /\ Unused(app, tasks) /\ open
           /\ task' = Append(tasks, NewTask(CloseCall))
           /\ queue' = Append(queue, Len(task) + 1)
    BY <1>5 DEF Release
  <2>4. Len(tasks) = Len(task)
    BY <1>2 DEF Tasks
  <2> HIDE DEF tasks
  <2>5. CASE worker' \in {"idle", "ended", "stuck"} /\ task' = tasks /\ queue' = queue
    BY <1>1, <2>1, <2>2, <2>5, ReleaseGood DEF Inv
  <2>6. CASE /\ worker' = "stuck" /\ Unused(app, tasks) /\ open
             /\ task' = Append(tasks, NewTask(CloseCall))
             /\ queue' = Append(queue, Len(task) + 1)
    <3>1. Good(open, queue, "stuck", tasks, waits, app)
      BY <1>1, <2>1, <2>2, ReleaseGood
    <3>2. Made(tasks, task', CloseCall) /\ queue' = Append(queue, Len(tasks) + 1)
      BY <2>4, <2>6, <3>1, TaskMade DEF Good
    <3>3. Disposable(open, queue, "stuck", tasks, waits, app)
      BY <2>6, <3>1 DEF Disposable
    <3>4. Good(open, queue', "stuck", task', waits, app)
      BY <3>2, <3>3, CloseGood
    <3> QED BY <2>2, <2>6, <3>4, Zenon DEF Inv
  <2> QED BY <2>3, <2>5, <2>6
<1>6. ASSUME NEW id \in DOMAIN task, Deliver(id)
      PROVE  Inv'
  <2> DEFINE us == [task EXCEPT ![id].stage = "delivered"]
  <2>1. PICK b \in BOOLEAN : (b => app) /\ MainStep(b, us, waits)
    BY <1>2, <1>6 DEF Deliver
  <2>2. /\ task[id].stage = "returned" /\ task[id].req.op \notin Sync
        /\ UNCHANGED <<open, worker>>
    BY <1>6 DEF Deliver
  <2>3. Moved(task, us, id, "delivered")
    BY <1>2, StageChanged DEF Stages
  <2> HIDE DEF us
  <2>4. Good(open, queue, worker, us, waits, b)
    BY <1>1, <2>1, <2>2, <2>3, SeenGood
  <2> QED BY <2>1, <2>2, <2>4, DisposeGood
<1>7. ASSUME NEW id \in DOMAIN task, Complete(id)
      PROVE  Inv'
  <2>1. /\ task[id].stage = "returned" /\ UNCHANGED <<open, queue, worker, waits, app>>
    BY <1>7 DEF Complete
  <2>2. Moved(task, task', id, "completed")
    BY <1>2, <1>7, StageChanged DEF Complete, Stages
  <2>3. Good(open, queue, worker, task', waits, app)
    BY <1>1, <1>2, <2>1, <2>2, SeenGood
  <2> QED BY <2>1, <2>3 DEF Inv
<1>8. CASE WaitEnds
  <2> DEFINE id == Last(waits)
             us == [task EXCEPT ![id].stage = "delivered"]
  <2>1. /\ waits # <<>> /\ task[id].stage = "completed" /\ UNCHANGED <<open, worker>>
        /\ MainStep(app, us, Front(waits))
    BY <1>8 DEF WaitEnds
  <2>2. id \in DOMAIN task
    BY <1>2, <2>1, WithoutLast, RangeOfSeq
  <2>3. Moved(task, us, id, "delivered")
    BY <1>2, <2>2, StageChanged DEF Stages
  <2> HIDE DEF us
  <2>4. Good(open, queue, worker, us, Front(waits), app)
    BY <1>1, <1>2, <2>1, <2>2, <2>3, SeenGood
  <2> QED BY <1>2, <2>1, <2>4, DisposeGood
<1>9. CASE DropRef
  <2>1. MainStep(FALSE, task, waits) /\ UNCHANGED <<open, worker>>
    BY <1>9 DEF DropRef
  <2>2. CloseIsLast(open, task, FALSE)
    BY <1>1 DEF Good, CloseIsLast
  <2>3. Good(open, queue, worker, task, waits, FALSE)
    BY <1>1, <2>2 DEF Good
  <2> QED BY <2>1, <2>3, DisposeGood
<1>10. CASE UNCHANGED vars
  BY <1>1, <1>10 DEF vars, Inv
<1> QED BY <1>3, <1>4, <1>5, <1>6, <1>7, <1>8, <1>9, <1>10 DEF Next

\* The invariant for the queue implies what the runs check of it.
LEMMA GoodIsRight == Inv => TypeOK /\ ClosedLast
<1> SUFFICES ASSUME Inv PROVE TypeOK /\ ClosedLast
  OBVIOUS
<1>1. TypeOK
  BY DEF Inv, Good, Tasks, IsTask, Queued, Waited, HeldBy, TypeOK
<1>2. ClosedLast
  BY DEF Inv, Good, CloseIsLast, ClosedLast, Issued
<1> QED BY <1>1, <1>2

\* The queue, the stack of the calls that wait and the stages of the tasks fit
\* together: a task is queued once, until the worker has run it, and one that is
\* waited for is told to nobody else (cm_db_worker(), cm_db_wait_for_completion()).
THEOREM TypeCorrect == Spec => []TypeOK
<1>1. Init => Inv
  BY InitGood
<1>2. Inv /\ [Next]_vars => Inv'
  BY StepGood
<1>3. Inv => TypeOK
  BY GoodIsRight
<1> QED BY <1>1, <1>2, <1>3, PTL DEF Spec

\* cm_db_dispose() closes the database after everything else, in whatever order
\* calls, waits, callbacks and references to the CmDb come and go.
THEOREM ClosedLastCorrect == Spec => []ClosedLast
<1>1. Init => Inv
  BY InitGood
<1>2. Inv /\ [Next]_vars => Inv'
  BY StepGood
<1>3. Inv => ClosedLast
  BY GoodIsRight
<1> QED BY <1>1, <1>2, <1>3, PTL DEF Spec

-----------------------------------------------------------------------------
(* What the worker's tasks do to the tables.                                *)

\* A task that changes other tables only
Untouched(d, e) ==
  /\ DOMAIN e = DOMAIN d
  /\ e.next_batch = d.next_batch /\ e.prev_batch = d.prev_batch /\ e.outdated = d.outdated
  /\ e.sessions = d.sessions /\ e.usable = d.usable

\* One event touches the tables of events and members, and adds its sender.
LEMMA AddEventUntouched ==
  ASSUME NEW d, NEW r, NEW e, NEW sorted
  PROVE  Untouched(d, AddEvent(d, r, e, sorted))
<1>1. \A a : Untouched(a, WithMember(a, r, e.sender))
  BY DEF WithMember, WithUsers, Untouched
<1>2. \A a : Untouched(a, WithoutEcho(a, r, e.txn))
  BY DEF WithoutEcho, Untouched
<1>3. \A a : Untouched(a, WithCached(a, r, e))
  BY DEF WithCached, Untouched
<1>4. \A a : Untouched(a, Linked(a, r, e))
  BY DEF Linked, Untouched
<1>5. \A a, member : Untouched(a, Inserted(a, r, e, member, sorted))
  BY DEF Inserted, Untouched
<1>6. \A a, b, c : Untouched(a, b) /\ Untouched(b, c) => Untouched(a, c)
  BY DEF Untouched
<1> DEFINE known == WithMember(d, r, e.sender)
           ready == WithCached(WithoutEcho(known, r, e.txn), r, e)
           member == FindMember(d, r, e.sender)
<1>7. Untouched(d, ready)
  BY <1>1, <1>2, <1>3, <1>6
<1>8. \/ AddEvent(d, r, e, sorted) = Linked(ready, r, e)
      \/ AddEvent(d, r, e, sorted) = ready
      \/ AddEvent(d, r, e, sorted) = Linked(Inserted(ready, r, e, member, sorted), r, e)
  BY DEF AddEvent
<1> HIDE DEF ready, member
<1> QED BY <1>4, <1>5, <1>6, <1>7, <1>8

\* One step of EventsAdded
AddedNext(f, d, r, events, first, step, n) ==
  IF n = 0 THEN d ELSE AddEvent(f[n - 1], r, events[n], first + (n - 1) * step)

\* f[n] are the tables after n of the events.
IsAdded(f, d, r, events, first, step, k) ==
  f = [n \in 0..k |-> AddedNext(f, d, r, events, first, step, n)]

\* There is a function that adds k events one after the other, by induction.
LEMMA AddedExists ==
  ASSUME NEW d, NEW r, NEW events, NEW first, NEW step, NEW k \in Nat
  PROVE  \E f : IsAdded(f, d, r, events, first, step, k)
<1> DEFINE T == {i \in Nat :
                   \E f : f = [n \in 0..i |-> AddedNext(f, d, r, events, first, step, n)]}
<1>1. 0 \in T
  <2> DEFINE g == [n \in 0..0 |-> d]
  <2>1. \A n \in 0..0 : AddedNext(g, d, r, events, first, step, n) = d
    BY DEF AddedNext
  <2>2. g = [n \in 0..0 |-> AddedNext(g, d, r, events, first, step, n)]
    BY <2>1
  <2> QED BY <2>2
<1>2. ASSUME NEW i \in Nat, i \in T
      PROVE  i + 1 \in T
  <2>1. PICK f : f = [n \in 0..i |-> AddedNext(f, d, r, events, first, step, n)]
    BY <1>2
  <2> DEFINE last == AddEvent(f[i], r, events[i + 1], first + i * step)
             g == [n \in 0..(i + 1) |-> IF n = i + 1 THEN last ELSE f[n]]
  <2>2. \A n \in 0..i : g[n] = f[n]
    OBVIOUS
  <2>3. g[i + 1] = AddedNext(g, d, r, events, first, step, i + 1)
    <3>1. i + 1 # 0 /\ (i + 1) - 1 = i /\ i \in 0..i /\ i + 1 \in 0..(i + 1)
      OBVIOUS
    <3>2. g[i + 1] = last /\ g[i] = f[i]
      BY <2>2, <3>1
    <3> HIDE DEF g
    <3> QED BY <3>1, <3>2, Zenon DEF AddedNext
  <2>4. ASSUME NEW n \in 0..i
        PROVE  g[n] = AddedNext(g, d, r, events, first, step, n)
    <3>1. f[n] = AddedNext(f, d, r, events, first, step, n)
      BY <2>1
    <3>2. n # 0 => g[n - 1] = f[n - 1]
      BY <2>2
    <3> HIDE DEF g
    <3>3. g[n] = f[n]
      BY <2>2
    <3> QED BY <3>1, <3>2, <3>3, Zenon DEF AddedNext
  <2>5. DOMAIN g = 0..(i + 1) /\ \A n \in 0..(i + 1) : n \in 0..i \/ n = i + 1
    OBVIOUS
  <2>6. \A n \in 0..(i + 1) : g[n] = AddedNext(g, d, r, events, first, step, n)
    BY <2>3, <2>4, <2>5
  <2>7. g = [n \in 0..(i + 1) |-> g[n]]
    OBVIOUS
  <2> HIDE DEF g
  <2>8. g = [n \in 0..(i + 1) |-> AddedNext(g, d, r, events, first, step, n)]
    BY <2>6, <2>7
  <2> QED BY <2>8
<1> HIDE DEF T
<1>3. \A i \in Nat : i \in T
  BY <1>1, <1>2, Induction
<1> QED BY <1>3 DEF T, IsAdded

\* However many events are added, the other tables are as before, by induction.
LEMMA EventsAddedUntouched ==
  ASSUME NEW d, NEW r, NEW events \in Seq(Event), NEW prepend
  PROVE  Untouched(d, EventsAdded(d, r, events, prepend))
<1>1. Len(events) \in Nat
  OBVIOUS
<1> PICK first : first = FirstPlace(d, r, prepend)
  OBVIOUS
<1> PICK step : step = IF prepend THEN -1 ELSE 1
  OBVIOUS
<1> DEFINE f == CHOOSE g : g = [n \in 0..Len(events) |->
                                  AddedNext(g, d, r, events, first, step, n)]
<1>2. \E g : IsAdded(g, d, r, events, first, step, Len(events))
  BY <1>1, AddedExists
<1>3. f = [n \in 0..Len(events) |-> AddedNext(f, d, r, events, first, step, n)]
  BY <1>2 DEF IsAdded
<1>4. EventsAdded(d, r, events, prepend) = f[Len(events)]
  BY DEF EventsAdded, AddedNext
<1> HIDE DEF f
<1> DEFINE T == {k \in Nat : k <= Len(events) => Untouched(d, f[k])}
<1>5. 0 \in T
  <2>1. f[0] = d
    BY <1>1, <1>3 DEF AddedNext
  <2> QED BY <2>1 DEF Untouched
<1>6. ASSUME NEW k \in Nat, k \in T
      PROVE  k + 1 \in T
  <2> SUFFICES ASSUME k + 1 <= Len(events) PROVE Untouched(d, f[k + 1])
    OBVIOUS
  <2>1. k + 1 \in 0..Len(events) /\ k + 1 # 0 /\ (k + 1) - 1 = k
    BY <1>1
  <2>2. f[k + 1] = AddedNext(f, d, r, events, first, step, k + 1)
    BY <1>3, <2>1
  <2>3. f[k + 1] = AddEvent(f[k], r, events[k + 1], first + k * step)
    BY <2>1, <2>2, Zenon DEF AddedNext
  <2>4. Untouched(d, f[k])
    BY <1>1, <1>6
  <2>5. Untouched(f[k], f[k + 1])
    BY <2>3, AddEventUntouched
  <2> QED BY <2>4, <2>5 DEF Untouched
<1> HIDE DEF T
<1>7. Len(events) \in T
  BY <1>1, <1>5, <1>6, Induction
<1> QED BY <1>1, <1>4, <1>7 DEF T

\* What a call does to the tables, as far as the properties look at them.  A call that
\* settles nothing because it failed does not say that it was "ok".
Effect(req, d, e, result) ==
  /\ Shape(e)
  /\ \/ req.op = "delete_client"
     \/ req.op = "save_client" /\ e.next_batch = req.batch
     \/ req.op # "save_client" /\ e.next_batch = d.next_batch
  /\ \/ req.op = "delete_client"
     \/ req.op = "save_room" /\ e.prev_batch = [d.prev_batch EXCEPT ![req.room] = req.prev]
     \/ (req.op = "save_room" => result # "ok") /\ e.prev_batch = d.prev_batch
  /\ \/ req.op \in {"delete_client", "open"}
     \/ /\ req.op = "mark_user_device_change"
        /\ e.outdated = IF req.outdated THEN d.outdated \cup req.users
                        ELSE d.outdated \ req.users
     \/ req.op = "update_user_devices" /\ e.outdated = d.outdated \ {req.user}
     \/ /\ req.op \in {"mark_user_device_change", "update_user_devices"} => result # "ok"
        /\ e.outdated = d.outdated
  /\ req.op # "delete_client" =>
       \A s : Found(d, s) /\ ~(req.op = "add_session" /\ req.session = s /\ ~req.usable)
                => Found(e, s)
  /\ req.op = "add_session" /\ req.usable /\ result # "error" => Found(e, req.session)
  /\ req.op = "lookup_session" /\ result # "error" /\ Found(d, req.session)
       => result = req.session

\* A task that changes other tables, or fails, has the effect of its call.
LEMMA UntouchedEffect ==
  ASSUME NEW req, NEW d, Shape(d), NEW e, Untouched(d, e), NEW result,
         \/ req.op \in {"load_client", "save_file_enc", "find_file_enc",
                         "lookup_room_session", "lookup_olm_session", "update_device",
                         "add_room_events", "get_past_events", "close"}
         \/ result = "error" /\ req.op \notin {"save_client", "delete_client"}
  PROVE  Effect(req, d, e, result)
<1>1. Shape(e)
  BY DEF Shape, Untouched
<1>2. \A s : Found(d, s) => Found(e, s)
  BY DEF Found, Untouched
<1> QED BY <1>1, <1>2 DEF Effect, Untouched

\* A task that only reads changes nothing.
LEMMA SelfUntouched ==
  ASSUME NEW d
  PROVE  Untouched(d, d)
BY DEF Untouched

\* db_save_client() stores the token of the account.
LEMMA SaveClientEffect ==
  ASSUME NEW req, req.op = "save_client", NEW d, Shape(d), NEW run, run = Run(req, d)
  PROVE  Effect(req, d, run.db, run.result)
<1> DEFINE e == run.db
<1>1. e = [WithAccount(d) EXCEPT !.next_batch = req.batch, !.json = req.filter]
  BY DEF Run, SaveClient, Done
<1>2. PICK a : a = WithAccount(d)
  OBVIOUS
<1>3. Untouched(d, a)
  BY <1>2 DEF WithAccount, Untouched
<1>4. e = [a EXCEPT !.next_batch = req.batch, !.json = req.filter]
  BY <1>1, <1>2
<1>5. /\ DOMAIN e = DOMAIN d /\ e.next_batch = req.batch /\ e.prev_batch = d.prev_batch
      /\ e.outdated = d.outdated /\ e.sessions = d.sessions /\ e.usable = d.usable
  BY <1>3, <1>4 DEF Untouched, Shape
<1> HIDE DEF e
<1>6. Shape(e) /\ \A s : Found(d, s) => Found(e, s)
  BY <1>5 DEF Shape, Found
<1> QED BY <1>5, <1>6 DEF Effect, e

\* db_save_room() stores the token of the room it is given, and of no other.
LEMMA SaveRoomEffect ==
  ASSUME NEW req, req.op = "save_room", NEW d, Shape(d), NEW run, run = Run(req, d)
  PROVE  Effect(req, d, run.db, run.result)
<1>1. run = SaveRoom(d, req.room, req.prev, req.status, req.replacement, req.synced)
  BY DEF Run
<1>2. CASE ~d.account
  <2>1. run.db = d /\ run.result = "error"
    BY <1>1, <1>2 DEF SaveRoom, Done
  <2> QED BY <2>1, SelfUntouched, UntouchedEffect
<1>3. CASE d.account
  <2> DEFINE e == run.db
             r == req.room
  <2>1. PICK a : a = WithRooms(d, {r, req.replacement} \ {NULL})
    OBVIOUS
  <2>2. e = [a EXCEPT !.prev_batch[r] = req.prev, !.state[r] = req.status,
               !.replaced = IF req.replacement = NULL THEN @ \ {r} ELSE @ \cup {r},
               !.synced = IF req.synced THEN @ \cup {r} ELSE @ \ {r}]
    BY <1>1, <1>3, <2>1 DEF SaveRoom, Done
  <2>3. Untouched(d, a)
    BY <2>1 DEF WithRooms, Untouched
  <2>4. /\ DOMAIN e = DOMAIN d /\ e.next_batch = d.next_batch
        /\ e.prev_batch = [d.prev_batch EXCEPT ![r] = req.prev]
        /\ e.outdated = d.outdated /\ e.sessions = d.sessions /\ e.usable = d.usable
    BY <2>2, <2>3 DEF Untouched, Shape
  <2> HIDE DEF e
  <2>5. Shape(e) /\ \A s : Found(d, s) => Found(e, s)
    BY <2>4 DEF Shape, Found
  <2> QED BY <2>4, <2>5 DEF Effect, e
<1> QED BY <1>2, <1>3

\* db_delete_client() leaves tables of the same shape.
LEMMA DeleteClientEffect ==
  ASSUME NEW req, req.op = "delete_client", NEW d, Shape(d), NEW run, run = Run(req, d)
  PROVE  Effect(req, d, run.db, run.result)
<1> DEFINE e == run.db
<1>1. run = DeleteClient(d)
  BY DEF Run
<1>2. Shape(e)
  <2>1. CASE ~d.account
    BY <1>1, <2>1 DEF DeleteClient, Done
  <2>2. CASE d.account
    <3>1. PICK a : a = NoTables
      OBVIOUS
    <3>2. Shape(a)
      <4>1. /\ a.sessions = <<>> /\ DOMAIN a.prev_batch = Room
            /\ {"next_batch", "prev_batch", "outdated", "sessions", "usable"} \subseteq DOMAIN a
        BY <3>1 DEF NoTables
      <4> QED BY <4>1 DEF Shape
    <3>3. e = [a EXCEPT !.version = d.version, !.files = d.files, !.last_id = d.last_id]
      BY <1>1, <2>2, <3>1 DEF DeleteClient, Done
    <3> QED BY <3>2, <3>3 DEF Shape
  <2> QED BY <2>1, <2>2
<1> QED BY <1>2 DEF Effect

\* db_add_session() stores the session, or at least whether it may be used.
LEMMA AddSessionEffect ==
  ASSUME NEW req, req.op = "add_session", NEW d, Shape(d), NEW run, run = Run(req, d)
  PROVE  Effect(req, d, run.db, run.result)
<1> DEFINE s == req.session
<1>1. run = AddSession(d, s, req.room, req.usable)
  BY DEF Run
<1>2. CASE ~d.account
  <2>1. run.db = d /\ run.result = "error"
    BY <1>1, <1>2 DEF AddSession, Done
  <2> QED BY <2>1, SelfUntouched, UntouchedEffect
<1>3. CASE d.account
  <2> DEFINE e == run.db
  <2> DEFINE new == ~Contains(d.sessions, s)
  <2>0. PICK all : all = IF new THEN Append(d.sessions, s) ELSE d.sessions
    OBVIOUS
  <2>1. e = [d EXCEPT
              !.sessions = IF new THEN Append(@, s) ELSE @,
              !.session_room[s] = IF new /\ req.room \in d.rooms THEN req.room ELSE @,
              !.usable = IF req.usable THEN @ \cup {s} ELSE @ \ {s},
              !.last_id = IF new THEN Other ELSE @]
    BY <1>1, <1>3 DEF AddSession, Done
  <2>2. /\ DOMAIN e = DOMAIN d /\ e.next_batch = d.next_batch
        /\ e.prev_batch = d.prev_batch /\ e.outdated = d.outdated /\ e.sessions = all
        /\ e.usable = IF req.usable THEN d.usable \cup {s} ELSE d.usable \ {s}
    BY <2>0, <2>1 DEF Shape
  <2> HIDE DEF e
  <2>3. /\ all \in Seq(Range(all))
        /\ \A x : Contains(d.sessions, x) => Contains(all, x)
        /\ Contains(all, s)
    <3>1. d.sessions \in Seq(Range(d.sessions))
      BY DEF Shape
    <3>2. CASE Contains(d.sessions, s)
      BY <2>0, <3>1, <3>2
    <3>3. CASE ~Contains(d.sessions, s)
      <4> DEFINE q == d.sessions
      <4>1. /\ all = Append(q, s) /\ all \in Seq(Range(q) \cup {s}) /\ Len(q) \in Nat
            /\ Len(all) = Len(q) + 1
            /\ all[Len(q) + 1] = s /\ \A i \in 1 .. Len(q) : all[i] = q[i]
        BY <2>0, <3>1, <3>3
      <4>2. all \in Seq(Range(all))
        BY <4>1, SeqOfRange
      <4> HIDE DEF q
      <4> QED BY <4>1, <4>2 DEF Contains, q
    <3> QED BY <3>2, <3>3
  <2>4. Shape(e)
    BY <2>2, <2>3 DEF Shape
  <2>5. \A x : Found(d, x) /\ ~(s = x /\ ~req.usable) => Found(e, x)
    BY <2>2, <2>3 DEF Found
  <2>6. req.usable => Found(e, s)
    BY <2>2, <2>3 DEF Found
  <2> QED BY <2>2, <2>4, <2>5, <2>6 DEF Effect, e
<1> QED BY <1>2, <1>3

\* db_lookup_session() finds a session that is stored and may be used.
LEMMA LookupSessionEffect ==
  ASSUME NEW req, req.op = "lookup_session", NEW d, Shape(d), NEW run, run = Run(req, d)
  PROVE  Effect(req, d, run.db, run.result)
<1>1. run = LookupSession(d, req.session)
  BY DEF Run
<1>2. /\ run.db = d
      /\ run.result # "error" /\ Found(d, req.session) => run.result = req.session
  BY <1>1 DEF LookupSession, Done, Found
<1> QED BY <1>2 DEF Effect

\* db_mark_user_device_change() sets all its users out of date, or none.
LEMMA MarkUserDeviceChangeEffect ==
  ASSUME NEW req, req.op = "mark_user_device_change", NEW d, Shape(d),
         NEW run, run = Run(req, d)
  PROVE  Effect(req, d, run.db, run.result)
<1>1. run = MarkUserDeviceChange(d, req.users, req.outdated)
  BY DEF Run
<1>2. CASE ~d.account
  <2>1. run.db = d /\ run.result = "error"
    BY <1>1, <1>2 DEF MarkUserDeviceChange, Done
  <2> QED BY <2>1, SelfUntouched, UntouchedEffect
<1>3. CASE d.account
  <2> DEFINE e == run.db
  <2>1. PICK a : a = WithUsers(d, req.users)
    OBVIOUS
  <2>2. e = [a EXCEPT !.outdated = IF req.outdated THEN @ \cup req.users ELSE @ \ req.users]
    BY <1>1, <1>3, <2>1 DEF MarkUserDeviceChange, Done
  <2>3. Untouched(d, a)
    BY <2>1 DEF WithUsers, Untouched
  <2>4. /\ DOMAIN e = DOMAIN d /\ e.next_batch = d.next_batch
        /\ e.prev_batch = d.prev_batch
        /\ e.outdated = IF req.outdated THEN d.outdated \cup req.users
                        ELSE d.outdated \ req.users
        /\ e.sessions = d.sessions /\ e.usable = d.usable
    BY <2>2, <2>3 DEF Untouched, Shape
  <2> HIDE DEF e
  <2>5. Shape(e) /\ \A s : Found(d, s) => Found(e, s)
    BY <2>4 DEF Shape, Found
  <2> QED BY <2>4, <2>5 DEF Effect, e
<1> QED BY <1>2, <1>3

\* db_update_user_devices() leaves its user up to date.
LEMMA UpdateUserDevicesEffect ==
  ASSUME NEW req, req.op = "update_user_devices", NEW d, Shape(d),
         NEW run, run = Run(req, d)
  PROVE  Effect(req, d, run.db, run.result)
<1> DEFINE u == req.user
<1>1. run = UpdateUserDevices(d, u, req.added, req.removed, req.force)
  BY DEF Run
<1>2. CASE ~d.account \/ (u \notin d.users /\ ~req.force)
  <2>1. run.db = d /\ run.result = "error"
    BY <1>1, <1>2 DEF UpdateUserDevices, Done
  <2> QED BY <2>1, SelfUntouched, UntouchedEffect
<1>3. CASE ~(~d.account \/ (u \notin d.users /\ ~req.force))
  <2> DEFINE e == run.db
  <2>1. PICK a : a = WithDevices(WithUsers(d, {u}), u, req.added)
    OBVIOUS
  <2>2. e = [a EXCEPT !.outdated = @ \ {u}, !.devices[u] = @ \ req.removed,
                      !.verified[u] = @ \ (req.added \cup req.removed)]
    BY <1>1, <1>3, <2>1 DEF UpdateUserDevices, Done
  <2>3. Untouched(d, a)
    BY <2>1 DEF WithUsers, WithDevices, Untouched
  <2>4. /\ DOMAIN e = DOMAIN d /\ e.next_batch = d.next_batch
        /\ e.prev_batch = d.prev_batch /\ e.outdated = d.outdated \ {u}
        /\ e.sessions = d.sessions /\ e.usable = d.usable
    BY <2>2, <2>3 DEF Untouched, Shape
  <2> HIDE DEF e
  <2>5. Shape(e) /\ \A s : Found(d, s) => Found(e, s)
    BY <2>4 DEF Shape, Found
  <2> QED BY <2>4, <2>5 DEF Effect, e
<1> QED BY <1>2, <1>3

\* Opening and migrating keep tokens and sessions.
LEMMA OpenEffect ==
  ASSUME NEW req, req.op = "open", NEW d, Shape(d), NEW run, run = Run(req, d)
  PROVE  Effect(req, d, run.db, run.result)
<1> DEFINE e == run.db
<1>1. run = Open(d)
  BY DEF Run
<1>2. \A a : a = MigratedToV1(d) => Shape(a) /\ a.next_batch = d.next_batch
        /\ a.prev_batch = d.prev_batch /\ a.sessions = d.sessions /\ a.usable = d.usable
  BY DEF MigratedToV1, Shape
<1>3. \A a : Shape(a) => Shape(MigratedToV2(a))
        /\ MigratedToV2(a).next_batch = a.next_batch
        /\ MigratedToV2(a).prev_batch = a.prev_batch
        /\ MigratedToV2(a).sessions = a.sessions /\ MigratedToV2(a).usable = a.usable
  BY DEF MigratedToV2, Shape
<1>4. e \in {d, Created(d), MigratedToV2(MigratedToV1(d)), MigratedToV2(d)}
  BY <1>1 DEF Open, Migrated, Done
<1>5. /\ Shape(e) /\ e.next_batch = d.next_batch /\ e.prev_batch = d.prev_batch
      /\ e.sessions = d.sessions /\ e.usable = d.usable
  BY <1>2, <1>3, <1>4 DEF Created, Shape
<1> HIDE DEF e
<1>6. \A s : Found(d, s) => Found(e, s)
  BY <1>5 DEF Found
<1> QED BY <1>5, <1>6 DEF Effect, e

\* The tasks that the properties do not look at
LEMMA OtherEffect ==
  ASSUME NEW req, NEW d, Shape(d), NEW run, run = Run(req, d),
         req.op = "add_room_events" => req.events \in Seq(Event),
         req.op \in {"load_client", "save_file_enc", "find_file_enc",
                     "lookup_room_session", "lookup_olm_session", "update_device",
                     "add_room_events", "get_past_events", "close"}
  PROVE  Effect(req, d, run.db, run.result)
<1>1. CASE req.op \in {"load_client", "find_file_enc", "lookup_room_session",
                      "lookup_olm_session", "get_past_events", "close"}
  <2>1. run.db = d
    BY <1>1 DEF Run, LoadClient, FindFileEnc, LookupRoomSession, LookupOlmSession,
                GetPastEvents, Done
  <2> QED BY <2>1, SelfUntouched, UntouchedEffect
<1>2. CASE req.op = "save_file_enc"
  <2>1. Untouched(d, run.db)
    <3>1. run = SaveFileEnc(d, req.file)
      BY <1>2 DEF Run
    <3>2. run.db = [d EXCEPT !.files = @ \cup {req.file}, !.last_id = Other]
      BY <3>1 DEF SaveFileEnc, Done
    <3> QED BY <3>2 DEF Untouched
  <2> QED BY <2>1, UntouchedEffect
<1>3. CASE req.op = "update_device"
  <2>1. Untouched(d, run.db)
    <3>1. run = UpdateDevice(d, req.user, req.device, req.verified)
      BY <1>3 DEF Run
    <3> QED BY <3>1 DEF UpdateDevice, WithDevices, Done, Untouched
  <2> QED BY <2>1, UntouchedEffect
<1>4. CASE req.op = "add_room_events"
  <2>1. Untouched(d, run.db)
    <3>1. run = AddRoomEvents(d, req.room, req.events, req.prepend)
      BY <1>4 DEF Run
    <3>2. run.db = d \/ run.db = EventsAdded(d, req.room, req.events, req.prepend)
      BY <3>1 DEF AddRoomEvents, Done
    <3> QED BY <1>4, <3>2, SelfUntouched, EventsAddedUntouched
  <2> QED BY <2>1, UntouchedEffect
<1> QED BY <1>1, <1>2, <1>3, <1>4

\* Whatever the worker runs has the effect of its call.
LEMMA RunEffect ==
  ASSUME NEW req, IsCall(req) \/ req = OpenCall \/ req = CloseCall, NEW d, Shape(d),
         NEW run, run = Run(req, d)
  PROVE  Effect(req, d, run.db, run.result)
<1>1. CASE req = OpenCall
  BY <1>1, OpenEffect DEF OpenCall
<1>2. CASE req = CloseCall
  BY <1>2, OtherEffect DEF CloseCall
<1>3. CASE IsCall(req)
  BY <1>3, SaveClientEffect, SaveRoomEffect, DeleteClientEffect, AddSessionEffect,
     LookupSessionEffect, MarkUserDeviceChangeEffect, UpdateUserDevicesEffect,
     OtherEffect DEF IsCall
<1> QED BY <1>1, <1>2, <1>3

-----------------------------------------------------------------------------
(* What the steps of the queue leave of the order.                          *)

\* us are the tasks ts, as far as they have been run, and calls that have not been.
Follows(ts, us) ==
  /\ DOMAIN ts \subseteq DOMAIN us /\ DOMAIN us \subseteq Nat /\ 1 \in DOMAIN ts
  /\ \A i \in DOMAIN ts : /\ us[i].req = ts[i].req /\ us[i].result = ts[i].result
                          /\ Ran(us, i) <=> Ran(ts, i)
  /\ \A i \in DOMAIN us \ DOMAIN ts :
       /\ us[i].req = CloseCall \/ IsCall(us[i].req)
       /\ ~Ran(us, i) /\ us[i].result = NULL
       /\ \A j \in DOMAIN ts : j < i

\* A call only adds a task that has not been run.
LEMMA MadeFollows ==
  ASSUME NEW ts, NEW us, NEW req, Tasks(ts), Made(ts, us, req), req = CloseCall \/ IsCall(req)
  PROVE  Follows(ts, us)
<1>1. DOMAIN ts = 1 .. Len(ts) /\ Len(ts) \in Nat /\ 1 \in DOMAIN ts
  BY DEF Tasks
<1>2. /\ DOMAIN us = DOMAIN ts \cup {Len(ts) + 1}
      /\ \A i \in DOMAIN ts : us[i] = ts[i]
      /\ us[Len(ts) + 1].req = req /\ us[Len(ts) + 1].stage = "queued"
      /\ us[Len(ts) + 1].result = NULL
  BY DEF Made
<1> QED BY <1>1, <1>2 DEF Follows, Ran

\* The main loop changes the stage of a task that has been run.
LEMMA MovedFollows ==
  ASSUME NEW ts, NEW us, NEW id \in DOMAIN ts, NEW stage, Tasks(ts), Moved(ts, us, id, stage),
         us[id].result = ts[id].result, ts[id].stage # "queued", stage # "queued"
  PROVE  Follows(ts, us)
<1>1. DOMAIN ts \subseteq Nat /\ 1 \in DOMAIN ts
  BY DEF Tasks
<1> QED BY <1>1 DEF Follows, Moved, Ran

\* The worker lets go of a task, whose stage stays.
LEMMA LetGoFollows ==
  ASSUME NEW ts, NEW us, NEW id, Tasks(ts), LetGo(ts, us, id)
  PROVE  Follows(ts, us)
<1>1. DOMAIN ts \subseteq Nat /\ 1 \in DOMAIN ts
  BY DEF Tasks
<1> QED BY <1>1 DEF Follows, LetGo, Ran

\* A step that leaves the queue alone leaves it in order.
LEMMA SameOrder ==
  ASSUME NEW q, NEW ts, NEW us, Queued(q, ts), Ordered(q, ts), Follows(ts, us)
  PROVE  Ordered(q, us)
<1>1. \A n \in DOMAIN q : q[n] \in DOMAIN ts
  BY DEF Queued
<1> QED BY <1>1 DEF Ordered, Follows

\* A task put behind all others is the newest and overtakes none.
LEMMA LastOrder ==
  ASSUME NEW q, NEW ts, NEW us, NEW req, Tasks(ts), Queued(q, ts), Ordered(q, ts),
         Made(ts, us, req)
  PROVE  Ordered(Append(q, Len(ts) + 1), us)
<1> DEFINE id == Len(ts) + 1
           p  == Append(q, id)
<1>1. q \in Seq(DOMAIN ts) /\ DOMAIN ts \subseteq Nat /\ Len(q) \in Nat
  BY DEF Queued, Tasks
<1>2. \A i \in DOMAIN ts : i < id
  BY DEF Tasks
<1>3. \A i \in DOMAIN ts : us[i] = ts[i]
  BY DEF Made
<1>4. id \in Nat
  BY DEF Tasks
<1> HIDE DEF id
<1>5. /\ DOMAIN q = 1 .. Len(q) /\ DOMAIN p = 1 .. Len(q) + 1 /\ p[Len(q) + 1] = id
      /\ \A n \in DOMAIN q : p[n] = q[n] /\ q[n] \in DOMAIN ts
  BY <1>1
<1> HIDE DEF p
<1>6. SUFFICES ASSUME NEW m \in DOMAIN p, NEW n \in DOMAIN p, m < n, p[n] < p[m]
               PROVE  us[p[m]].req.op \in ToFront
  BY DEF Ordered, p, id
<1>7. m \in DOMAIN q
  BY <1>1, <1>5, <1>6
<1>8. n \in DOMAIN q
  <2> SUFFICES ASSUME n = Len(q) + 1 PROVE FALSE
    BY <1>1, <1>5
  <2>1. p[n] = id /\ p[m] \in DOMAIN ts /\ p[m] < id /\ p[m] \in Nat
    BY <1>1, <1>2, <1>5, <1>7
  <2> QED BY <1>4, <1>6, <2>1
<1> QED BY <1>3, <1>5, <1>6, <1>7, <1>8 DEF Ordered

\* A task put before all others is one that may overtake them.
LEMMA FrontOrder ==
  ASSUME NEW q, NEW ts, NEW us, NEW req, Tasks(ts), Queued(q, ts), Ordered(q, ts),
         Made(ts, us, req), req.op \in ToFront
  PROVE  Ordered(<<Len(ts) + 1>> \o q, us)
<1> DEFINE id == Len(ts) + 1
           p  == <<id>> \o q
<1>1. q \in Seq(DOMAIN ts) /\ Len(q) \in Nat /\ DOMAIN q = 1 .. Len(q)
  BY DEF Queued
<1>2. us[id].req = req /\ \A i \in DOMAIN ts : us[i] = ts[i]
  BY DEF Made
<1>3. q \in Seq(DOMAIN ts \cup {id})
  BY <1>1, SeqMonotonic
<1> HIDE DEF id
<1>4. /\ p[1] = id /\ DOMAIN p = 1 .. Len(q) + 1
      /\ \A n \in DOMAIN p : n # 1 => n - 1 \in DOMAIN q /\ p[n] = q[n - 1]
  BY <1>3
<1> HIDE DEF p
<1>5. SUFFICES ASSUME NEW m \in DOMAIN p, NEW n \in DOMAIN p, m < n, p[n] < p[m]
               PROVE  us[p[m]].req.op \in ToFront
  BY DEF Ordered, p, id
<1>6. CASE m = 1
  BY <1>2, <1>4, <1>6
<1>7. CASE m # 1
  <2>1. /\ m - 1 \in DOMAIN q /\ n - 1 \in DOMAIN q /\ m - 1 < n - 1
        /\ p[m] = q[m - 1] /\ p[n] = q[n - 1] /\ q[m - 1] \in DOMAIN ts
    BY <1>1, <1>4, <1>5, <1>7
  <2> QED BY <1>2, <1>5, <2>1 DEF Ordered
<1> QED BY <1>6, <1>7

\* Nothing that is left in the queue was called before a call that is to be taken next,
\* unless that one was put to the front.
LEMMA HeadInTurn ==
  ASSUME NEW q, NEW ts, Tasks(ts), Queued(q, ts), Ordered(q, ts), q # <<>>
  PROVE  /\ Head(q) \in DOMAIN ts /\ ~Ran(ts, Head(q))
         /\ ts[Head(q)].req.op \notin ToFront =>
              \A j \in DOMAIN ts : j < Head(q) => Ran(ts, j)
<1>1. /\ q \in Seq(DOMAIN ts) /\ Range(q) = {i \in DOMAIN ts : ts[i].stage = "queued"}
      /\ DOMAIN ts \subseteq Nat
  BY DEF Queued, Tasks
<1>2. 1 \in DOMAIN q /\ Head(q) = q[1] /\ DOMAIN q = 1 .. Len(q) /\ Len(q) \in Nat
  BY <1>1
<1>3. Head(q) \in DOMAIN ts /\ ~Ran(ts, Head(q))
  BY <1>1, <1>2 DEF Range, Ran
<1>4. ASSUME ts[Head(q)].req.op \notin ToFront, NEW j \in DOMAIN ts, j < Head(q), ~Ran(ts, j)
      PROVE  FALSE
  <2>1. PICK n \in DOMAIN q : q[n] = j
    BY <1>1, <1>4 DEF Range, Ran
  <2>2. n # 1 /\ 1 < n
    BY <1>1, <1>2, <1>3, <1>4, <2>1
  <2> QED BY <1>2, <1>4, <2>1, <2>2 DEF Ordered
<1> QED BY <1>3, <1>4

\* A queue without its head is in order.
LEMMA TailOrder ==
  ASSUME NEW q, NEW ts, NEW us, Queued(q, ts), Ordered(q, ts), q # <<>>,
         \A i \in DOMAIN ts : us[i].req = ts[i].req
  PROVE  Ordered(Tail(q), us)
<1>1. q \in Seq(DOMAIN ts)
  BY DEF Queued
<1> DEFINE p == Tail(q)
<1>2. \A n \in DOMAIN p : n + 1 \in DOMAIN q /\ p[n] = q[n + 1] /\ q[n + 1] \in DOMAIN ts
                          /\ n \in Nat
  BY <1>1
<1> HIDE DEF p
<1>3. SUFFICES ASSUME NEW m \in DOMAIN p, NEW n \in DOMAIN p, m < n, p[n] < p[m]
               PROVE  us[p[m]].req.op \in ToFront
  BY DEF Ordered, p
<1>4. m + 1 < n + 1
  BY <1>2, <1>3
<1> QED BY <1>2, <1>3, <1>4 DEF Ordered

-----------------------------------------------------------------------------
(* What the steps leave of the tables' invariant.                           *)

\* A step that runs no task
LEMMA FollowsKept ==
  ASSUME NEW d, NEW q, NEW p, NEW ts, NEW us, Follows(ts, us), Kept(d, q, ts), Ordered(p, us)
  PROVE  Kept(d, p, us)
<1>1. Kinds(us)
  BY DEF Follows, Kept, Kinds
<1>2. InTurn(us) /\ Unanswered(us)
  <2>1. \A k \in DOMAIN us : Ran(us, k) => k \in DOMAIN ts /\ Ran(ts, k)
    BY DEF Follows
  <2>2. \A k \in DOMAIN ts : \A j \in DOMAIN us : j < k => j \in DOMAIN ts
    BY DEF Follows
  <2>3. InTurn(us)
    BY <2>1, <2>2 DEF InTurn, Follows, Kept
  <2>4. Unanswered(us)
    BY DEF Unanswered, Follows, Kept
  <2> QED BY <2>3, <2>4
<1>3. /\ Deletes(ts) \subseteq Deletes(us)
      /\ \A s : Adds(ts, s) \subseteq Adds(us, s)
      /\ \A k \in Deletes(us) : Ran(us, k) => k \in Deletes(ts)
      /\ \A s : \A k \in Adds(us, s) : k \in DOMAIN ts => k \in Adds(ts, s)
  BY DEF Deletes, Adds, Follows
<1>4. Stored(d, us)
  BY <1>3 DEF Stored, Follows, Kept, Adds, Deletes
<1>5. FindsStored(us)
  <2> SUFFICES ASSUME NEW j \in DOMAIN us, us[j].req.op = "lookup_session",
                      NEW i \in Adds(us, us[j].req.session),
                      i < j, Ran(us, j), us[j].result # "error", us[i].result # "error",
                      \A k \in Adds(us, us[j].req.session) : us[k].req.usable,
                      \A k \in Deletes(us) : k > j
               PROVE  us[j].result = us[j].req.session
    BY DEF FindsStored
  <2>1. j \in DOMAIN ts /\ Ran(ts, j) /\ us[j].req = ts[j].req /\ us[j].result = ts[j].result
    BY DEF Follows
  <2>2. i \in DOMAIN ts
    BY <2>1 DEF Follows, Adds
  <2>3. i \in Adds(ts, ts[j].req.session) /\ ts[i].result # "error"
    BY <1>3, <2>1, <2>2 DEF Follows
  <2>4. \A k \in Adds(ts, ts[j].req.session) : ts[k].req.usable
    BY <1>3, <2>1 DEF Adds, Follows
  <2>5. \A k \in Deletes(ts) : k > j
    BY <1>3
  <2> QED BY <2>1, <2>3, <2>4, <2>5 DEF FindsStored, Kept
<1>6. LastWins(d, us)
  <2>1. ASSUME NEW i \in DOMAIN us, NEW J, NEW K, K \subseteq J, J \cap DOMAIN ts \subseteq K,
               Settles(us, J, i)
        PROVE  i \in DOMAIN ts /\ Settles(ts, K, i) /\ us[i].req = ts[i].req
    <3>1. i \in DOMAIN ts /\ ts[i].result = "ok" /\ us[i].req = ts[i].req
      BY <2>1, NullAssumption DEF Settles, Follows
    <3> QED BY <1>3, <2>1, <3>1 DEF Settles
  <2>2. Saves(ts) \subseteq Saves(us) /\ Saves(us) \cap DOMAIN ts \subseteq Saves(ts)
    BY DEF Saves, Follows
  <2>3. \A r : /\ Rooms(ts, r) \subseteq Rooms(us, r)
                /\ Rooms(us, r) \cap DOMAIN ts \subseteq Rooms(ts, r)
    BY DEF Rooms, Follows
  <2>4. \A u : /\ Marks(ts, u) \subseteq Marks(us, u)
                /\ Marks(us, u) \cap DOMAIN ts \subseteq Marks(ts, u)
    BY DEF Marks, Follows
  <2>5. \A u : /\ Loads(ts, u) \subseteq Loads(us, u)
                /\ Loads(us, u) \cap DOMAIN ts \subseteq Loads(ts, u)
    BY DEF Loads, Follows
  <2>6. ASSUME NEW i \in DOMAIN us, Settles(us, Saves(us), i)
        PROVE  d.next_batch = us[i].req.batch
    BY <2>1, <2>2, <2>6 DEF Kept, LastWins
  <2>7. ASSUME NEW r \in Room, NEW i \in DOMAIN us, Settles(us, Rooms(us, r), i)
        PROVE  d.prev_batch[r] = us[i].req.prev
    BY <2>1, <2>3, <2>7 DEF Kept, LastWins
  <2>8. ASSUME NEW u \in User, NEW i \in DOMAIN us,
               Settles(us, Marks(us, u) \cup Loads(us, u), i)
        PROVE  u \in d.outdated <=> i \in Marks(us, u) /\ us[i].req.outdated
    <3>1. /\ i \in DOMAIN ts /\ us[i].req = ts[i].req
          /\ Settles(ts, Marks(ts, u) \cup Loads(ts, u), i)
      BY <2>1, <2>4, <2>5, <2>8
    <3>2. i \in Marks(us, u) <=> i \in Marks(ts, u)
      BY <2>4, <3>1
    <3> QED BY <3>1, <3>2 DEF Kept, LastWins
  <2> QED BY <2>6, <2>7, <2>8 DEF LastWins
<1> QED BY <1>1, <1>2, <1>4, <1>5, <1>6 DEF Kept

\* The worker has run the task id, with the result it gave.
RunBy(ts, us, id) ==
  /\ Tasks(ts) /\ DOMAIN us = DOMAIN ts /\ id \in DOMAIN ts /\ ~Ran(ts, id)
  /\ \A i \in DOMAIN ts : /\ us[i].req = ts[i].req
                          /\ Ran(us, i) <=> i = id \/ Ran(ts, i)
                          /\ i # id => us[i].result = ts[i].result

\* What the worker runs, it returns.
LEMMA MovedRun ==
  ASSUME NEW ts, NEW us, NEW id \in DOMAIN ts, Tasks(ts), Moved(ts, us, id, "returned"),
         ~Ran(ts, id)
  PROVE  RunBy(ts, us, id)
BY DEF Moved, RunBy, Ran

\* Running a task changes no call.
LEMMA RunSame ==
  ASSUME NEW ts, NEW us, NEW id, RunBy(ts, us, id)
  PROVE  /\ Deletes(us) = Deletes(ts) /\ Saves(us) = Saves(ts)
         /\ \A s : Adds(us, s) = Adds(ts, s)
         /\ \A r : Rooms(us, r) = Rooms(ts, r)
         /\ \A u : Marks(us, u) = Marks(ts, u)
         /\ \A u : Loads(us, u) = Loads(ts, u)
BY DEF RunBy, Deletes, Saves, Adds, Rooms, Marks, Loads

\* What has been settled is not changed by a call that is run later.
LEMMA SettledBefore ==
  ASSUME NEW ts, NEW us, NEW id, RunBy(ts, us, id), InTurn(ts), Unanswered(ts), Kinds(ts),
         NEW J, NEW i \in DOMAIN ts, ts[i].req.op \notin ToFront, Settles(us, J, i), i # id
  PROVE  Settles(ts, J, i) /\ id \notin J /\ ts[id].req.op \notin {"delete_client", "open"}
<1>1. DOMAIN ts \subseteq Nat /\ id \in DOMAIN ts /\ 1 \in DOMAIN ts
  BY DEF RunBy, Tasks
<1>2. Settles(ts, J, i)
  BY RunSame DEF Settles, RunBy
<1>3. Ran(ts, i)
  BY <1>2, NullAssumption DEF Settles, Unanswered
<1>4. i < id
  <2>1. ~(id < i)
    BY <1>1, <1>3 DEF InTurn, RunBy
  <2> QED BY <1>1, <2>1
<1>5. id \notin J
  BY <1>1, <1>2, <1>4 DEF Settles
<1>6. ts[id].req.op # "delete_client"
  BY <1>1, <1>2, <1>4 DEF Settles, Deletes
<1>7. ts[id].req.op # "open"
  <2>1. i \in Nat /\ i # 0 /\ id # 1
    BY <1>1, <1>4 DEF RunBy, Tasks
  <2> QED BY <1>1, <2>1 DEF Kinds, IsCall, CloseCall
<1> QED BY <1>2, <1>5, <1>6, <1>7

\* A session that is stored stays stored, whichever task is run.
LEMMA RunStored ==
  ASSUME NEW ts, NEW us, NEW id, RunBy(ts, us, id), NEW d, NEW e, Stored(d, ts),
         Effect(ts[id].req, d, e, us[id].result)
  PROVE  Stored(e, us)
<1> SUFFICES ASSUME NEW s, NEW i \in Adds(us, s), Ran(us, i), us[i].result # "error",
                    \A k \in Adds(us, s) : us[k].req.usable,
                    \A k \in Deletes(us) : ~Ran(us, k)
             PROVE  Found(e, s)
  BY DEF Stored
<1> DEFINE req == ts[id].req
<1>1. /\ id \in DOMAIN ts /\ i \in Adds(ts, s) /\ \A k \in Adds(ts, s) : ts[k].req.usable
      /\ \A k \in Deletes(ts) : ~Ran(ts, k)
      /\ req.op # "delete_client"
  <2>1. id \in DOMAIN ts
    BY DEF RunBy
  <2>2. i \in Adds(ts, s) /\ \A k \in Adds(ts, s) : ts[k].req.usable
    BY RunSame DEF RunBy, Adds
  <2>3. \A k \in Deletes(ts) : ~Ran(ts, k) /\ k # id
    BY RunSame DEF RunBy, Deletes
  <2> QED BY <2>1, <2>2, <2>3 DEF Deletes
<1>2. CASE i = id
  <2>1. req.op = "add_session" /\ req.usable /\ req.session = s
    BY <1>1, <1>2 DEF Adds
  <2> QED BY <1>2, <2>1 DEF Effect
<1>3. CASE i # id
  <2>1. Ran(ts, i) /\ ts[i].result # "error"
    BY <1>1, <1>3 DEF RunBy, Adds
  <2>2. Found(d, s)
    BY <1>1, <2>1 DEF Stored
  <2>3. ~(req.op = "add_session" /\ req.session = s /\ ~req.usable)
    BY <1>1 DEF Adds
  <2> QED BY <1>1, <2>2, <2>3 DEF Effect
<1> QED BY <1>2, <1>3

\* A lookup is run after whatever was called before it, and before any later call
\* that might have deleted the session.
LEMMA RunFindsStored ==
  ASSUME NEW ts, NEW us, NEW id, RunBy(ts, us, id), NEW d, NEW e, Stored(d, ts),
         FindsStored(ts), InTurn(ts), Effect(ts[id].req, d, e, us[id].result),
         ts[id].req.op \notin ToFront => \A j \in DOMAIN ts : j < id => Ran(ts, j)
  PROVE  FindsStored(us)
<1> SUFFICES ASSUME NEW j \in DOMAIN us, us[j].req.op = "lookup_session",
                    NEW i \in Adds(us, us[j].req.session),
                    i < j, Ran(us, j), us[j].result # "error", us[i].result # "error",
                    \A k \in Adds(us, us[j].req.session) : us[k].req.usable,
                    \A k \in Deletes(us) : k > j
             PROVE  us[j].result = us[j].req.session
  BY DEF FindsStored
<1> DEFINE s == ts[j].req.session
<1>1. /\ j \in DOMAIN ts /\ us[j].req = ts[j].req /\ ts[j].req.op = "lookup_session"
      /\ DOMAIN ts \subseteq Nat /\ id \in DOMAIN ts /\ ~Ran(ts, id)
  BY DEF RunBy, Tasks
<1>2. i \in Adds(ts, s) /\ \A k \in Adds(ts, s) : ts[k].req.usable
  BY <1>1, RunSame DEF RunBy, Adds
<1>3. \A k \in Deletes(ts) : k > j
  BY RunSame
<1>4. i \in DOMAIN ts
  BY <1>2 DEF Adds
<1>5. CASE j = id
  <2>1. Ran(ts, i) /\ ts[i].result # "error"
    BY <1>1, <1>4, <1>5 DEF RunBy, ToFront
  <2>2. ASSUME NEW k \in Deletes(ts), Ran(ts, k)
        PROVE  FALSE
    BY <1>1, <1>3, <1>5, <2>2 DEF InTurn, Deletes, ToFront
  <2>3. Found(d, s)
    BY <1>2, <2>1, <2>2 DEF Stored
  <2> QED BY <1>1, <1>5, <2>3 DEF Effect
<1>6. CASE j # id
  <2>1. Ran(ts, j) /\ us[j].result = ts[j].result
    BY <1>1, <1>6 DEF RunBy
  <2>2. Ran(ts, i)
    BY <1>1, <1>4, <2>1 DEF InTurn, ToFront
  <2>3. us[i].result = ts[i].result
    BY <1>1, <1>4, <2>2 DEF RunBy
  <2> QED BY <1>1, <1>2, <1>3, <2>1, <2>3 DEF FindsStored
<1> QED BY <1>5, <1>6

\* A call that settles something is the last to do so: those called before it were
\* run before it.
LEMMA RunLastWins ==
  ASSUME NEW ts, NEW us, NEW id, RunBy(ts, us, id), NEW d, NEW e, LastWins(d, ts),
         InTurn(ts), Unanswered(ts), Kinds(ts), Shape(d),
         Effect(ts[id].req, d, e, us[id].result)
  PROVE  LastWins(e, us)
<1> DEFINE req == ts[id].req
<1>1. /\ DOMAIN us = DOMAIN ts /\ id \in DOMAIN ts /\ \A i \in DOMAIN ts : us[i].req = ts[i].req
  BY DEF RunBy
<1>2. ASSUME NEW i \in DOMAIN us, Settles(us, Saves(us), i)
      PROVE  e.next_batch = us[i].req.batch
  <2>1. Settles(us, Saves(ts), i) /\ i \in Saves(ts) /\ us[i].result = "ok"
    BY <1>2, RunSame DEF Settles
  <2>2. CASE i = id
    BY <2>1, <2>2, <1>1 DEF Effect, Saves
  <2>3. CASE i # id
    <3>1. ts[i].req.op \notin ToFront
      BY <2>1 DEF Saves, ToFront
    <3>2. Settles(ts, Saves(ts), i) /\ id \notin Saves(ts) /\ req.op # "delete_client"
      BY <1>1, <2>1, <2>3, <3>1, SettledBefore
    <3>3. e.next_batch = d.next_batch
      BY <1>1, <3>2 DEF Effect, Saves
    <3> QED BY <1>1, <3>2, <3>3 DEF LastWins
  <2> QED BY <2>2, <2>3
<1>3. ASSUME NEW r \in Room, NEW i \in DOMAIN us, Settles(us, Rooms(us, r), i)
      PROVE  e.prev_batch[r] = us[i].req.prev
  <2>1. Settles(us, Rooms(ts, r), i) /\ i \in Rooms(ts, r) /\ us[i].result = "ok"
    BY <1>3, RunSame DEF Settles
  <2>2. DOMAIN d.prev_batch = Room
    BY DEF Shape
  <2>3. CASE i = id
    <3>1. req.op = "save_room" /\ req.room = r /\ us[i].req = req
      BY <1>1, <2>1, <2>3 DEF Rooms
    <3>2. e.prev_batch = [d.prev_batch EXCEPT ![r] = req.prev]
      BY <2>1, <2>3, <3>1 DEF Effect
    <3> QED BY <2>2, <3>1, <3>2
  <2>4. CASE i # id
    <3>1. ts[i].req.op \notin ToFront
      BY <2>1 DEF Rooms, ToFront
    <3>2. Settles(ts, Rooms(ts, r), i) /\ id \notin Rooms(ts, r) /\ req.op # "delete_client"
      BY <1>1, <2>1, <2>4, <3>1, SettledBefore
    <3>3. \/ req.room # r /\ e.prev_batch = [d.prev_batch EXCEPT ![req.room] = req.prev]
          \/ e.prev_batch = d.prev_batch
      BY <1>1, <3>2 DEF Effect, Rooms
    <3>4. e.prev_batch[r] = d.prev_batch[r]
      BY <2>2, <3>3
    <3> QED BY <1>1, <3>2, <3>4 DEF LastWins
  <2> QED BY <2>3, <2>4
<1>4. ASSUME NEW u \in User, NEW i \in DOMAIN us,
             Settles(us, Marks(us, u) \cup Loads(us, u), i)
      PROVE  u \in e.outdated <=> i \in Marks(us, u) /\ us[i].req.outdated
  <2> DEFINE J == Marks(ts, u) \cup Loads(ts, u)
  <2>1. Settles(us, J, i) /\ i \in J /\ us[i].result = "ok"
    BY <1>4, RunSame DEF Settles
  <2>2. CASE i = id
    <3>1. CASE i \in Marks(ts, u)
      <4>1. req.op = "mark_user_device_change" /\ u \in req.users
        BY <2>2, <3>1 DEF Marks
      <4>2. e.outdated = IF req.outdated THEN d.outdated \cup req.users
                         ELSE d.outdated \ req.users
        BY <2>1, <2>2, <4>1 DEF Effect
      <4>3. i \in Marks(us, u) /\ us[i].req = req
        BY <1>1, <2>2, <3>1, RunSame
      <4> QED BY <4>1, <4>2, <4>3
    <3>2. CASE i \in Loads(ts, u)
      <4>1. req.op = "update_user_devices" /\ u = req.user
        BY <2>2, <3>2 DEF Loads
      <4>2. e.outdated = d.outdated \ {u}
        BY <2>1, <2>2, <4>1 DEF Effect
      <4>3. i \notin Marks(us, u)
        BY <2>2, <4>1, RunSame DEF Marks
      <4> QED BY <4>2, <4>3
    <3> QED BY <2>1, <3>1, <3>2
  <2>3. CASE i # id
    <3>1. ts[i].req.op \notin ToFront
      BY <2>1 DEF Marks, Loads, ToFront
    <3>2. Settles(ts, J, i) /\ id \notin J /\ req.op \notin {"delete_client", "open"}
      BY <1>1, <2>1, <2>3, <3>1, SettledBefore
    <3>3. u \in e.outdated <=> u \in d.outdated
      BY <1>1, <3>2 DEF Effect, Marks, Loads
    <3>4. i \in Marks(us, u) <=> i \in Marks(ts, u)
      BY RunSame
    <3> QED BY <1>1, <3>2, <3>3, <3>4 DEF LastWins
  <2> QED BY <2>2, <2>3
<1> QED BY <1>2, <1>3, <1>4 DEF LastWins

\* The worker runs the task at the head of the queue, or fails to.
LEMMA WorkKept ==
  ASSUME NEW d, NEW q, NEW ts, NEW us, NEW e, Tasks(ts), Queued(q, ts), q # <<>>,
         Kept(d, q, ts), Moved(ts, us, Head(q), "returned"),
         Effect(ts[Head(q)].req, d, e, us[Head(q)].result)
  PROVE  Kept(e, Tail(q), us)
<1> DEFINE id == Head(q)
<1>1. /\ Kinds(ts) /\ Ordered(q, ts) /\ InTurn(ts) /\ Unanswered(ts)
      /\ Shape(d) /\ Stored(d, ts) /\ FindsStored(ts) /\ LastWins(d, ts)
  BY DEF Kept
<1>2. /\ id \in DOMAIN ts /\ ~Ran(ts, id)
      /\ ts[id].req.op \notin ToFront => \A j \in DOMAIN ts : j < id => Ran(ts, j)
  BY <1>1, HeadInTurn
<1>3. Moved(ts, us, id, "returned") /\ Effect(ts[id].req, d, e, us[id].result)
  OBVIOUS
<1>4. Ordered(Tail(q), us)
  BY <1>1, TailOrder DEF Moved
<1> HIDE DEF id
<1>5. RunBy(ts, us, id)
  BY <1>2, <1>3, MovedRun
<1>6. Kinds(us) /\ Unanswered(us)
  <2>1. 1 \in DOMAIN ts
    BY DEF Tasks
  <2> QED BY <1>1, <1>5, <2>1 DEF RunBy, Kinds, Unanswered
<1>7. InTurn(us)
  BY <1>1, <1>2, <1>5 DEF RunBy, InTurn
<1>8. Shape(e)
  BY <1>3 DEF Effect
<1>9. Stored(e, us)
  BY <1>1, <1>3, <1>5, RunStored
<1>10. FindsStored(us)
  BY <1>1, <1>2, <1>3, <1>5, RunFindsStored
<1>11. LastWins(e, us)
  BY <1>1, <1>3, <1>5, RunLastWins
<1> QED BY <1>4, <1>6, <1>7, <1>8, <1>9, <1>10, <1>11 DEF Kept

\* cm_db_dispose() where a step of the main loop ends
LEMMA DisposeKept ==
  ASSUME NEW ts, NEW ws, NEW a, Tasks(ts), Queued(queue, ts), Kept(db, queue, ts),
         MainStep(a, ts, ws)
  PROVE  Kept(db, queue', task')
<1>1. CASE Unused(a, ts) /\ open
  <2>1. task' = Append(ts, NewTask(CloseCall)) /\ queue' = Append(queue, Len(ts) + 1)
    BY <1>1, Zenon DEF MainStep
  <2>2. Made(ts, task', CloseCall)
    BY <2>1, TaskMade
  <2>3. Ordered(queue', task')
    BY <2>1, <2>2, LastOrder DEF Kept
  <2>4. Follows(ts, task')
    BY <2>2, MadeFollows
  <2> QED BY <2>3, <2>4, FollowsKept
<1>2. CASE ~(Unused(a, ts) /\ open)
  BY <1>2 DEF MainStep
<1> QED BY <1>1, <1>2

\* The tables of a file, before the first task
LEMMA InitKept == Init => Kept(db, queue, task)
<1> SUFFICES ASSUME Init PROVE Kept(db, queue, task)
  OBVIOUS
<1> DEFINE t == NewTask(OpenCall)
<1>1. /\ t.req.op = "open" /\ t.stage = "queued" /\ t.req = OpenCall /\ t.result = NULL
  BY DEF NewTask, OpenCall
<1>2. DOMAIN task = {1} /\ task[1] = t /\ db \in Files
  BY DEF Init
<1>3. DOMAIN queue = {1}
  BY DEF Init
<1> HIDE DEF t
<1>4. Kinds(task) /\ Unanswered(task) /\ InTurn(task) /\ Ordered(queue, task)
  BY <1>1, <1>2, <1>3 DEF Kinds, Unanswered, InTurn, Ordered, Ran
<1>5. Shape(db)
  <2>1. db \in Tables
    BY <1>2, FilesAssumption
  <2>2. /\ {"next_batch", "prev_batch", "outdated", "sessions", "usable"} \subseteq DOMAIN db
        /\ DOMAIN db.prev_batch = Room /\ db.sessions \in Seq(Session)
    BY <2>1 DEF Tables
  <2>3. db.sessions \in Seq(Range(db.sessions))
    BY <2>2, SeqOfRange
  <2> QED BY <2>2, <2>3 DEF Shape
<1>6. Stored(db, task) /\ FindsStored(task)
  BY <1>1, <1>2 DEF Stored, FindsStored, Adds
<1>7. LastWins(db, task)
  BY <1>1, <1>2 DEF LastWins, Settles, Saves, Rooms, Marks, Loads
<1> QED BY <1>4, <1>5, <1>6, <1>7 DEF Kept

\* No step leaves the invariant for the tables.
LEMMA StepKept == Inv /\ Kept(db, queue, task) /\ [Next]_vars => Kept(db, queue, task)'
<1> SUFFICES ASSUME Inv, Kept(db, queue, task), [Next]_vars
             PROVE  Kept(db', queue', task')
  OBVIOUS
<1>1. /\ Tasks(task) /\ Queued(queue, task) /\ queue \in Seq(DOMAIN task)
      /\ waits \in Seq(DOMAIN task) /\ IsInjective(waits)
      /\ Ordered(queue, task) /\ Shape(db) /\ Kinds(task)
  BY DEF Inv, Good, Queued, Waited, Kept
<1>2. ASSUME Len(task) <= Len(Requests), NEW req \in Requests[Len(task)], Call(req)
      PROVE  Kept(db', queue', task')
  <2>1. IsCall(req)
    <3>1. Len(task) \in DOMAIN Requests
      <4>1. Requests \in Seq(Range(Requests)) /\ Len(task) \in Nat /\ task # <<>>
        BY <1>1, RequestsAssumption DEF Tasks
      <4> QED BY <1>1, <1>2, <4>1 DEF Tasks
    <3> QED BY <1>2, <3>1, RequestsAssumption DEF IsCall
  <2>2. Made(task, task', req) /\ db' = db
    BY <1>1, <1>2, TaskMade DEF Call
  <2>3. Ordered(queue', task')
    <3>1. \/ queue' = Append(queue, Len(task) + 1)
          \/ req.op \in ToFront /\ queue' = <<Len(task) + 1>> \o queue
      BY <1>2 DEF Call, Pushed
    <3> QED BY <1>1, <2>2, <3>1, LastOrder, FrontOrder
  <2>4. Follows(task, task')
    BY <1>1, <2>1, <2>2, MadeFollows
  <2> QED BY <2>2, <2>3, <2>4, FollowsKept
<1>3. CASE Work \/ WorkFails
  <2> DEFINE id  == Head(queue)
             req == task[id].req
  <2>1. queue # <<>> /\ queue' = Tail(queue)
    BY <1>3 DEF Work, WorkFails
  <2>2. id \in DOMAIN task
    BY <1>1, <2>1, HeadInTurn
  <2>3. PICK result :
          /\ task' = [task EXCEPT ![id].stage = "returned", ![id].result = result]
          /\ Effect(req, db, db', result)
    <3>1. CASE Work
      <4> DEFINE run == Run(req, db)
      <4>1. db' = run.db /\ Returned(id, run.result)
        BY <3>1 DEF Work
      <4>2. IsCall(req) \/ req = OpenCall \/ req = CloseCall
        BY <1>1, <2>2 DEF Kinds
      <4> HIDE DEF req
      <4>3. Effect(req, db, run.db, run.result)
        BY <1>1, <4>2, RunEffect
      <4> HIDE DEF run
      <4> QED BY <4>1, <4>3, Zenon DEF Returned
    <3>2. CASE WorkFails
      <4>1. db' = db /\ Returned(id, "error") /\ req.op \in {"open", "close"}
        BY <3>2 DEF WorkFails
      <4> HIDE DEF req
      <4>2. Effect(req, db, db, "error")
        BY <1>1, <4>1, SelfUntouched, UntouchedEffect
      <4> QED BY <4>1, <4>2, Zenon DEF Returned
    <3> QED BY <1>3, <3>1, <3>2
  <2>4. Moved(task, task', id, "returned") /\ task'[id].result = result
    BY <1>1, <2>2, <2>3, ResultReturned, Zenon
  <2> QED BY <1>1, <2>1, <2>3, <2>4, WorkKept
<1>4. ASSUME NEW id \in DOMAIN task, Release(id)
      PROVE  Kept(db', queue', task')
  <2> DEFINE tasks == [task EXCEPT ![id].held = FALSE]
  <2>1. LetGo(task, tasks, id)
    BY <1>1, HeldNoMore
  <2>2. db' = db
    BY <1>4 DEF Release
  <2>3. \/ task' = tasks /\ queue' = queue
        \/ /\ task' = Append(tasks, NewTask(CloseCall))
           /\ queue' = Append(queue, Len(task) + 1)
    BY <1>4 DEF Release
  <2>4. Len(tasks) = Len(task)
    BY <1>1 DEF Tasks
  <2> HIDE DEF tasks
  <2>5. Follows(task, tasks)
    BY <1>1, <2>1, LetGoFollows
  <2>6. Ordered(queue, tasks)
    BY <1>1, <2>5, SameOrder
  <2>7. Kept(db, queue, tasks)
    BY <2>5, <2>6, FollowsKept
  <2>8. CASE /\ task' = Append(tasks, NewTask(CloseCall))
             /\ queue' = Append(queue, Len(task) + 1)
    <3>1. Tasks(tasks) /\ Queued(queue, tasks)
      BY <1>1, <2>1 DEF LetGo, Queued
    <3>2. Made(tasks, task', CloseCall)
      BY <2>8, <3>1, TaskMade
    <3>3. Ordered(queue', task')
      BY <2>4, <2>6, <2>8, <3>1, <3>2, LastOrder
    <3>4. Follows(tasks, task')
      BY <3>1, <3>2, MadeFollows
    <3> QED BY <2>2, <2>7, <3>3, <3>4, FollowsKept
  <2> QED BY <2>2, <2>3, <2>7, <2>8
<1>5. ASSUME NEW id \in DOMAIN task, NEW us, us = [task EXCEPT ![id].stage = "delivered"],
             task[id].stage \in {"returned", "completed"}
      PROVE  Tasks(us) /\ Queued(queue, us) /\ Kept(db, queue, us)
  <2>1. Moved(task, us, id, "delivered") /\ us[id].result = task[id].result
    BY <1>1, <1>5, StageChanged DEF Stages
  <2>2. Follows(task, us)
    BY <1>1, <1>5, <2>1, MovedFollows
  <2>3. Ordered(queue, us)
    BY <1>1, <2>2, SameOrder
  <2>4. Tasks(us) /\ Queued(queue, us)
    BY <1>1, <1>5, <2>1 DEF Moved, Queued
  <2> QED BY <2>2, <2>3, <2>4, FollowsKept
<1>6. ASSUME NEW id \in DOMAIN task, Deliver(id)
      PROVE  Kept(db', queue', task')
  <2>1. PICK us : us = [task EXCEPT ![id].stage = "delivered"]
    OBVIOUS
  <2>2. PICK b : MainStep(b, us, waits)
    BY <1>6, <2>1 DEF Deliver
  <2>3. task[id].stage = "returned" /\ db' = db
    BY <1>6 DEF Deliver
  <2>4. Tasks(us) /\ Queued(queue, us) /\ Kept(db, queue, us)
    BY <1>5, <2>1, <2>3
  <2> QED BY <2>2, <2>3, <2>4, DisposeKept
<1>7. ASSUME NEW id \in DOMAIN task, Complete(id)
      PROVE  Kept(db', queue', task')
  <2>1. task[id].stage = "returned" /\ UNCHANGED <<db, queue>>
    BY <1>7 DEF Complete
  <2>2. Moved(task, task', id, "completed") /\ task'[id].result = task[id].result
    BY <1>1, <1>7, StageChanged DEF Complete, Stages
  <2>3. Follows(task, task')
    BY <1>1, <2>1, <2>2, MovedFollows
  <2>4. Ordered(queue, task')
    BY <1>1, <2>3, SameOrder
  <2> QED BY <2>1, <2>3, <2>4, FollowsKept
<1>8. CASE WaitEnds
  <2> DEFINE id == Last(waits)
  <2>1. waits # <<>> /\ task[id].stage = "completed" /\ db' = db
    BY <1>8 DEF WaitEnds
  <2>2. id \in DOMAIN task
    BY <1>1, <2>1, WithoutLast, RangeOfSeq
  <2>3. PICK us : us = [task EXCEPT ![id].stage = "delivered"]
    OBVIOUS
  <2>4. MainStep(app, us, Front(waits))
    BY <1>8, <2>3 DEF WaitEnds
  <2>5. Tasks(us) /\ Queued(queue, us) /\ Kept(db, queue, us)
    BY <1>5, <2>1, <2>2, <2>3
  <2> QED BY <2>1, <2>4, <2>5, DisposeKept
<1>9. CASE DropRef
  BY <1>1, <1>9, DisposeKept DEF DropRef
<1>10. CASE UNCHANGED vars
  BY <1>10 DEF vars
<1> QED BY <1>2, <1>3, <1>4, <1>6, <1>7, <1>8, <1>9, <1>10 DEF Next

\* The invariant for the tables implies what the runs check of them.
LEMMA KeptIsRight == Kept(db, queue, task) => LookupFindsStored /\ LastCallWins
<1> SUFFICES ASSUME Kept(db, queue, task) PROVE LookupFindsStored /\ LastCallWins
  OBVIOUS
<1>1. LookupFindsStored
  <2> SUFFICES ASSUME NEW i \in Issued("add_session"), NEW j \in Issued("lookup_session"),
                      i < j, task[i].req.session = task[j].req.session,
                      HasRun(j), task[j].result # "error", task[i].result # "error",
                      \A k \in Issued("add_session") :
                        task[k].req.session = task[i].req.session => task[k].req.usable,
                      \A k \in Issued("delete_client") : k > j
               PROVE  task[j].result = task[i].req.session
    BY DEF LookupFindsStored
  <2>1. /\ j \in DOMAIN task /\ task[j].req.op = "lookup_session" /\ Ran(task, j)
        /\ i \in Adds(task, task[j].req.session)
    BY DEF Issued, HasRun, Ran, Adds
  <2>2. \A k \in Adds(task, task[j].req.session) : task[k].req.usable
    BY DEF Issued, Adds
  <2>3. \A k \in Deletes(task) : k > j
    BY DEF Issued, Deletes
  <2> QED BY <2>1, <2>2, <2>3 DEF Kept, FindsStored
<1>2. LastCallWins
  <2>1. ASSUME NEW J, NEW i \in Latest(J), task[i].result = "ok", Overrules(i)
        PROVE  Settles(task, J, i)
    BY <2>1 DEF Latest, Overrules, Issued, Settles, Deletes
  <2>2. ASSUME NEW i \in Latest(Issued("save_client")), task[i].result = "ok", Overrules(i)
        PROVE  db.next_batch = task[i].req.batch
    <3>1. Issued("save_client") = Saves(task)
      BY DEF Issued, Saves
    <3>2. Settles(task, Saves(task), i) /\ i \in DOMAIN task
      BY <2>1, <2>2, <3>1 DEF Latest, Saves
    <3> QED BY <3>2 DEF Kept, LastWins
  <2>3. ASSUME NEW r \in Room,
               NEW i \in Latest({j \in Issued("save_room") : task[j].req.room = r}),
               task[i].result = "ok", Overrules(i)
        PROVE  db.prev_batch[r] = task[i].req.prev
    <3>1. {j \in Issued("save_room") : task[j].req.room = r} = Rooms(task, r)
      BY DEF Issued, Rooms
    <3>2. Settles(task, Rooms(task, r), i) /\ i \in DOMAIN task
      BY <2>1, <2>3, <3>1 DEF Latest, Rooms
    <3> QED BY <3>2 DEF Kept, LastWins
  <2>4. ASSUME NEW u \in User
        PROVE  LET marks == {j \in Issued("mark_user_device_change") : u \in task[j].req.users}
                   loads == {j \in Issued("update_user_devices") : u = task[j].req.user}
               IN  \A i \in Latest(marks \cup loads) :
                     task[i].result = "ok" /\ Overrules(i)
                     => (u \in db.outdated <=> i \in marks /\ task[i].req.outdated)
    <3>1. /\ {j \in Issued("mark_user_device_change") : u \in task[j].req.users} = Marks(task, u)
          /\ {j \in Issued("update_user_devices") : u = task[j].req.user} = Loads(task, u)
      BY DEF Issued, Marks, Loads
    <3>2. ASSUME NEW i \in Latest(Marks(task, u) \cup Loads(task, u)),
                 task[i].result = "ok", Overrules(i)
          PROVE  u \in db.outdated <=> i \in Marks(task, u) /\ task[i].req.outdated
      <4>1. Settles(task, Marks(task, u) \cup Loads(task, u), i) /\ i \in DOMAIN task
        BY <2>1, <3>2 DEF Latest, Marks, Loads
      <4> QED BY <4>1 DEF Kept, LastWins
    <3> QED BY <3>1, <3>2
  <2> QED BY <2>2, <2>3, <2>4 DEF LastCallWins
<1> QED BY <1>1, <1>2

\* A session that a call has stored is found by every lookup called after it, although
\* it may overtake others in the queue (cm_db_add_session(), cm_db_lookup_session()).
THEOREM LookupsFindStored == Spec => []LookupFindsStored
<1> DEFINE I == Inv /\ Kept(db, queue, task)
<1>1. Init => I
  BY InitGood, InitKept
<1>2. I /\ [Next]_vars => I'
  BY StepGood, StepKept
<1>3. I => LookupFindsStored
  BY KeptIsRight
<1> QED BY <1>1, <1>2, <1>3, PTL DEF Spec

\* Of calls that store the same thing, the last one called decides what is stored
\* (cm_db_save_client_async(), cm_db_save_room_async(), cm_db_mark_user_device_change(),
\* cm_db_update_user_devices()).
THEOREM LastCallsWin == Spec => []LastCallWins
<1> DEFINE I == Inv /\ Kept(db, queue, task)
<1>1. Init => I
  BY InitGood, InitKept
<1>2. I /\ [Next]_vars => I'
  BY StepGood, StepKept
<1>3. I => LastCallWins
  BY KeptIsRight
<1> QED BY <1>1, <1>2, <1>3, PTL DEF Spec

===============================================================================
