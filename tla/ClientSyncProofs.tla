--------------------------- MODULE ClientSyncProofs ---------------------------
(***************************************************************************)
(* Proofs about ClientSync: type correctness, the loading flags, the retry *)
(* timer, what cm_client_is_sync() reports and the end of a cancelled      *)
(* loop, for any number of requests, cancellables and servers and any set  *)
(* of calls and failures.                                                  *)
(*                                                                         *)
(* A callback changes the client first and calls matrix_start_sync() then. *)
(* The invariant is therefore stated of a client s and of requests q, and  *)
(* in two parts: Settled(s, q) holds between the two as well, and InSync   *)
(* only when the callback has returned.                                    *)
(***************************************************************************)
EXTENDS ClientSync, TLAPS

Typed(s, q) == s \in Client /\ q \in [Req -> Op]

\* A loading flag stands for one request.
Loading(s, q) ==
  /\ \A r \in Req : q[r].stage \in Lists => q[r].stage \in s.loading
  /\ \A list \in s.loading : \E r \in Req : q[r].stage = list
  /\ \A r1, r2 \in Req : q[r1].stage \in Lists /\ q[r1].stage = q[r2].stage => r1 = r2

\* Everything but the database comes after the database.
DbFirst(s, q) ==
  /\ "db" \in s.loading => "db" \notin s.loaded
  /\ "db" \notin s.loaded =>
       /\ ~s.cm_enc
       /\ \A r \in Req : q[r].stage \in {"db", "idle", Aborted}

Timer(s) == s.timers = IF s.resync_id THEN 1 ELSE 0

\* Nothing is left to load once the client is in sync, or about to be.
Loaded(s) ==
  /\ s.loading = {} /\ "db" \in s.loaded
  /\ s.homeserver # NoServer
  /\ s.db_migrated => {"direct", "joined"} \subseteq s.loaded
Syncing(q) == \E r \in Req : q[r].stage \in {"sync", "key"}
Ready(s, q) == s.is_sync \/ Syncing(q) => Loaded(s)

Settled(s, q) ==
  Typed(s, q) /\ Loading(s, q) /\ DbFirst(s, q) /\ Timer(s) /\ Ready(s, q)

InSync(s, q) == s.token /\ s.login = "logged_in" /\ s.is_sync => Syncing(q)

\* The inductive invariant.
IInv ==
  /\ TypeOK
  /\ Settled(client, request)
  /\ InSync(client, request)

\* The requests while the callback of r runs, and what the callback leaves.
Free(r) == [request EXCEPT ![r] = Idle]
Kept == Settled(client', request') /\ InSync(client', request')

Task == [tag : Tags, canc : MaybeCancellable]

-----------------------------------------------------------------------------
(* The pieces the actions are made of.                                     *)

\* A client that changes where the invariant allows it stays settled.
LEMMA ChangeSettled ==
  ASSUME NEW s, NEW q, Settled(s, q), NEW t \in Client,
         t.loading = s.loading, t.loaded = s.loaded,
         t.db_migrated = s.db_migrated \/ ~(t.is_sync \/ Syncing(q)),
         t.cm_enc = s.cm_enc \/ "db" \in s.loaded,
         s.homeserver # NoServer => t.homeserver # NoServer,
         t.is_sync => s.is_sync \/ Loaded(s),
         Timer(t)
  PROVE  Settled(t, q)
  BY DEF Settled, Typed, Loading, DbFirst, Ready, Loaded

\* The answer to a request that is not the load of a list frees its slot.
LEMMA FreeSettled ==
  ASSUME NEW r \in Req, Settled(client, request), request[r].stage \notin Lists
  PROVE  Settled(client, Free(r))
<1>1. Idle \in Op
  BY DEF Idle, Op, Tags, MaybeServer, MaybeCancellable
<1>2. Free(r) \in [Req -> Op] /\ Free(r)[r] = Idle
      /\ \A x \in Req \ {r} : Free(r)[x] = request[x]
  BY <1>1 DEF Free, Settled, Typed
<1>3. Typed(client, Free(r)) /\ Timer(client)
  BY <1>2 DEF Settled, Typed
<1>4. Loading(client, Free(r))
  <2>1. \A x \in Req : Free(r)[x].stage \in Lists
                       => x # r /\ Free(r)[x] = request[x]
    BY <1>2 DEF Idle, Lists
  <2>2. \A list \in client.loading : list \in Lists
    BY DEF Settled, Typed, Client
  <2>3. \A list \in client.loading : \E x \in Req : Free(r)[x].stage = list
    BY <1>2, <2>2 DEF Settled, Loading
  <2> QED
    BY <2>1, <2>3 DEF Settled, Loading
<1>5. DbFirst(client, Free(r))
  BY <1>2 DEF Settled, DbFirst, Idle
<1>6. Ready(client, Free(r))
  BY <1>2 DEF Settled, Ready, Syncing, Idle
<1> QED
  BY <1>3, <1>4, <1>5, <1>6 DEF Settled

\* The answer to the load of a list resets its flag.
LEMMA ListDoneSettled ==
  ASSUME NEW r \in Req, Settled(client, request), request[r].stage \in Lists,
         NEW ok \in BOOLEAN, request[r].stage = "db" => ok
  PROVE  Settled(ListDone(request[r].stage, ok), Free(r))
<1> DEFINE list == request[r].stage
           s == ListDone(list, ok)
<1>1. Idle \in Op
  BY DEF Idle, Op, Tags, MaybeServer, MaybeCancellable
<1>2. Free(r) \in [Req -> Op] /\ Free(r)[r] = Idle
      /\ \A x \in Req \ {r} : Free(r)[x] = request[x]
  BY <1>1 DEF Free, Settled, Typed
<1>3. s = [client EXCEPT !.loading = client.loading \ {list},
                         !.loaded = IF ok THEN client.loaded \cup {list} ELSE client.loaded]
  BY DEF ListDone
<1>4. s \in Client
  <2>1. client.loading \ {list} \in SUBSET Lists
        /\ (IF ok THEN client.loaded \cup {list} ELSE client.loaded) \in SUBSET Lists
    BY DEF Client, Settled, Typed
  <2> HIDE DEF list
  <2> QED
    BY <1>3, <2>1 DEF Client, Settled, Typed
<1>5. /\ s.loading = client.loading \ {list}
      /\ s.loaded = IF ok THEN client.loaded \cup {list} ELSE client.loaded
      /\ s.db_migrated = client.db_migrated /\ s.cm_enc = client.cm_enc
      /\ s.homeserver = client.homeserver /\ s.is_sync = client.is_sync
      /\ s.timers = client.timers /\ s.resync_id = client.resync_id
  BY <1>3 DEF Client, Settled, Typed
<1>6. Typed(s, Free(r)) /\ Timer(s)
  BY <1>2, <1>4, <1>5 DEF Settled, Typed, Timer
<1>7. Loading(s, Free(r))
  <2>1. \A x \in Req : Free(r)[x].stage \in Lists
                       => x # r /\ Free(r)[x] = request[x]
    BY <1>2 DEF Idle, Lists
  <2>2. \A x \in Req : Free(r)[x].stage \in Lists => Free(r)[x].stage \in s.loading
    BY <1>5, <2>1 DEF Settled, Loading
  <2>3. \A l \in s.loading : \E x \in Req : Free(r)[x].stage = l
    BY <1>2, <1>5 DEF Settled, Loading
  <2> QED
    BY <2>1, <2>2, <2>3 DEF Settled, Loading
<1>8. list \in client.loading
  BY DEF Settled, Loading
<1>9. DbFirst(s, Free(r))
  BY <1>2, <1>5, <1>8 DEF Settled, DbFirst, Idle, Lists
<1>10. Ready(s, Free(r))
  BY <1>2, <1>5, <1>8 DEF Settled, Ready, Syncing, Loaded, Idle
<1> QED
  BY <1>6, <1>7, <1>9, <1>10 DEF Settled

\* What each answer of the dispatcher's chain of conditions says of the client.
LEMMA StageFacts ==
  ASSUME NEW s \in Client
  PROVE  /\ Stage(s) \in Stages \cup {"busy", "no_server", "no_password"}
         /\ Stage(s) # "busy" => s.loading = {}
         /\ Stage(s) \in Lists => Stage(s) \notin s.loaded
         /\ Stage(s) \notin {"busy", "db"} => "db" \in s.loaded
         /\ Stage(s) = "sync" => Loaded(s)
         /\ Stage(s) # "key"
         /\ Loaded(s) => Stage(s) \notin Lists \cup {"busy", "get_hs", "no_server"}
         /\ Stage(s) = "no_password" => ~s.token
  BY DEF Stage, Stages, Lists, Loaded

\* matrix_start_sync() keeps a settled client settled, and leaves a client that
\* reports to be in sync with a /sync under way.
LEMMA StartKeeps ==
  ASSUME NEW s, NEW q, NEW r \in Req, NEW task \in Task,
         Settled(s, q), q[r] = Idle
  PROVE  /\ Settled(Advance(s), [q EXCEPT ![r] = Sent(s, task)])
         /\ InSync(Advance(s), [q EXCEPT ![r] = Sent(s, task)])
<1> DEFINE t == Advance(s)
           op == Sent(s, task)
           p == [q EXCEPT ![r] = op]
           stage == Stage(s)
<1>1. s \in Client /\ q \in [Req -> Op]
  BY DEF Settled, Typed
<1>2. /\ stage \in Stages \cup {"busy", "no_server", "no_password"}
      /\ stage # "busy" => s.loading = {}
      /\ stage \in Lists => stage \notin s.loaded
      /\ stage \notin {"busy", "db"} => "db" \in s.loaded
      /\ stage = "sync" => Loaded(s)
      /\ stage # "key"
      /\ Loaded(s) => stage \notin Lists \cup {"busy", "get_hs", "no_server"}
      /\ stage = "no_password" => ~s.token
  BY <1>1, StageFacts
<1>3. op \in Op
  <2>1. CASE stage \notin Stages
    BY <2>1 DEF Sent, Idle, Op, Tags, MaybeServer, MaybeCancellable
  <2>2. CASE stage \in Stages
    <3>1. op = [ stage  |-> op.stage, tag |-> op.tag, canc |-> op.canc, server |-> op.server ]
          /\ op.stage \in {stage, Aborted}
          /\ op.tag \in Tags /\ op.canc \in MaybeCancellable /\ op.server \in MaybeServer
      BY <1>1, <2>2 DEF Sent, Task, Tags, MaybeCancellable, MaybeServer, Client
    <3> HIDE DEF op
    <3> QED
      BY <2>2, <3>1 DEF Op
  <2> QED
    BY <2>1, <2>2
<1>4. /\ op.stage = IF stage \notin Stages THEN "idle"
                    ELSE IF stage = "login" /\ ~s.password THEN Aborted ELSE stage
  BY DEF Sent, Idle
<1>5. t \in Client
  <2>1. s.loading \cup ({stage} \cap Lists) \in SUBSET Lists
    BY <1>1 DEF Client
  <2>2. (s.token /\ stage # "login") \in BOOLEAN
    OBVIOUS
  <2>3. (IF LoggingIn(s) THEN "logging_in" ELSE s.login)
          \in {"out", "logging_in", "logged_in"}
    BY <1>1 DEF Client
  <2> HIDE DEF stage
  <2>4. t = [s EXCEPT !.sync_failed = FALSE,
                      !.loading = s.loading \cup ({stage} \cap Lists),
                      !.token = s.token /\ stage # "login",
                      !.login = IF LoggingIn(s) THEN "logging_in" ELSE s.login]
    BY DEF Advance, stage
  <2> QED
    BY <1>1, <2>1, <2>2, <2>3, <2>4 DEF Client
<1>6. /\ t.loading = s.loading \cup ({stage} \cap Lists)
      /\ t.token = (s.token /\ stage # "login")
      /\ t.login = IF LoggingIn(s) THEN "logging_in" ELSE s.login
      /\ t.loaded = s.loaded /\ t.db_migrated = s.db_migrated /\ t.cm_enc = s.cm_enc
      /\ t.homeserver = s.homeserver /\ t.is_sync = s.is_sync
      /\ t.timers = s.timers /\ t.resync_id = s.resync_id
  BY <1>1 DEF Advance, Client
<1>7. LoggingIn(s) <=> stage \in {"get_hs", "verify", "login", "filter"}
                       \/ (stage = "sync" /\ ~s.is_sync)
  BY DEF LoggingIn
<1>8. p \in [Req -> Op] /\ p[r] = op /\ \A x \in Req \ {r} : p[x] = q[x]
  BY <1>1, <1>3
<1> HIDE DEF t, op, p, stage
<1>9. Typed(t, p) /\ Timer(t)
  BY <1>5, <1>6, <1>8 DEF Settled, Typed, Timer
<1>10. Loading(t, p)
  <2>1. CASE stage \in Lists
    <3>1. s.loading = {} /\ t.loading = {stage}
      BY <1>2, <1>6, <2>1 DEF Lists
    <3>2. op.stage = stage
      BY <1>4, <2>1 DEF Lists, Stages
    <3>3. \A x \in Req \ {r} : p[x].stage \notin Lists
      BY <1>8, <3>1 DEF Settled, Loading
    <3> QED
      BY <1>8, <2>1, <3>1, <3>2, <3>3 DEF Loading
  <2>2. CASE stage \notin Lists
    <3>1. t.loading = s.loading /\ op.stage \notin Lists
      BY <1>4, <1>6, <2>2 DEF Lists, Aborted
    <3>2. \A x \in Req : p[x].stage \in Lists => x # r /\ p[x] = q[x]
      BY <1>8, <3>1
    <3>3. \A list \in s.loading : list \in Lists
      BY <1>1 DEF Client
    <3>4. \A list \in t.loading : \E x \in Req : p[x].stage = list
      BY <1>8, <3>1, <3>3 DEF Settled, Loading, Idle, Lists
    <3> QED
      BY <3>1, <3>2, <3>4 DEF Settled, Loading
  <2> QED
    BY <2>1, <2>2
<1>11. DbFirst(t, p)
  <2>1. ASSUME "db" \in t.loading PROVE "db" \notin t.loaded
    BY <1>2, <1>6, <2>1 DEF Settled, DbFirst
  <2>2. ASSUME "db" \notin t.loaded
        PROVE  ~t.cm_enc /\ \A x \in Req : p[x].stage \in {"db", "idle", Aborted}
    <3>1. op.stage \in {"db", "idle", Aborted}
      BY <1>2, <1>4, <1>6, <2>2 DEF Stages, Lists
    <3> QED
      BY <1>6, <1>8, <2>2, <3>1 DEF Settled, DbFirst
  <2> QED
    BY <2>1, <2>2 DEF DbFirst
<1>12. Syncing(p) <=> Syncing(q) \/ op.stage = "sync"
  BY <1>2, <1>4, <1>8 DEF Syncing, Idle, Aborted
<1>13. Ready(t, p)
  <2>1. ASSUME t.is_sync \/ Syncing(p) PROVE Loaded(s)
    BY <1>2, <1>4, <1>6, <1>12, <2>1 DEF Settled, Ready, Aborted
  <2> QED
    BY <1>2, <1>6, <2>1 DEF Ready, Loaded
<1>14. InSync(t, p)
  <2> SUFFICES ASSUME t.token, t.login = "logged_in", t.is_sync PROVE Syncing(p)
    BY DEF InSync
  <2>1. Loaded(s) /\ ~LoggingIn(s)
    BY <1>6 DEF Settled, Ready
  <2>2. stage = "sync"
    BY <1>2, <1>6, <1>7, <2>1 DEF Stages, Lists
  <2> QED
    BY <1>4, <1>12, <2>2 DEF Stages
<1> QED
  BY <1>9, <1>10, <1>11, <1>13, <1>14 DEF Settled, t, op, p

LEMMA TaskTypes ==
  /\ \A s \in Client : NewTask(s) \in Task
  /\ \A op \in Op : TaskOf(op) \in Task
  BY DEF NewTask, TaskOf, Task, Tags, MaybeCancellable, Client, Op

LEMMA FreeType ==
  ASSUME TypeOK, NEW r \in Req
  PROVE  /\ Idle \in Op
         /\ Free(r)[r] = Idle
         /\ \A op : [Free(r) EXCEPT ![r] = op] = [request EXCEPT ![r] = op]
  BY DEF TypeOK, Free, Idle, Op, Tags, MaybeServer, MaybeCancellable

\* A callback that ends with matrix_start_sync().
LEMMA StartSyncKept ==
  ASSUME TypeOK, NEW r \in Req, NEW s, NEW task \in Task,
         Settled(s, Free(r)), StartSync(s, r, task)
  PROVE  Kept
<1>1. /\ Settled(Advance(s), [Free(r) EXCEPT ![r] = Sent(s, task)])
      /\ InSync(Advance(s), [Free(r) EXCEPT ![r] = Sent(s, task)])
  BY FreeType, StartKeeps
<1>2. [Free(r) EXCEPT ![r] = Sent(s, task)] = request'
  BY FreeType DEF StartSync
<1> QED
  BY <1>1, <1>2 DEF StartSync, Kept

\* A callback that ends without another request.
LEMMA FinishKept ==
  ASSUME TypeOK, NEW r \in Req, NEW s,
         Settled(s, Free(r)), InSync(s, Free(r)), Finish(s, r)
  PROVE  Kept
  BY DEF Finish, Kept, Free

\* Arming the retry timer, after the one that is armed is removed.
LEMMA RetryLaterSettled ==
  ASSUME NEW s, NEW q, Settled(s, q)
  PROVE  /\ Settled(RetryLater(s), q)
         /\ InSync(s, q) => InSync(RetryLater(s), q)
<1> DEFINE t == RetryLater(s)
<1>1. s \in Client /\ s.timers = IF s.resync_id THEN 1 ELSE 0
  BY DEF Settled, Typed, Timer
<1>2. t \in Client /\ Timer(t)
      /\ t.loading = s.loading /\ t.loaded = s.loaded /\ t.db_migrated = s.db_migrated
      /\ t.cm_enc = s.cm_enc /\ t.homeserver = s.homeserver /\ t.is_sync = s.is_sync
      /\ t.token = s.token /\ t.login = s.login
  <2> DEFINE f == [s EXCEPT !.sync_failed = TRUE]
             g == ClearTimer(f)
             h == ArmTimer(g)
  <2>1. f \in Client /\ f.timers = s.timers /\ f.resync_id = s.resync_id
        /\ f.loading = s.loading /\ f.loaded = s.loaded /\ f.db_migrated = s.db_migrated
        /\ f.cm_enc = s.cm_enc /\ f.homeserver = s.homeserver /\ f.is_sync = s.is_sync
        /\ f.token = s.token /\ f.login = s.login
    BY <1>1 DEF Client
  <2> HIDE DEF f
  <2>2. g \in Client /\ g.timers = 0 /\ ~g.resync_id
        /\ g.loading = s.loading /\ g.loaded = s.loaded /\ g.db_migrated = s.db_migrated
        /\ g.cm_enc = s.cm_enc /\ g.homeserver = s.homeserver /\ g.is_sync = s.is_sync
        /\ g.token = s.token /\ g.login = s.login
    <3>1. (IF f.resync_id THEN f.timers - 1 ELSE f.timers) = 0
      BY <1>1, <2>1
    <3>2. g = [f EXCEPT !.timers = 0, !.resync_id = FALSE]
      BY <3>1 DEF ClearTimer
    <3> HIDE DEF g
    <3> QED
      BY <2>1, <3>2 DEF Client
  <2> HIDE DEF g
  <2>3. h \in Client /\ h.timers = 1 /\ h.resync_id
        /\ h.loading = s.loading /\ h.loaded = s.loaded /\ h.db_migrated = s.db_migrated
        /\ h.cm_enc = s.cm_enc /\ h.homeserver = s.homeserver /\ h.is_sync = s.is_sync
        /\ h.token = s.token /\ h.login = s.login
    <3>1. g.timers + 1 = 1
      BY <2>2
    <3>2. h = [g EXCEPT !.timers = 1, !.resync_id = TRUE]
      BY <3>1 DEF ArmTimer
    <3> HIDE DEF h
    <3> QED
      BY <2>2, <3>2 DEF Client
  <2>4. t = f \/ t = h
    BY DEF RetryLater, f, g
  <2> QED
    BY <1>1, <2>1, <2>3, <2>4 DEF Timer
<1> QED
  BY <1>2, ChangeSettled DEF InSync

\* client_reset_state() forgets what the client is logged in with.
LEMMA ResetSettled ==
  ASSUME NEW s, NEW q, Settled(s, q)
  PROVE  Settled(ResetState(s), q)
<1>1. s \in Client /\ Timer(s)
  BY DEF Settled, Typed
<1>2. ResetState(s) \in Client /\ Timer(ResetState(s))
      /\ ResetState(s).loading = s.loading /\ ResetState(s).loaded = s.loaded
      /\ ResetState(s).db_migrated = s.db_migrated /\ ResetState(s).cm_enc = s.cm_enc
      /\ ResetState(s).homeserver = s.homeserver /\ ~ResetState(s).is_sync
  BY <1>1 DEF ResetState, Client, Timer
<1> QED
  BY <1>2, ChangeSettled

\* A callback that ends with handle_matrix_glitches().
LEMMA GlitchKept ==
  ASSUME TypeOK, NEW r \in Req, NEW s, NEW error,
         Settled(s, Free(r)), InSync(s, Free(r)), HandleGlitch(s, r, error)
  PROVE  Kept
<1>1. CASE error = "unknown_token" /\ s.password
  <2>1. Settled(ResetState(s), Free(r))
    BY ResetSettled
  <2>2. s \in Client /\ NewTask(s) \in Task
    BY TaskTypes DEF Settled, Typed
  <2> QED
    BY <1>1, <2>1, <2>2, StartSyncKept DEF HandleGlitch
<1>2. CASE ~(error = "unknown_token" /\ s.password) /\ error \in {"net", "timeout"}
  BY <1>2, RetryLaterSettled, FinishKept DEF HandleGlitch
<1>3. CASE ~(error = "unknown_token" /\ s.password) /\ error \notin {"net", "timeout"}
  BY <1>3, FinishKept DEF HandleGlitch
<1> QED
  BY <1>1, <1>2, <1>3

\* A callback that ends with the upload of one time keys.
LEMMA UploadKeysKept ==
  ASSUME TypeOK, NEW r \in Req, NEW s,
         Settled(s, Free(r)), Loaded(s), UploadKeys(s, r)
  PROVE  Kept
<1> DEFINE op == KeyUpload(s)
           q == Free(r)
<1>1. s \in Client /\ q \in [Req -> Op]
  BY DEF Settled, Typed
<1>2. op \in Op /\ op.stage = "key"
  <2>1. op = [stage |-> "key", tag |-> "sync", canc |-> s.cancellable, server |-> NoServer]
    BY DEF KeyUpload
  <2>2. s.cancellable \in MaybeCancellable
    BY <1>1 DEF Client, MaybeCancellable
  <2>3. "key" \in Stages \cup {"idle", Aborted} /\ "sync" \in Tags /\ NoServer \in MaybeServer
    BY DEF Stages, Tags, MaybeServer
  <2> HIDE DEF op
  <2> QED
    BY <2>1, <2>2, <2>3 DEF Op
<1>3. client' = s /\ request' = [request EXCEPT ![r] = op]
  BY DEF UploadKeys
<1> HIDE DEF op
<1>4. request' = [q EXCEPT ![r] = op]
  BY <1>3, FreeType
<1>5. q[r].stage = "idle"
  BY FreeType DEF Idle
<1> HIDE DEF q
<1>6. request' \in [Req -> Op] /\ request'[r] = op
      /\ \A x \in Req \ {r} : request'[x] = q[x]
  BY <1>1, <1>2, <1>4
<1>7. Typed(s, request') /\ Timer(s)
  BY <1>1, <1>6 DEF Typed, Settled, q
<1>8. Loading(s, request')
  BY <1>2, <1>5, <1>6 DEF Settled, Loading, Loaded, Lists, q
<1>9. DbFirst(s, request')
  BY DEF Settled, DbFirst, Loaded
<1>10. Ready(s, request') /\ Syncing(request')
  BY <1>2, <1>6 DEF Ready, Syncing
<1> QED
  BY <1>3, <1>7, <1>8, <1>9, <1>10 DEF Kept, Settled, InSync

-----------------------------------------------------------------------------
(* The answers.                                                            *)

LEMMA DbLoadedKept ==
  ASSUME IInv, NEW r \in Req, DbLoaded(r)
  PROVE  Kept
<1> DEFINE s == ListDone("db", TRUE)
           t(enc, filter) == [s EXCEPT !.cm_enc = enc, !.pickle_key = enc,
                                       !.filter_id = filter, !.db_migrated = Migrated]
<1>1. request[r].stage = "db" /\ TypeOK /\ Settled(client, request)
  BY DEF DbLoaded, Answers, IInv
<1>2. Settled(s, Free(r))
  BY <1>1, ListDoneSettled DEF Lists
<1>3. TaskOf(request[r]) \in Task
  BY <1>1, TaskTypes DEF TypeOK
<1>4. "db" \in client.loading
  BY <1>1 DEF Settled, Loading, Lists
<1>5. s.is_sync = client.is_sync /\ "db" \in s.loaded
  BY <1>1 DEF ListDone, TypeOK, Client
<1>6. ~client.is_sync /\ ~Syncing(request)
  BY <1>1, <1>4 DEF Settled, Ready, Loaded
<1>7. ~Syncing(Free(r))
  BY <1>1, <1>6, FreeType DEF Syncing, Free, Idle, TypeOK
<1> HIDE DEF s
<1>8. ASSUME NEW enc \in BOOLEAN, NEW filter \in BOOLEAN
      PROVE  Settled(t(enc, filter), Free(r))
  <2>1. s \in Client /\ Timer(s)
    BY <1>2 DEF Settled, Typed
  <2>2. Migrated \in BOOLEAN
    BY ConstantsAssumption
  <2>3. t(enc, filter) \in Client
        /\ t(enc, filter).loading = s.loading /\ t(enc, filter).loaded = s.loaded
        /\ t(enc, filter).homeserver = s.homeserver /\ t(enc, filter).is_sync = s.is_sync
        /\ Timer(t(enc, filter))
    BY <2>1, <2>2 DEF Client, Timer
  <2> HIDE DEF t
  <2> QED
    BY <1>2, <1>5, <1>6, <1>7, <2>3, ChangeSettled
<1>9. CASE StartSync(s, r, TaskOf(request[r]))
  BY <1>1, <1>2, <1>3, <1>9, StartSyncKept
<1>10. ASSUME NEW enc \in BOOLEAN, NEW filter \in BOOLEAN,
              StartSync(t(enc, filter), r, TaskOf(request[r]))
       PROVE  Kept
  <2>1. Settled(t(enc, filter), Free(r))
    BY <1>8
  <2> HIDE DEF t
  <2> QED
    BY <1>1, <1>3, <1>10, <2>1, StartSyncKept
<1>11. \/ StartSync(s, r, TaskOf(request[r]))
       \/ \E has_pickle, filter \in BOOLEAN :
            StartSync(t(has_pickle /\ client.pickle_key, filter), r, TaskOf(request[r]))
  BY DEF DbLoaded, s
<1>12. \A has_pickle \in BOOLEAN : (has_pickle /\ client.pickle_key) \in BOOLEAN
  OBVIOUS
<1> HIDE DEF t
<1> QED
  BY <1>9, <1>10, <1>11, <1>12

\* The answer to the request of slot r finds the client settled without it.
LEMMA AnswerFacts ==
  ASSUME IInv, NEW r \in Req, request[r].stage \in Stages \ Lists
  PROVE  /\ TypeOK /\ Settled(client, Free(r)) /\ client \in Client /\ Timer(client)
         /\ request[r] \in Op /\ TaskOf(request[r]) \in Task
         /\ "db" \in client.loaded
         /\ request[r].stage \in {"sync", "key"} => Loaded(client)
<1>1. TypeOK /\ Settled(client, request) /\ request[r] \in Op /\ client \in Client
  BY DEF IInv, TypeOK
<1>2. TaskOf(request[r]) \in Task
  BY <1>1, TaskTypes
<1>3. "db" \in client.loaded
  BY <1>1 DEF Settled, DbFirst, Stages, Lists, Aborted
<1>4. request[r].stage \in {"sync", "key"} => Loaded(client)
  BY <1>1 DEF Settled, Ready, Syncing
<1>5. Settled(client, Free(r)) /\ Timer(client)
  BY <1>1, FreeSettled DEF Settled
<1> QED
  BY <1>1, <1>2, <1>3, <1>4, <1>5

LEMMA GotHomeserverKept ==
  ASSUME IInv, NEW r \in Req, GotHomeserver(r)
  PROVE  Kept
<1> DEFINE op == request[r]
           s == [client EXCEPT !.login = "out"]
           failed == [s EXCEPT !.sync_failed = TRUE]
           found(url) == [s EXCEPT !.homeserver = url]
<1>1. op.stage = "get_hs"
  BY DEF GotHomeserver, Answers
<1>2. /\ TypeOK /\ Settled(client, Free(r)) /\ client \in Client /\ Timer(client)
      /\ TaskOf(op) \in Task
  BY <1>1, AnswerFacts DEF Stages, Lists
<1>3. Settled(s, Free(r))
  <2>1. s \in Client /\ Timer(s) /\ s.loading = client.loading /\ s.loaded = client.loaded
        /\ s.db_migrated = client.db_migrated /\ s.cm_enc = client.cm_enc
        /\ s.homeserver = client.homeserver /\ s.is_sync = client.is_sync
    BY <1>2 DEF Client, Timer
  <2> HIDE DEF s
  <2> QED
    BY <1>2, <2>1, ChangeSettled
<1>4. Settled(failed, Free(r)) /\ InSync(failed, Free(r))
  <2>1. failed \in Client /\ Timer(failed)
        /\ failed.loading = client.loading /\ failed.loaded = client.loaded
        /\ failed.db_migrated = client.db_migrated /\ failed.cm_enc = client.cm_enc
        /\ failed.homeserver = client.homeserver /\ failed.is_sync = client.is_sync
        /\ failed.login = "out"
    BY <1>2 DEF Client, Timer
  <2> HIDE DEF failed
  <2> QED
    BY <1>2, <2>1, ChangeSettled DEF InSync
<1>5. ASSUME NEW url \in Server PROVE Settled(found(url), Free(r))
  <2>1. found(url) \in Client /\ Timer(found(url))
        /\ found(url).loading = client.loading /\ found(url).loaded = client.loaded
        /\ found(url).db_migrated = client.db_migrated /\ found(url).cm_enc = client.cm_enc
        /\ found(url).homeserver = url /\ found(url).is_sync = client.is_sync
    BY <1>2 DEF Client, Timer, MaybeServer
  <2>2. url # NoServer
    BY ConstantsAssumption
  <2> HIDE DEF found
  <2> QED
    BY <1>2, <2>1, <2>2, ChangeSettled
<1>6. \/ \E url \in Server : StartSync(found(url), r, TaskOf(op))
      \/ StartSync(s, r, TaskOf(op))
      \/ Finish(failed, r)
      \/ \E error : HandleGlitch(failed, r, error)
  BY DEF GotHomeserver
<1> HIDE DEF s, failed, found
<1> QED
  BY <1>2, <1>3, <1>4, <1>5, <1>6, StartSyncKept, FinishKept, GlitchKept

LEMMA HomeserverVerifiedKept ==
  ASSUME IInv, NEW r \in Req, HomeserverVerified(r)
  PROVE  Kept
<1> DEFINE op == request[r]
           s == [client EXCEPT !.login = "out", !.tried = TRUE]
           failed(c) == [s EXCEPT !.versions = NoServer, !.sync_failed = TRUE,
                                  !.cancellable = c]
           verified == [s EXCEPT !.versions = op.server]
<1>1. op.stage = "verify"
  BY DEF HomeserverVerified, Answers
<1>2. /\ TypeOK /\ Settled(client, Free(r)) /\ client \in Client /\ Timer(client)
      /\ TaskOf(op) \in Task /\ op \in Op
  BY <1>1, AnswerFacts DEF Stages, Lists
<1>3. client.cancellable \in Cancellable /\ op.server \in MaybeServer
  BY <1>2 DEF Client, Op
<1>4. ASSUME NEW c \in Cancellable
      PROVE  Settled(failed(c), Free(r)) /\ InSync(failed(c), Free(r))
  <2>1. failed(c) \in Client /\ Timer(failed(c))
        /\ failed(c).loading = client.loading /\ failed(c).loaded = client.loaded
        /\ failed(c).db_migrated = client.db_migrated /\ failed(c).cm_enc = client.cm_enc
        /\ failed(c).homeserver = client.homeserver /\ failed(c).is_sync = client.is_sync
        /\ failed(c).login = "out"
    BY <1>2 DEF Client, Timer, MaybeServer
  <2> HIDE DEF failed
  <2> QED
    BY <1>2, <2>1, ChangeSettled DEF InSync
<1>5. Settled(verified, Free(r)) /\ InSync(verified, Free(r))
  <2>1. verified \in Client /\ Timer(verified)
        /\ verified.loading = client.loading /\ verified.loaded = client.loaded
        /\ verified.db_migrated = client.db_migrated /\ verified.cm_enc = client.cm_enc
        /\ verified.homeserver = client.homeserver /\ verified.is_sync = client.is_sync
        /\ verified.login = "out"
    BY <1>2, <1>3 DEF Client, Timer
  <2> HIDE DEF verified
  <2> QED
    BY <1>2, <2>1, ChangeSettled DEF InSync
<1>6. \/ Finish(verified, r) \/ StartSync(verified, r, TaskOf(op))
      \/ \E c \in Cancellable : Finish(failed(c), r)
      \/ \E c \in Cancellable : \E error : HandleGlitch(failed(c), r, error)
  BY <1>3 DEF HomeserverVerified
<1> HIDE DEF failed, verified
<1> QED
  BY <1>2, <1>4, <1>5, <1>6, StartSyncKept, FinishKept, GlitchKept

\* client_password_login_cb() and matrix_take_red_pill_cb() fail alike.
LEMMA FailedSettled ==
  ASSUME NEW r \in Req, client \in Client, Settled(client, Free(r))
  PROVE  Settled(Failed(client), Free(r)) /\ InSync(Failed(client), Free(r))
<1> DEFINE s == Failed(client)
<1>1. s \in Client /\ s.timers = client.timers /\ s.resync_id = client.resync_id
      /\ s.loading = client.loading /\ s.loaded = client.loaded
      /\ s.db_migrated = client.db_migrated /\ s.cm_enc = client.cm_enc
      /\ s.homeserver = client.homeserver /\ s.is_sync = client.is_sync
      /\ s.login = "out"
  BY DEF Failed, Client
<1>2. Timer(s)
  BY <1>1 DEF Settled, Timer
<1> HIDE DEF s
<1>3. Settled(s, Free(r)) /\ InSync(s, Free(r))
  BY <1>1, <1>2, ChangeSettled DEF InSync
<1> QED
  BY <1>3 DEF s

LEMMA LoginDoneKept ==
  ASSUME IInv, NEW r \in Req, LoginDone(r)
  PROVE  Kept
<1> DEFINE op == request[r]
           s(url) == [client EXCEPT !.user_id = TRUE, !.token = TRUE, !.cm_enc = TRUE,
                        !.homeserver = IF client.login = "logged_in" THEN client.homeserver
                                       ELSE url,
                        !.login = "logged_in"]
<1>1. op.stage = "login"
  BY DEF LoginDone, Answers
<1>2. /\ TypeOK /\ Settled(client, Free(r)) /\ client \in Client /\ Timer(client)
      /\ TaskOf(op) \in Task /\ "db" \in client.loaded
  BY <1>1, AnswerFacts DEF Stages, Lists
<1>3. ASSUME NEW url \in Server \cup {client.homeserver}
      PROVE  Settled(s(url), Free(r))
  <2>1. url \in MaybeServer /\ (client.homeserver # NoServer => url # NoServer)
    BY <1>2, ConstantsAssumption DEF Client, MaybeServer
  <2>2. s(url) \in Client /\ Timer(s(url))
        /\ s(url).loading = client.loading /\ s(url).loaded = client.loaded
        /\ s(url).db_migrated = client.db_migrated
        /\ s(url).homeserver \in {client.homeserver, url}
        /\ s(url).is_sync = client.is_sync
    <3>1. (IF client.login = "logged_in" THEN client.homeserver ELSE url) \in MaybeServer
      BY <1>2, <2>1 DEF Client
    <3> QED
      BY <1>2, <3>1 DEF Client, Timer
  <2> HIDE DEF s
  <2> QED
    BY <1>2, <2>1, <2>2, ChangeSettled
<1>4. \/ \E url \in Server \cup {client.homeserver} : StartSync(s(url), r, TaskOf(op))
      \/ \E error : HandleGlitch(Failed(client), r, error)
  BY DEF LoginDone
<1> HIDE DEF s
<1> QED
  BY <1>2, <1>3, <1>4, FailedSettled, StartSyncKept, GlitchKept

LEMMA GotDirectRoomsKept ==
  ASSUME IInv, NEW r \in Req, GotDirectRooms(r)
  PROVE  Kept
<1>1. request[r].stage = "direct" /\ TypeOK /\ Settled(client, request)
  BY DEF GotDirectRooms, Answers, IInv
<1>2. NewTask(client) \in Task
  BY <1>1, TaskTypes DEF TypeOK
<1>3. \E ok \in BOOLEAN : StartSync(ListDone("direct", ok), r, NewTask(client))
  BY DEF GotDirectRooms
<1>4. \A ok \in BOOLEAN : Settled(ListDone("direct", ok), Free(r))
  BY <1>1, ListDoneSettled DEF Lists
<1> QED
  BY <1>1, <1>2, <1>3, <1>4, StartSyncKept

LEMMA GotJoinedRoomsKept ==
  ASSUME IInv, NEW r \in Req, GotJoinedRooms(r)
  PROVE  Kept
<1> DEFINE s == ListDone("joined", FALSE)
<1>1. request[r].stage = "joined" /\ TypeOK /\ Settled(client, request)
  BY DEF GotJoinedRooms, Answers, IInv
<1>2. NewTask(client) \in Task
  BY <1>1, TaskTypes DEF TypeOK
<1>3. \A ok \in BOOLEAN : Settled(ListDone("joined", ok), Free(r))
  BY <1>1, ListDoneSettled DEF Lists
<1>4. ~s.is_sync
  <2>1. "joined" \in client.loading
    BY <1>1 DEF Settled, Loading, Lists
  <2>2. ~client.is_sync
    BY <1>1, <2>1 DEF Settled, Ready, Loaded
  <2> QED
    BY <1>1, <2>2 DEF ListDone, TypeOK, Client
<1>5. InSync(s, Free(r))
  BY <1>4 DEF InSync
<1>6. \/ StartSync(ListDone("joined", TRUE), r, NewTask(client))
      \/ \E error : HandleGlitch(s, r, error)
  BY DEF GotJoinedRooms
<1>7. CASE StartSync(ListDone("joined", TRUE), r, NewTask(client))
  BY <1>1, <1>2, <1>3, <1>7, StartSyncKept
<1>8. CASE \E error : HandleGlitch(s, r, error)
  <2>1. Settled(s, Free(r))
    BY <1>3
  <2> QED
    BY <1>1, <1>5, <1>8, <2>1, GlitchKept
<1> QED
  BY <1>6, <1>7, <1>8

\* What a request other than the /sync reports does not touch the /sync.
LEMMA InSyncFree ==
  ASSUME IInv, NEW r \in Req, request[r].stage \notin {"sync", "key"}
  PROVE  InSync(client, Free(r))
<1>1. ASSUME NEW x \in Req, request[x].stage \in {"sync", "key"}
      PROVE  Free(r)[x] = request[x]
  BY <1>1 DEF Free, IInv, TypeOK
<1> QED
  BY <1>1 DEF InSync, Syncing, IInv

LEMMA FilterUploadedKept ==
  ASSUME IInv, NEW r \in Req, FilterUploaded(r)
  PROVE  Kept
<1> DEFINE s == [client EXCEPT !.filter_id = TRUE, !.login = "logged_in"]
<1>1. request[r].stage = "filter"
  BY DEF FilterUploaded, Answers
<1>2. /\ TypeOK /\ Settled(client, Free(r)) /\ client \in Client /\ Timer(client)
      /\ NewTask(client) \in Task
  BY <1>1, AnswerFacts, TaskTypes DEF Stages, Lists
<1>3. Settled(s, Free(r))
  <2>1. s \in Client /\ Timer(s) /\ s.loading = client.loading /\ s.loaded = client.loaded
        /\ s.db_migrated = client.db_migrated /\ s.cm_enc = client.cm_enc
        /\ s.homeserver = client.homeserver /\ s.is_sync = client.is_sync
    BY <1>2 DEF Client, Timer
  <2> HIDE DEF s
  <2> QED
    BY <1>2, <2>1, ChangeSettled
<1>4. InSync(client, Free(r))
  BY <1>1, InSyncFree
<1>5. \/ StartSync(s, r, NewTask(client))
      \/ \E error : HandleGlitch(client, r, error)
  BY DEF FilterUploaded
<1> HIDE DEF s
<1> QED
  BY <1>2, <1>3, <1>4, <1>5, StartSyncKept, GlitchKept

LEMMA SyncDoneKept ==
  ASSUME IInv, NEW r \in Req, SyncDone(r)
  PROVE  Kept
<1> DEFINE s == [client EXCEPT !.login = "logged_in", !.is_sync = TRUE, !.sync_failed = FALSE]
<1>1. request[r].stage = "sync"
  BY DEF SyncDone, Answers
<1>2. /\ TypeOK /\ Settled(client, Free(r)) /\ client \in Client /\ Timer(client)
      /\ Loaded(client)
  BY <1>1, AnswerFacts DEF Stages, Lists
<1>3. Settled(s, Free(r)) /\ Loaded(s) /\ NewTask(s) \in Task
  <2>1. s \in Client /\ Timer(s) /\ s.loading = client.loading /\ s.loaded = client.loaded
        /\ s.db_migrated = client.db_migrated /\ s.cm_enc = client.cm_enc
        /\ s.homeserver = client.homeserver
    BY <1>2 DEF Client, Timer
  <2> HIDE DEF s
  <2>2. Settled(s, Free(r))
    BY <1>2, <2>1, ChangeSettled
  <2>3. Loaded(s)
    BY <1>2, <2>1 DEF Loaded
  <2> QED
    BY <2>1, <2>2, <2>3, TaskTypes
<1>4. \/ UploadKeys(s, r) \/ StartSync(s, r, NewTask(s))
      \/ \E error : HandleGlitch(Failed(client), r, error)
  BY DEF SyncDone
<1> HIDE DEF s
<1> QED
  BY <1>2, <1>3, <1>4, FailedSettled, StartSyncKept, UploadKeysKept, GlitchKept

\* The failed upload of keys starts the loop twice: the second time in the slot
\* of the upload itself.
LEMMA KeysUploadedKept ==
  ASSUME IInv, NEW r \in Req, KeysUploaded(r)
  PROVE  Kept
<1> DEFINE op == request[r]
           s == [client EXCEPT !.sync_failed = TRUE]
           reset == ResetState(s)
           first == Advance(reset)
<1>1. op.stage = "key"
  BY DEF KeysUploaded, Answers
<1>2. /\ TypeOK /\ Settled(client, Free(r)) /\ client \in Client /\ Timer(client)
      /\ Loaded(client) /\ NewTask(client) \in Task
  BY <1>1, AnswerFacts, TaskTypes DEF Stages, Lists
<1>3. s \in Client /\ Settled(s, Free(r)) /\ NewTask(s) \in Task
  <2>1. s \in Client /\ Timer(s) /\ s.loading = client.loading /\ s.loaded = client.loaded
        /\ s.db_migrated = client.db_migrated /\ s.cm_enc = client.cm_enc
        /\ s.homeserver = client.homeserver /\ s.is_sync = client.is_sync
    BY <1>2 DEF Client, Timer
  <2> HIDE DEF s
  <2> QED
    BY <1>2, <2>1, ChangeSettled, TaskTypes
<1>4. Settled(RetryLater(s), Free(r)) /\ Settled(reset, Free(r))
  BY <1>3, RetryLaterSettled, ResetSettled
<1>5. ASSUME NEW n \in Req \ {r}, request[n] = Idle, client' = Advance(first),
             request' = [request EXCEPT ![n] = Sent(reset, NewTask(s)),
                                        ![r] = Sent(first, NewTask(s))]
      PROVE  Kept
  <2> DEFINE q == [Free(r) EXCEPT ![n] = Sent(reset, NewTask(s))]
  <2>1. Free(r)[n] = Idle /\ n \in Req
    BY <1>2, <1>5 DEF Free, TypeOK
  <2>2. Settled(first, q)
    BY <1>3, <1>4, <2>1, StartKeeps
  <2>3. q[r] = Idle
    BY <1>2, FreeType
  <2>4. /\ Settled(Advance(first), [q EXCEPT ![r] = Sent(first, NewTask(s))])
        /\ InSync(Advance(first), [q EXCEPT ![r] = Sent(first, NewTask(s))])
    <3> HIDE DEF first, q, s
    <3> QED
      BY <1>3, <2>2, <2>3, StartKeeps
  <2>5. [q EXCEPT ![r] = Sent(first, NewTask(s))] = request'
    <3> HIDE DEF first, reset, s
    <3> QED
      BY <1>2, <1>5 DEF Free, TypeOK
  <2> QED
    BY <1>5, <2>4, <2>5 DEF Kept
<1>6. \/ UploadKeys(client, r) \/ StartSync(client, r, NewTask(client))
      \/ StartSync(RetryLater(s), r, NewTask(s)) \/ StartSync(s, r, NewTask(s))
      \/ \E n \in Req \ {r} :
           /\ request[n] = Idle /\ client' = Advance(first)
           /\ request' = [request EXCEPT ![n] = Sent(reset, NewTask(s)),
                                         ![r] = Sent(first, NewTask(s))]
  BY DEF KeysUploaded
<1> HIDE DEF s, reset, first
<1> QED
  BY <1>2, <1>3, <1>4, <1>5, <1>6, StartSyncKept, UploadKeysKept

-----------------------------------------------------------------------------
(* The timers and the calls.                                               *)

LEMMA ClearTimerSettled ==
  ASSUME NEW s, NEW q, Settled(s, q)
  PROVE  Settled(ClearTimer(s), q)
<1> DEFINE t == ClearTimer(s)
<1>1. s \in Client /\ s.timers = IF s.resync_id THEN 1 ELSE 0
  BY DEF Settled, Typed, Timer
<1>2. t = [s EXCEPT !.timers = 0, !.resync_id = FALSE]
  <2>1. (IF s.resync_id THEN s.timers - 1 ELSE s.timers) = 0
    BY <1>1
  <2> QED
    BY <2>1 DEF ClearTimer
<1> HIDE DEF t
<1>3. t \in Client /\ t.timers = 0 /\ ~t.resync_id
      /\ t.loading = s.loading /\ t.loaded = s.loaded /\ t.db_migrated = s.db_migrated
      /\ t.cm_enc = s.cm_enc /\ t.homeserver = s.homeserver /\ t.is_sync = s.is_sync
  BY <1>1, <1>2 DEF Client
<1>4. Settled(t, q)
  BY <1>3, ChangeSettled DEF Timer
<1> QED
  BY <1>4 DEF t

LEMMA StoppedSettled ==
  ASSUME NEW s, NEW q, Settled(s, q), NEW c \in Cancellable
  PROVE  Settled(Stopped(s, c), q) /\ InSync(Stopped(s, c), q)
<1> DEFINE t == ClearTimer(s)
           u == Stopped(s, c)
<1>1. Settled(t, q)
  BY ClearTimerSettled
<1>2. u = [t EXCEPT !.is_sync = FALSE, !.sync_failed = FALSE,
                    !.login = "out", !.cancellable = c]
  BY DEF Stopped
<1> HIDE DEF t, u
<1>3. u \in Client /\ Timer(u) /\ u.loading = t.loading /\ u.loaded = t.loaded
      /\ u.db_migrated = t.db_migrated /\ u.cm_enc = t.cm_enc
      /\ u.homeserver = t.homeserver /\ ~u.is_sync
  BY <1>1, <1>2 DEF Settled, Typed, Client, Timer
<1>4. Settled(u, q) /\ InSync(u, q)
  BY <1>1, <1>3, ChangeSettled DEF InSync
<1> QED
  BY <1>4 DEF u

LEMMA DoStartKept ==
  ASSUME TypeOK, NEW r \in Req, NEW s, Settled(s, Free(r)), DoStart(s, r)
  PROVE  Kept
<1>1. Settled(ClearTimer(s), Free(r)) /\ s \in Client
  BY ClearTimerSettled DEF Settled, Typed
<1> QED
  BY <1>1, StartSyncKept, TaskTypes DEF DoStart

LEMMA StopSyncKept ==
  ASSUME NEW s, Settled(s, request), StopSync(s), UNCHANGED request
  PROVE  Kept
  BY StoppedSettled DEF StopSync, Kept

\* A call finds the client settled, whichever free slot it uses.
LEMMA CallFacts ==
  ASSUME IInv
  PROVE  /\ TypeOK /\ client \in Client /\ Timer(client) /\ NewTask(client) \in Task
         /\ Settled(client, request) /\ InSync(client, request)
         /\ \A r \in Req : request[r] = Idle => Settled(client, Free(r))
<1>1. TypeOK /\ client \in Client /\ Timer(client) /\ NewTask(client) \in Task
      /\ Settled(client, request) /\ InSync(client, request)
  BY TaskTypes DEF IInv, TypeOK, Settled
<1>2. Idle.stage \notin Lists
  BY DEF Idle, Lists
<1> QED
  BY <1>1, <1>2, FreeSettled

LEMMA ResyncKept ==
  ASSUME IInv, NEW r \in Req, Resync(r)
  PROVE  Kept
<1> DEFINE s == [client EXCEPT !.timers = client.timers - 1, !.resync_id = FALSE]
           t == ArmTimer(s)
<1>1. /\ TypeOK /\ client \in Client /\ Timer(client) /\ Settled(client, Free(r))
      /\ InSync(client, request) /\ client.timers > 0 /\ request[r] = Idle
  BY CallFacts DEF Resync
<1>2. client.timers - 1 = 0
  BY <1>1 DEF Timer
<1>3. s = [client EXCEPT !.timers = 0, !.resync_id = FALSE]
  BY <1>2
<1> HIDE DEF s
<1>4. s \in Client /\ s.timers = 0 /\ ~s.resync_id
      /\ s.loading = client.loading /\ s.loaded = client.loaded
      /\ s.db_migrated = client.db_migrated /\ s.cm_enc = client.cm_enc
      /\ s.homeserver = client.homeserver /\ s.is_sync = client.is_sync
      /\ s.token = client.token /\ s.login = client.login
  BY <1>1, <1>3 DEF Client
<1>5. Settled(s, Free(r)) /\ NewTask(s) \in Task
  BY <1>1, <1>4, ChangeSettled, TaskTypes DEF Timer
<1>6. InSync(client, Free(r))
  BY <1>1, InSyncFree DEF Idle
<1>7. t = [s EXCEPT !.timers = 1, !.resync_id = TRUE]
  <2>1. s.timers + 1 = 1
    BY <1>4
  <2> QED
    BY <2>1 DEF ArmTimer
<1>8. StartSync(s, r, NewTask(s)) \/ Finish(t, r)
  BY DEF Resync, s
<1> HIDE DEF t
<1>9. t \in Client /\ Timer(t)
      /\ t.loading = client.loading /\ t.loaded = client.loaded
      /\ t.db_migrated = client.db_migrated /\ t.cm_enc = client.cm_enc
      /\ t.homeserver = client.homeserver /\ t.is_sync = client.is_sync
      /\ t.token = client.token /\ t.login = client.login
  BY <1>4, <1>7 DEF Client, Timer
<1>10. Settled(t, Free(r)) /\ InSync(t, Free(r))
  BY <1>1, <1>6, <1>9, ChangeSettled DEF InSync
<1> QED
  BY <1>1, <1>5, <1>8, <1>10, StartSyncKept, FinishKept

LEMMA ReconnectKept ==
  ASSUME IInv, NEW r \in Req, Reconnect(r)
  PROVE  Kept
<1>1. CASE DoStart(client, r)
  BY <1>1, CallFacts, DoStartKept DEF DoStart
<1>2. CASE UNCHANGED <<client, request>>
  BY <1>2, CallFacts DEF Kept
<1>3. CASE StopSync(client) /\ UNCHANGED request
  BY <1>3, CallFacts, StopSyncKept
<1>4. DoStart(client, r) \/ UNCHANGED <<client, request>> \/ (StopSync(client) /\ UNCHANGED request)
  BY DEF Reconnect
<1> QED
  BY <1>1, <1>2, <1>3, <1>4

LEMMA CallKept ==
  ASSUME IInv, NEW r \in Req, Call(r)
  PROVE  Kept
<1>1. /\ TypeOK /\ client \in Client /\ Timer(client) /\ NewTask(client) \in Task
      /\ Settled(client, request) /\ InSync(client, request)
      /\ request[r] = Idle => Settled(client, Free(r))
  BY CallFacts
<1>2. CASE Enable(r)
  <2> DEFINE s == [client EXCEPT !.enabled = TRUE]
  <2>1. s \in Client /\ Timer(s) /\ s.loading = client.loading /\ s.loaded = client.loaded
        /\ s.db_migrated = client.db_migrated /\ s.cm_enc = client.cm_enc
        /\ s.homeserver = client.homeserver /\ s.is_sync = client.is_sync
    BY <1>1 DEF Client, Timer
  <2>2. request[r] = Idle /\ StartSync(s, r, NewTask(client))
    BY <1>2 DEF Enable
  <2> HIDE DEF s
  <2> QED
    BY <1>1, <2>1, <2>2, ChangeSettled, StartSyncKept
<1>3. CASE CallStartSync(r)
  BY <1>1, <1>3, DoStartKept DEF CallStartSync, DoStart
<1>4. CASE SetPassword(r)
  <2> DEFINE s(password) == [client EXCEPT !.password = password]
  <2>1. PICK password \in BOOLEAN :
          \/ /\ request[r] = Idle
             /\ \E c \in Cancellable : DoStart(Stopped(s(password), c), r)
          \/ client' = s(password) /\ UNCHANGED request
    BY <1>4 DEF SetPassword, DoStart
  <2> DEFINE t == s(password)
  <2>2. t \in Client /\ Timer(t) /\ t.loading = client.loading /\ t.loaded = client.loaded
        /\ t.db_migrated = client.db_migrated /\ t.cm_enc = client.cm_enc
        /\ t.homeserver = client.homeserver /\ t.is_sync = client.is_sync
        /\ t.token = client.token /\ t.login = client.login
    BY <1>1 DEF Client, Timer
  <2> HIDE DEF t, s
  <2>3. Settled(t, request) /\ InSync(t, request)
    BY <1>1, <2>2, ChangeSettled DEF InSync
  <2>4. ASSUME request[r] = Idle, NEW c \in Cancellable, DoStart(Stopped(t, c), r)
        PROVE  Kept
    <3>1. Settled(t, Free(r))
      BY <1>1, <2>2, <2>4, ChangeSettled
    <3>2. Settled(Stopped(t, c), Free(r))
      BY <3>1, StoppedSettled
    <3> QED
      BY <1>1, <2>4, <3>2, DoStartKept
  <2>5. CASE client' = t /\ UNCHANGED request
    BY <2>3, <2>5 DEF Kept
  <2> QED
    BY <2>1, <2>4, <2>5 DEF t
<1>5. CASE GetHomeserver(r)
  <2>1. [tag |-> "get_homeserver", canc |-> NoCancellable] \in Task
    BY DEF Task, Tags, MaybeCancellable
  <2> QED
    BY <1>1, <1>5, <2>1, StartSyncKept DEF GetHomeserver
<1>6. CASE Disable
  <2> DEFINE s == [client EXCEPT !.enabled = FALSE]
  <2>1. s \in Client /\ Timer(s) /\ s.loading = client.loading /\ s.loaded = client.loaded
        /\ s.db_migrated = client.db_migrated /\ s.cm_enc = client.cm_enc
        /\ s.homeserver = client.homeserver /\ s.is_sync = client.is_sync
    BY <1>1 DEF Client, Timer
  <2>2. StopSync(s) /\ UNCHANGED request
    BY <1>6 DEF Disable
  <2> HIDE DEF s
  <2> QED
    BY <1>1, <2>1, <2>2, ChangeSettled, StopSyncKept
<1>7. CASE CallStopSync
  BY <1>1, <1>7, StopSyncKept DEF CallStopSync
<1>8. CASE SetAccessToken \/ SetHomeserver
  <2>1. /\ UNCHANGED request
        /\ client.login = "out"
        /\ \/ \E token \in BOOLEAN : client' = [client EXCEPT !.token = token]
           \/ \E url \in Server : client' = [client EXCEPT !.homeserver = url]
    BY <1>8 DEF SetAccessToken, SetHomeserver, Settable
  <2>2. client' \in Client /\ Timer(client')
        /\ client'.loading = client.loading /\ client'.loaded = client.loaded
        /\ client'.db_migrated = client.db_migrated /\ client'.cm_enc = client.cm_enc
        /\ (client.homeserver # NoServer => client'.homeserver # NoServer)
        /\ client'.is_sync = client.is_sync /\ client'.login = "out"
    BY <1>1, <2>1, ConstantsAssumption DEF Client, Timer, MaybeServer
  <2> QED
    BY <1>1, <2>1, <2>2, ChangeSettled DEF Kept, InSync
<1>9. CASE NetworkChanged
  BY <1>1, <1>9 DEF NetworkChanged, Kept
<1> QED
  BY <1>2, <1>3, <1>4, <1>5, <1>6, <1>7, <1>8, <1>9 DEF Call

-----------------------------------------------------------------------------
(* The invariant of the specification, and what follows from it.           *)

LEMMA InitIInv == Init => IInv
<1> SUFFICES ASSUME Init PROVE IInv
  OBVIOUS
<1>1. Idle \in Op
  BY DEF Idle, Op, Tags, MaybeServer, MaybeCancellable
<1>2. client \in Client /\ client.timers = 0 /\ ~client.resync_id
      /\ client.loading = {} /\ client.loaded = {} /\ ~client.cm_enc
      /\ ~client.is_sync
  <2>1. client \in FreshClients
    BY DEF Init
  <2>2. client.timers = 0 /\ client.loading = {} /\ client.loaded = {}
    BY <2>1 DEF FreshClients
  <2>3. client.resync_id = FALSE /\ client.cm_enc = FALSE /\ client.is_sync = FALSE
    BY <2>1 DEF FreshClients
  <2>4. /\ {{}} \subseteq SUBSET Lists /\ {NoServer} \subseteq MaybeServer
        /\ {FALSE} \subseteq BOOLEAN /\ {0} \subseteq Nat
        /\ {"out"} \subseteq {"out", "logging_in", "logged_in"}
    BY DEF MaybeServer
  <2>5. client \in Client
    BY <2>1, <2>4 DEF FreshClients, Client
  <2> QED
    BY <2>2, <2>3, <2>5
<1>3. request \in [Req -> Op] /\ \A r \in Req : request[r].stage = "idle"
  <2>1. request = [r \in Req |-> Idle]
    BY DEF Init
  <2>2. Idle.stage = "idle"
    BY DEF Idle
  <2> QED
    BY <1>1, <2>1, <2>2
<1>4. TypeOK
  BY <1>2, <1>3 DEF Init, TypeOK
<1>5. Loading(client, request) /\ DbFirst(client, request) /\ Timer(client)
  BY <1>2, <1>3 DEF Loading, DbFirst, Timer, Lists
<1>6. Ready(client, request) /\ InSync(client, request)
  BY <1>2, <1>3 DEF Ready, Syncing, InSync
<1> QED
  BY <1>2, <1>3, <1>4, <1>5, <1>6 DEF IInv, Settled, Typed

\* What the steps do to the variables besides the client and its requests.
LEMMA NextTypes ==
  ASSUME TypeOK, Next
  PROVE  cancelled' \subseteq Cancellable /\ online' \in BOOLEAN /\ reconnect' \in BOOLEAN
<1>1. PICK r \in Req : Answer(r) \/ Resync(r) \/ Reconnect(r) \/ Call(r)
  BY DEF Next
<1>2. cancelled \subseteq Cancellable /\ online \in BOOLEAN /\ reconnect \in BOOLEAN
      /\ client.cancellable \in Cancellable /\ request[r].canc \in MaybeCancellable
  BY DEF TypeOK, Client, Op
<1>3. \A c \in Cancellable : CancelToo(c) \subseteq Cancellable
  BY <1>2 DEF CancelToo
<1>4. request[r].canc # NoCancellable => request[r].canc \in Cancellable
  BY <1>2 DEF MaybeCancellable
<1>5. \A s : s.cancellable \in Cancellable /\ StopSync(s) => cancelled' \subseteq Cancellable
  BY <1>3 DEF StopSync
<1>6. CASE Answer(r)
  <2>1. online' = online /\ reconnect' = reconnect
    BY <1>6 DEF Answer, DbLoaded, GotHomeserver, HomeserverVerified, LoginDone,
                GotDirectRooms, GotJoinedRooms, FilterUploaded, SyncDone, KeysUploaded
  <2>2. \/ cancelled' = cancelled
        \/ request[r].canc # NoCancellable /\ cancelled' = CancelToo(request[r].canc)
    BY <1>6 DEF Answer, DbLoaded, GotHomeserver, HomeserverVerified, LoginDone,
                GotDirectRooms, GotJoinedRooms, FilterUploaded, SyncDone, KeysUploaded
  <2> QED
    BY <1>2, <1>3, <1>4, <2>1, <2>2
<1>7. CASE Resync(r) \/ Enable(r) \/ CallStartSync(r) \/ GetHomeserver(r)
           \/ SetAccessToken \/ SetHomeserver \/ NetworkChanged
  BY <1>2, <1>7 DEF Resync, Enable, CallStartSync, GetHomeserver, SetAccessToken,
                    SetHomeserver, NetworkChanged
<1>8. CASE Reconnect(r)
  BY <1>2, <1>5, <1>8 DEF Reconnect
<1>9. CASE CallStopSync
  BY <1>2, <1>5, <1>9 DEF CallStopSync
<1>10. CASE Disable
  <2>1. [client EXCEPT !.enabled = FALSE].cancellable = client.cancellable
    BY DEF TypeOK, Client
  <2> QED
    BY <1>2, <1>5, <1>10, <2>1 DEF Disable
<1>11. CASE SetPassword(r)
  BY <1>2, <1>3, <1>11 DEF SetPassword
<1> QED
  BY <1>1, <1>6, <1>7, <1>8, <1>9, <1>10, <1>11 DEF Call

LEMMA NextIInv == IInv /\ [Next]_vars => IInv'
<1> SUFFICES ASSUME IInv, [Next]_vars PROVE IInv'
  OBVIOUS
<1>1. ASSUME Next PROVE Kept
  <2>1. PICK r \in Req : Answer(r) \/ Resync(r) \/ Reconnect(r) \/ Call(r)
    BY <1>1 DEF Next
  <2>2. CASE Answer(r)
    BY <2>2, DbLoadedKept, GotHomeserverKept, HomeserverVerifiedKept, LoginDoneKept,
       GotDirectRoomsKept, GotJoinedRoomsKept, FilterUploadedKept, SyncDoneKept,
       KeysUploadedKept DEF Answer
  <2> QED
    BY <2>1, <2>2, ResyncKept, ReconnectKept, CallKept
<1>2. CASE Next
  <2>1. Settled(client', request') /\ InSync(client', request')
    BY <1>1, <1>2 DEF Kept
  <2>2. TypeOK'
    BY <1>2, <2>1, NextTypes DEF IInv, TypeOK, Settled, Typed
  <2> QED
    BY <2>1, <2>2 DEF IInv, Settled, Typed, Loading, DbFirst, Timer, Ready, InSync,
                      Syncing, Loaded
<1>3. CASE UNCHANGED vars
  BY <1>3 DEF vars, IInv, TypeOK, Settled, Typed, Loading, DbFirst, Timer, Ready, InSync,
              Syncing, Loaded
<1> QED
  BY <1>2, <1>3

THEOREM Invariance == Spec => []IInv
  BY InitIInv, NextIInv, PTL DEF Spec

\* Every variable keeps its type, whatever calls, answers and failures happen.
THEOREM TypeCorrect == Spec => []TypeOK
<1>1. IInv => TypeOK
  BY DEF IInv
<1> QED
  BY <1>1, Invariance, PTL

\* The flags db_loading, direct_room_list_loading and room_list_loading each
\* stand for exactly one request: the dispatcher is never blocked for ever, and
\* never fetches a list twice at once.
THEOREM LoadingCorrect == Spec => []LoadingMatchesRequests
<1>1. IInv => LoadingMatchesRequests
  <2> SUFFICES ASSUME IInv PROVE LoadingMatchesRequests
    OBVIOUS
  <2>1. Loading(client, request)
    BY DEF IInv, Settled
  <2> QED
    BY <2>1 DEF LoadingMatchesRequests, Loading, InFlight
<1> QED
  BY <1>1, Invariance, PTL

\* g_assert (!self->cm_enc) in db_load_client_cb() holds whenever it is reached.
THEOREM DbLoadCorrect == Spec => []DbLoadsOnce
<1>1. IInv => DbLoadsOnce
  <2> SUFFICES ASSUME IInv, NEW r \in Req, request[r].stage = "db"
               PROVE  ~client.cm_enc /\ "db" \notin client.loaded
    BY DEF DbLoadsOnce, InFlight
  <2>1. "db" \in client.loading
    BY DEF IInv, Settled, Loading, Lists
  <2> QED
    BY <2>1 DEF IInv, Settled, DbFirst
<1> QED
  BY <1>1, Invariance, PTL

\* resync_id names the one retry timer there is.
THEOREM TimerCorrect == Spec => []NoOrphanTimer
<1>1. IInv => NoOrphanTimer
  BY DEF IInv, Settled, Timer, NoOrphanTimer
<1> QED
  BY <1>1, Invariance, PTL

\* A client reported to be in sync has a /sync, or the key upload before it,
\* under way.
THEOREM InSyncCorrect == Spec => []InSyncMeansSyncing
<1>1. IInv => InSyncMeansSyncing
  BY DEF IInv, InSync, Syncing, InSyncMeansSyncing, cm_client_is_sync, InFlight
<1> QED
  BY <1>1, Invariance, PTL

-----------------------------------------------------------------------------
(* A cancelled loop ends.                                                  *)

\* The requests for the room lists are sent with no cancellable, so nothing
\* cancels them: their callbacks go on whether or not they failed.
Lasting(op) == op.stage \in {"direct", "joined"} => op.canc = NoCancellable
AllLasting(q) == \A r \in Req : Lasting(q[r])

\* A step that sends or frees request r and no other.
Sends(r) == \E op : Lasting(op) /\ request' = [request EXCEPT ![r] = op]

\* Whatever the dispatcher sends is such a request.
LEMMA SentLasting ==
  ASSUME NEW s, NEW task
  PROVE  Lasting(Sent(s, task))
  BY DEF Lasting, Sent, Idle, Aborted, Stages, Lists

LEMMA StartSyncSends ==
  ASSUME NEW r, NEW s, NEW task, StartSync(s, r, task)
  PROVE  Sends(r)
<1>1. Lasting(Sent(s, task)) /\ request' = [request EXCEPT ![r] = Sent(s, task)]
  BY SentLasting DEF StartSync
<1> QED
  BY <1>1 DEF Sends

LEMMA FinishSends ==
  ASSUME NEW r, NEW s, Finish(s, r)
  PROVE  Sends(r)
<1>1. Lasting(Idle)
  BY DEF Lasting, Idle
<1> QED
  BY <1>1 DEF Sends, Finish

LEMMA UploadKeysSends ==
  ASSUME NEW r, NEW s, UploadKeys(s, r)
  PROVE  Sends(r)
<1>1. Lasting(KeyUpload(s))
  BY DEF Lasting, KeyUpload
<1> QED
  BY <1>1 DEF Sends, UploadKeys

LEMMA GlitchSends ==
  ASSUME NEW r, NEW s, NEW error, HandleGlitch(s, r, error)
  PROVE  Sends(r)
  BY StartSyncSends, FinishSends DEF HandleGlitch

\* upload_key_cb() may send a second request, with an identity that is free.
SendsTwo(r) ==
  \E n, op, also :
    /\ n \in Req \ {r}
    /\ request[n] = Idle /\ Lasting(op) /\ Lasting(also)
    /\ request' = [request EXCEPT ![n] = also, ![r] = op]

LEMMA KeysUploadedSends ==
  ASSUME NEW r \in Req, KeysUploaded(r)
  PROVE  Sends(r) \/ SendsTwo(r)
<1> DEFINE s == [client EXCEPT !.sync_failed = TRUE]
           first == Advance(ResetState(s))
<1>1. \/ UploadKeys(client, r) \/ StartSync(client, r, NewTask(client))
      \/ \E error : StartSync(IF error = "net" THEN RetryLater(s) ELSE s, r, NewTask(s))
      \/ StartSync(s, r, NewTask(s))
      \/ \E n \in Req \ {r} :
           /\ request[n] = Idle
           /\ request' = [request EXCEPT ![n] = Sent(ResetState(s), NewTask(s)),
                                         ![r] = Sent(first, NewTask(s))]
  BY DEF KeysUploaded
<1> HIDE DEF s, first
<1>2. Lasting(Sent(ResetState(s), NewTask(s))) /\ Lasting(Sent(first, NewTask(s)))
  BY SentLasting
<1> QED
  BY <1>1, <1>2, UploadKeysSends, StartSyncSends DEF SendsTwo

LEMMA DbLoadedSends ==
  ASSUME NEW r \in Req, DbLoaded(r)
  PROVE  Sends(r)
<1> DEFINE s == ListDone("db", TRUE)
           t(enc, filter) == [s EXCEPT !.cm_enc = enc, !.pickle_key = enc,
                                       !.filter_id = filter, !.db_migrated = Migrated]
<1>1. \/ StartSync(s, r, TaskOf(request[r]))
      \/ \E has_pickle, filter \in BOOLEAN :
           StartSync(t(has_pickle /\ client.pickle_key, filter), r, TaskOf(request[r]))
  BY DEF DbLoaded
<1> HIDE DEF s, t
<1> QED
  BY <1>1, StartSyncSends

LEMMA GotHomeserverSends ==
  ASSUME NEW r \in Req, GotHomeserver(r)
  PROVE  Sends(r)
<1> DEFINE s == [client EXCEPT !.login = "out"]
           failed == [s EXCEPT !.sync_failed = TRUE]
           found(url) == [s EXCEPT !.homeserver = url]
<1>1. \/ \E url \in Server : StartSync(found(url), r, TaskOf(request[r]))
      \/ StartSync(s, r, TaskOf(request[r]))
      \/ Finish(failed, r)
      \/ \E error : HandleGlitch(failed, r, error)
  BY DEF GotHomeserver
<1> HIDE DEF s, failed, found
<1> QED
  BY <1>1, StartSyncSends, FinishSends, GlitchSends

LEMMA HomeserverVerifiedSends ==
  ASSUME NEW r \in Req, HomeserverVerified(r)
  PROVE  Sends(r)
<1> DEFINE s == [client EXCEPT !.login = "out", !.tried = TRUE]
           failed(c) == [s EXCEPT !.versions = NoServer, !.sync_failed = TRUE,
                                  !.cancellable = c]
           verified == [s EXCEPT !.versions = request[r].server]
<1>1. \/ Finish(verified, r) \/ StartSync(verified, r, TaskOf(request[r]))
      \/ \E c : Finish(failed(c), r)
      \/ \E c, error : HandleGlitch(failed(c), r, error)
  BY DEF HomeserverVerified
<1> HIDE DEF failed, verified
<1> QED
  BY <1>1, StartSyncSends, FinishSends, GlitchSends

LEMMA LoginDoneSends ==
  ASSUME NEW r \in Req, LoginDone(r)
  PROVE  Sends(r)
<1> DEFINE s(url) == [client EXCEPT !.user_id = TRUE, !.token = TRUE, !.cm_enc = TRUE,
                        !.homeserver = IF client.login = "logged_in" THEN client.homeserver
                                       ELSE url,
                        !.login = "logged_in"]
<1>1. \/ \E url \in Server \cup {client.homeserver} :
           StartSync(s(url), r, TaskOf(request[r]))
      \/ \E error : HandleGlitch(Failed(client), r, error)
  BY DEF LoginDone
<1> HIDE DEF s
<1> QED
  BY <1>1, StartSyncSends, GlitchSends

\* Every callback sends or frees its own request.
LEMMA AnswerSends ==
  ASSUME NEW r \in Req, Answer(r)
  PROVE  Sends(r) \/ SendsTwo(r)
<1>1. CASE DbLoaded(r) \/ GotHomeserver(r) \/ HomeserverVerified(r) \/ LoginDone(r)
  BY <1>1, DbLoadedSends, GotHomeserverSends, HomeserverVerifiedSends, LoginDoneSends
<1>2. CASE GotDirectRooms(r)
  BY <1>2, StartSyncSends DEF GotDirectRooms
<1>3. CASE GotJoinedRooms(r)
  BY <1>3, StartSyncSends, GlitchSends DEF GotJoinedRooms
<1>4. CASE FilterUploaded(r)
  BY <1>4, StartSyncSends, GlitchSends DEF FilterUploaded
<1>5. CASE SyncDone(r)
  BY <1>5, StartSyncSends, UploadKeysSends, GlitchSends DEF SyncDone
<1>6. CASE KeysUploaded(r)
  BY <1>6, KeysUploadedSends
<1> QED
  BY <1>1, <1>2, <1>3, <1>4, <1>5, <1>6 DEF Answer

\* A timer or call uses an identity that is free, or sends nothing.
LEMMA CallSends ==
  ASSUME NEW r \in Req, Resync(r) \/ Reconnect(r) \/ Call(r)
  PROVE  UNCHANGED request \/ (request[r] = Idle /\ Sends(r))
<1>1. ASSUME NEW s, DoStart(s, r) PROVE request[r] = Idle /\ Sends(r)
  BY <1>1, StartSyncSends DEF DoStart
<1>2. CASE Resync(r)
  <2>1. request[r] = Idle /\ ((\E s, task : StartSync(s, r, task)) \/ \E s : Finish(s, r))
    BY <1>2 DEF Resync
  <2> QED
    BY <2>1, StartSyncSends, FinishSends
<1>3. CASE Reconnect(r) \/ CallStartSync(r)
  BY <1>1, <1>3 DEF Reconnect, CallStartSync
<1>4. CASE Enable(r) \/ GetHomeserver(r)
  BY <1>4, StartSyncSends DEF Enable, GetHomeserver
<1>5. CASE SetPassword(r)
  <2>1. (\E s : DoStart(s, r)) \/ UNCHANGED request
    BY <1>5 DEF SetPassword
  <2> QED
    BY <1>1, <2>1
<1>6. CASE Disable \/ CallStopSync \/ SetAccessToken \/ SetHomeserver \/ NetworkChanged
  BY <1>6 DEF Disable, CallStopSync, SetAccessToken, SetHomeserver, NetworkChanged
<1> QED
  BY <1>2, <1>3, <1>4, <1>5, <1>6 DEF Call

\* A failure that is a cancellation ends the request, and arms no timer.
LEMMA CancelledGlitch ==
  ASSUME NEW r \in Req, NEW s, HandleGlitch(s, r, "cancelled")
  PROVE  Finish(s, r)
  BY DEF HandleGlitch

\* The callback of a cancelled request ends it.
LEMMA CancelledAnswer ==
  ASSUME IInv, AllLasting(request), NEW r \in Req, Answer(r),
         request[r].stage \in EndsWhenCancelled, request[r].canc \in cancelled
  PROVE  \E s : Finish(s, r) /\ s.timers = client.timers
<1> DEFINE op == request[r]
<1>1. client \in Client /\ ~Succeeds(op) /\ Errors(op) = {"cancelled"}
  BY DEF IInv, TypeOK, Succeeds, Errors
<1>2. op.stage \notin {"direct", "joined"}
  BY ConstantsAssumption DEF AllLasting, Lasting, IInv, TypeOK
<1> HIDE DEF op
<1>3. CASE GotHomeserver(r)
  <2> DEFINE s == [client EXCEPT !.login = "out"]
             failed == [s EXCEPT !.sync_failed = TRUE]
  <2>1. \/ Succeeds(op)
        \/ \E error \in Errors(op) :
             error = "bad_url" \/ Finish(failed, r) \/ HandleGlitch(failed, r, error)
    BY <1>3 DEF GotHomeserver, op
  <2>2. failed.timers = client.timers
    BY <1>1 DEF Client
  <2> HIDE DEF failed
  <2> QED
    BY <1>1, <2>1, <2>2, CancelledGlitch
<1>4. CASE HomeserverVerified(r)
  <2> DEFINE s == [client EXCEPT !.login = "out", !.tried = TRUE]
             failed == [s EXCEPT !.versions = NoServer, !.sync_failed = TRUE,
                                 !.cancellable = client.cancellable]
  <2>1. Finish(failed, r) \/ HandleGlitch(failed, r, "cancelled")
    BY <1>1, <1>4 DEF HomeserverVerified, op
  <2>2. failed.timers = client.timers
    BY <1>1 DEF Client
  <2> HIDE DEF failed
  <2> QED
    BY <2>1, <2>2, CancelledGlitch
<1>5. CASE LoginDone(r) \/ SyncDone(r)
  <2>1. HandleGlitch(Failed(client), r, "cancelled")
    <3>1. CASE LoginDone(r)
      <4>1. Succeeds(op) \/ \E error \in Errors(op) : HandleGlitch(Failed(client), r, error)
        BY <3>1 DEF LoginDone, op
      <4> QED
        BY <1>1, <4>1
    <3>2. CASE SyncDone(r)
      BY <1>1, <3>2 DEF SyncDone, op
    <3> QED
      BY <1>5, <3>1, <3>2
  <2>2. Failed(client).timers = client.timers
    BY <1>1 DEF Client, Failed
  <2> QED
    BY <2>1, <2>2, CancelledGlitch
<1>6. CASE FilterUploaded(r)
  BY <1>1, <1>6, CancelledGlitch DEF FilterUploaded, op
<1>7. CASE DbLoaded(r) \/ GotDirectRooms(r) \/ GotJoinedRooms(r) \/ KeysUploaded(r)
  <2>1. op.stage \in {"db", "direct", "joined", "key"}
    <3>1. CASE Answers(r, "db") \/ Answers(r, "direct")
      BY <3>1 DEF Answers, op
    <3>2. (DbLoaded(r) => Answers(r, "db")) /\ (GotDirectRooms(r) => Answers(r, "direct"))
      BY DEF DbLoaded, GotDirectRooms
    <3>3. CASE GotJoinedRooms(r) \/ KeysUploaded(r)
      BY <3>3 DEF GotJoinedRooms, KeysUploaded, Answers, op
    <3> QED
      BY <1>7, <3>1, <3>2, <3>3
  <2> QED
    BY <1>2, <2>1 DEF EndsWhenCancelled, Stages, Lists, op
<1> QED
  BY <1>3, <1>4, <1>5, <1>6, <1>7 DEF Answer

\* Each step keeps what this needs.
LEMMA StaysLasting ==
  ASSUME IInv, AllLasting(request), [Next]_vars
  PROVE  AllLasting(request')
<1>1. request \in [Req -> Op]
  BY DEF IInv, TypeOK
<1>2. CASE Next
  <2>1. PICK r \in Req : Answer(r) \/ Resync(r) \/ Reconnect(r) \/ Call(r)
    BY <1>2 DEF Next
  <2>2. UNCHANGED request \/ Sends(r) \/ SendsTwo(r)
    BY <2>1, AnswerSends, CallSends
  <2>3. CASE UNCHANGED request
    BY <2>3
  <2>4. CASE Sends(r)
    <3>1. PICK op : Lasting(op) /\ request' = [request EXCEPT ![r] = op]
      BY <2>4 DEF Sends
    <3>2. \A x \in Req : request'[x] = IF x = r THEN op ELSE request[x]
      BY <1>1, <3>1
    <3> QED
      BY <3>1, <3>2 DEF AllLasting
  <2>5. CASE SendsTwo(r)
    <3>1. PICK n, op, also :
            /\ n \in Req \ {r}
            /\ Lasting(op) /\ Lasting(also)
            /\ request' = [request EXCEPT ![n] = also, ![r] = op]
      BY <2>5 DEF SendsTwo
    <3>2. \A x \in Req :
            request'[x] = IF x = r THEN op ELSE IF x = n THEN also ELSE request[x]
      BY <1>1, <3>1
    <3> QED
      BY <3>1, <3>2 DEF AllLasting
  <2> QED
    BY <2>2, <2>3, <2>4, <2>5
<1>3. CASE UNCHANGED vars
  BY <1>3 DEF vars
<1> QED
  BY <1>2, <1>3

\* A request in flight is changed by its own callback alone.
LEMMA ChangedByAnswer ==
  ASSUME IInv, Next, NEW r \in Req, request[r] # Idle, request'[r] # request[r]
  PROVE  Answer(r)
<1>1. request \in [Req -> Op]
  BY DEF IInv, TypeOK
<1>2. PICK x \in Req : Answer(x) \/ Resync(x) \/ Reconnect(x) \/ Call(x)
  BY DEF Next
<1>3. CASE Answer(x)
  <2>1. \A y \in Req \ {x} : request'[y] # request[y] => request[y] = Idle
    BY <1>1, <1>3, AnswerSends DEF Sends, SendsTwo
  <2> QED
    BY <1>3, <2>1
<1>4. CASE UNCHANGED request \/ (request[x] = Idle /\ Sends(x))
  BY <1>1, <1>4 DEF Sends
<1> QED
  BY <1>2, <1>3, <1>4, CallSends

\* After cm_client_stop_sync() nothing of the cancelled loop goes on: whatever
\* the answer to one of its requests is, it sends no other and arms no timer.
THEOREM CancelledLoopCorrect == Spec => CancelledLoopEnds
<1> DEFINE Inv == IInv /\ AllLasting(request)
<1>1. Init => Inv
  BY InitIInv DEF Init, AllLasting, Lasting, Idle
<1>2. Inv /\ [Next]_vars => Inv'
  BY NextIInv, StaysLasting DEF AllLasting
<1>3. Inv /\ [Next]_vars =>
        [\A r \in InFlight(EndsWhenCancelled) :
           request[r].canc \in cancelled /\ request'[r] # request[r]
             => request'[r] = Idle /\ client'.timers <= client.timers]_vars
  <2> SUFFICES ASSUME Inv, Next, NEW r \in Req, request[r].stage \in EndsWhenCancelled,
                      request[r].canc \in cancelled, request'[r] # request[r]
               PROVE  request'[r] = Idle /\ client'.timers <= client.timers
    BY DEF InFlight
  <2>1. request \in [Req -> Op] /\ client.timers \in Nat
    BY DEF IInv, TypeOK, Client
  <2>2. request[r] # Idle
    BY DEF Idle, EndsWhenCancelled, Stages, Lists
  <2>3. PICK s : Finish(s, r) /\ s.timers = client.timers
    BY <2>2, ChangedByAnswer, CancelledAnswer
  <2> QED
    BY <2>1, <2>3 DEF Finish
<1> QED
  BY <1>1, <1>2, <1>3, PTL DEF Spec, CancelledLoopEnds

===============================================================================
