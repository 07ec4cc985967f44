------------------------------ MODULE TimelineTypes ------------------------------
(***************************************************************************)
(* The events of a room: what is true of the variables in every state, for *)
(* any history, page size, number of messages and number of starts, and    *)
(* whatever the switches of the model are (TypeInv).  The operators of the *)
(* list and of the tables have their lemmas here, as the recursive         *)
(* functions among them are unfolded for what they return.                 *)
(***************************************************************************)
EXTENDS Timeline, FiniteSetTheorems, SequenceTheorems, WellFoundedInduction, TLAPS

\* The events of the model, none of which replaces another one
Plain == {e \in Event : e.replaces = NULL}

Txns(h) == {h[i].txn : i \in DOMAIN h} \ {NULL}

Tokens(h) == 0 .. Len(h) \cup {NULL}

\* Every event has its place for an ID, and a message of ours is there once.
IsHistory(h) ==
  /\ h \in Seq(Plain) /\ Len(h) <= MaxEvents
  /\ \A i \in DOMAIN h : h[i].uid = i /\ (h[i].txn # NULL => h[i].message)
  /\ \A i, j \in DOMAIN h : h[i].txn = h[j].txn /\ h[i].txn # NULL => i = j

-----------------------------------------------------------------------------
(* The tasks.                                                              *)

Echoes(txns) == {<<Echo(x)>> : x \in txns}

SavingTask(h) ==
  [op : {"save_client"}, batch : 0 .. Len(h), then : {"saved"}]
    \cup [op : {"save_room"}, prev : Tokens(h), then : {"nothing"}]
AddingTask(h) ==
  [op : {"add_events"}, events : Seq(Plain), prepend : {FALSE}, then : {"next sync"}]
    \cup [op : {"add_events"}, events : Seq(Plain), prepend : {TRUE}, then : {"loaded"}]
    \cup [op : {"add_events"}, events : Echoes(Txn), prepend : {FALSE}, then : {"send"}]
    \cup [op : {"add_events"}, events : Echoes(Txn \cap Txns(h)), prepend : {FALSE},
          then : {"set id"}]
Task(h) ==
  SavingTask(h) \cup AddingTask(h) \cup [op : {"get_past"}, from : Uid \cup {NULL}, then : {"past"}]

Thens(q) == {q[i].then : i \in DOMAIN q}
DoneThens(dn) == {dn[i].task.then : i \in DOMAIN dn}

\* There is one task for each thing that follows one, if anything does.
Alone(q, dn) ==
  /\ \A i, j \in DOMAIN q : q[i].then = q[j].then /\ q[i].then # "nothing" => i = j
  /\ \A i, j \in DOMAIN dn : dn[i].task.then = dn[j].task.then => i = j
  /\ Thens(q) \cap DoneThens(dn) = {} /\ "nothing" \notin DoneThens(dn)

IsQueue(q, h) == q \in Seq(Task(h))
IsDone(dn, h) ==
  /\ dn \in Seq(Range(dn))
  /\ \A i \in DOMAIN dn : /\ dn[i].task \in Task(h)
                          /\ dn[i].task.then = "past" => dn[i].result \in Seq(Plain)

-----------------------------------------------------------------------------
(* The tables.                                                             *)

\* Every row has a place of its own.
IsRows(rows) ==
  /\ IsFiniteSet(rows)
  /\ \A row \in rows : row.sorted_id \in Int /\ row.event \in Plain
  /\ \A a, b \in rows : a.sorted_id = b.sorted_id => a = b

Shape(d) ==
  /\ DOMAIN d = DOMAIN NoTables
  /\ room \in DOMAIN d.events /\ room \in DOMAIN d.cache
  /\ room \in DOMAIN d.prev_batch /\ room \in DOMAIN d.state

IsTables(d, h) ==
  /\ Shape(d) /\ d.account /\ d.cache[room] = {}
  /\ d.next_batch \in Tokens(h) /\ d.prev_batch[room] \in Tokens(h)
  /\ IsRows(d.events[room])

-----------------------------------------------------------------------------

IsClient(c, h) ==
  c \in [since : 0 .. Len(h), sync : {"listing", "waiting", "storing"},
         saving : {"no", "saving", "pending"}, starts : Nat, empty : Nat]

IsShown(s, h) ==
  /\ s \in [list : Seq(Plain), prev_batch : Tokens(h), synced : BOOLEAN, joined : BOOLEAN,
            loading : {"no", "listed", "state", "db", "server", "storing"}, from : Tokens(h)]
  /\ s.loading = "server" => s.from # NULL

\* The flags are set as long as there is a task.
Flags(c, s, q, dn) ==
  LET thens == Thens(q) \cup DoneThens(dn)
  IN  /\ c.saving # "no" <=> "saved" \in thens
      /\ c.sync = "storing" <=> "next sync" \in thens
      /\ s.loading = "db" <=> "past" \in thens
      /\ s.loading = "storing" <=> "loaded" \in thens

Under == {"storing", "sending", "accepted", "restoring"}

\* One message is under way, in the state its task is for, and the server has it
\* once it has accepted it.
Sending(m, h, q, dn) ==
  /\ m \in [Txn -> MessageStates]
  /\ \A x, y \in Txn : m[x] \in Under /\ m[y] \in Under => x = y
  /\ \A x \in Txn : /\ m[x] \in {"accepted", "restoring"} => x \in Txns(h)
                    /\ x \in Txns(h) => m[x] \in {"accepted", "restoring", "sent", "failed"}
  /\ \A i \in DOMAIN q : /\ q[i].then = "send" => m[q[i].events[1].txn] = "storing"
                         /\ q[i].then = "set id" => m[q[i].events[1].txn] = "restoring"
  /\ \A i \in DOMAIN dn : LET t == dn[i].task
                          IN  /\ t.then = "send" => m[t.events[1].txn] = "storing"
                              /\ t.then = "set id" => m[t.events[1].txn] = "restoring"

TypeInv ==
  /\ IsHistory(history) /\ IsClient(client, history) /\ IsShown(shown, history)
  /\ IsQueue(queue, history) /\ IsDone(done, history) /\ Alone(queue, done)
  /\ IsTables(db, history)
  /\ Flags(client, shown, queue, done) /\ Sending(message, history, queue, done)

-----------------------------------------------------------------------------
(* Sets of numbers, and induction: T is the set of those of which something *)
(* is true, so that no operator is a parameter.                             *)

\* A set of numbers that is not empty has a least one.
LEMMA LeastOf ==
  ASSUME NEW T \in SUBSET Nat, T # {}
  PROVE  \E x \in T : \A y \in T : x <= y
<1> DEFINE R == {p \in Nat \X Nat : p[1] < p[2]}
<1>1. IsWellFoundedOn(R, Nat)
  BY NatLessThanWellFounded DEF OpToRel
<1>2. \E x \in T : \A y \in T : <<y, x>> \notin R
  <2> HIDE DEF R
  <2> QED BY <1>1, WFMin
<1>3. PICK x \in T : \A y \in T : <<y, x>> \notin R
  BY <1>2
<1>4. \A y \in T : ~ (y < x)
  BY <1>3
<1> QED BY <1>4

\* Induction: T is the set of the numbers of which something is true.
LEMMA Induction ==
  ASSUME NEW T, 0 \in T, \A n \in Nat : n \in T => n + 1 \in T
  PROVE  \A n \in Nat : n \in T
<1> SUFFICES ASSUME Nat \ T # {} PROVE FALSE
  OBVIOUS
<1>1. PICK x \in Nat \ T : \A y \in Nat \ T : x <= y
  BY LeastOf
<1>2. x # 0 /\ x - 1 \in Nat
  BY <1>1
<1>3. x - 1 \in T
  BY <1>1, <1>2
<1>4. x \in T
  BY <1>2, <1>3
<1> QED BY <1>1, <1>4

\* A set of numbers up to n that is not empty has a greatest one, and Max finds it.
LEMMA MaxOf ==
  ASSUME NEW n \in Nat, NEW T \in SUBSET (0..n), T # {}
  PROVE  Max(T) \in T
<1> DEFINE U == {u \in Nat : \A y \in T : y <= u}
<1>1. n \in U
  OBVIOUS
<1>2. PICK u \in U : \A v \in U : u <= v
  <2> HIDE DEF U
  <2>1. U \in SUBSET Nat
    BY DEF U
  <2> QED BY <1>1, <2>1, LeastOf
<1>3. u \in T
  <2> SUFFICES ASSUME u \notin T PROVE FALSE
    OBVIOUS
  <2>1. PICK y \in T : TRUE
    OBVIOUS
  <2>2. u # 0
    BY <1>2, <2>1
  <2>3. u - 1 \in U
    BY <1>2, <2>2
  <2> QED BY <1>2, <2>3
<1>4. \E x \in T : \A y \in T : x >= y
  BY <1>2, <1>3
<1> QED BY <1>4 DEF Max

-----------------------------------------------------------------------------
(* Sequences that grow and shrink at their ends.                           *)

\* A sequence with one more element behind all others.
LEMMA PutLast ==
  ASSUME NEW S, NEW q \in Seq(S), NEW x \in S
  PROVE  LET r == Append(q, x)
         IN  /\ r \in Seq(S) /\ Len(r) = Len(q) + 1 /\ DOMAIN r = 1 .. Len(q) + 1
             /\ DOMAIN q = 1 .. Len(q) /\ Len(q) \in Nat
             /\ r[Len(q) + 1] = x /\ \A i \in DOMAIN q : r[i] = q[i]
             /\ ToSet(r) = ToSet(q) \cup {x}
<1> DEFINE r == Append(q, x)
<1>1. /\ r \in Seq(S) /\ Len(r) = Len(q) + 1 /\ DOMAIN r = 1 .. Len(q) + 1
      /\ DOMAIN q = 1 .. Len(q) /\ Len(q) \in Nat
      /\ r[Len(q) + 1] = x /\ \A i \in 1 .. Len(q) : r[i] = q[i]
  OBVIOUS
<1> HIDE DEF r
<1>2. ToSet(r) = ToSet(q) \cup {x}
  BY <1>1 DEF ToSet
<1> QED BY <1>1, <1>2 DEF r

\* A sequence without its first element, as a worker leaves its queue.
LEMMA TakeFirst ==
  ASSUME NEW S, NEW q \in Seq(S), q # <<>>
  PROVE  /\ Head(q) \in S /\ Head(q) = q[1] /\ Tail(q) \in Seq(S)
         /\ Len(q) \in Nat /\ Len(q) > 0 /\ DOMAIN q = 1 .. Len(q)
         /\ DOMAIN Tail(q) = 1 .. Len(q) - 1
         /\ \A i \in DOMAIN Tail(q) : i + 1 \in DOMAIN q /\ Tail(q)[i] = q[i + 1]
         /\ ToSet(q) = ToSet(Tail(q)) \cup {Head(q)}
<1> DEFINE r == Tail(q)
<1>1. /\ Head(q) \in S /\ Head(q) = q[1] /\ r \in Seq(S)
      /\ Len(q) \in Nat /\ Len(q) > 0 /\ DOMAIN q = 1 .. Len(q)
      /\ DOMAIN r = 1 .. Len(q) - 1
      /\ \A i \in 1 .. Len(q) - 1 : r[i] = q[i + 1]
  OBVIOUS
<1> HIDE DEF r
<1>2. \A i \in DOMAIN r : i + 1 \in DOMAIN q /\ r[i] = q[i + 1]
  BY <1>1
<1>3. \A i \in DOMAIN q : q[i] \in ToSet(r) \cup {Head(q)}
  <2> SUFFICES ASSUME NEW i \in DOMAIN q, i # 1 PROVE q[i] \in ToSet(r)
    BY <1>1
  <2>1. i - 1 \in 1 .. Len(q) - 1 /\ (i - 1) + 1 = i
    BY <1>1
  <2>2. i - 1 \in DOMAIN r /\ r[i - 1] = q[i]
    BY <1>1, <2>1
  <2> QED BY <2>2 DEF ToSet
<1>4. ToSet(r) \cup {Head(q)} \subseteq ToSet(q)
  BY <1>1, <1>2 DEF ToSet
<1>5. ToSet(q) \subseteq ToSet(r) \cup {Head(q)}
  BY <1>3 DEF ToSet
<1> QED BY <1>1, <1>2, <1>4, <1>5 DEF r

-----------------------------------------------------------------------------
(* Sequences that are built one element at a time.                         *)

\* What is true of the empty sequence, and stays true when an element is
\* appended, is true of every sequence.
LEMMA SeqInduction ==
  ASSUME NEW S, NEW T, <<>> \in T, \A s \in Seq(S), e \in S : s \in T => Append(s, e) \in T
  PROVE  \A s \in Seq(S) : s \in T
<1> DEFINE N == {n \in Nat : \A s \in Seq(S) : Len(s) = n => s \in T}
<1>1. 0 \in N
  OBVIOUS
<1>2. ASSUME NEW n \in Nat, n \in N
      PROVE  n + 1 \in N
  <2> SUFFICES ASSUME NEW s \in Seq(S), Len(s) = n + 1
               PROVE  s \in T
    OBVIOUS
  <2> DEFINE f == SubSeq(s, 1, n)
  <2>1. f \in Seq(S) /\ Len(f) = n /\ s[n + 1] \in S
    OBVIOUS
  <2>2. s = Append(f, s[n + 1])
    OBVIOUS
  <2> QED BY <1>2, <2>1, <2>2
<1> HIDE DEF N
<1>3. \A n \in Nat : n \in N
  BY <1>1, <1>2, Induction
<1> QED BY <1>3 DEF N

\* Two sequences of the same length with the same elements are the same.
LEMMA SameSeq ==
  ASSUME NEW S, NEW R, NEW s \in Seq(S), NEW t \in Seq(R), Len(s) = Len(t),
         \A i \in 1 .. Len(s) : s[i] = t[i]
  PROVE  s = t
OBVIOUS

\* A sequence is appended to one element after the other.
LEMMA ConcatAppend ==
  ASSUME NEW S, NEW s \in Seq(S), NEW t \in Seq(S), NEW e \in S
  PROVE  /\ s \o Append(t, e) = Append(s \o t, e) /\ s \o t \in Seq(S)
         /\ s \o <<>> = s
<1>1. s \o Append(t, e) \in Seq(S) /\ Append(s \o t, e) \in Seq(S) /\ s \o <<>> \in Seq(S)
  OBVIOUS
<1>2. Len(s \o Append(t, e)) = Len(Append(s \o t, e)) /\ Len(s \o <<>>) = Len(s)
  OBVIOUS
<1>3. \A i \in 1 .. Len(s \o Append(t, e)) : (s \o Append(t, e))[i] = Append(s \o t, e)[i]
  OBVIOUS
<1>4. s \o Append(t, e) = Append(s \o t, e)
  BY <1>1, <1>2, <1>3, SameSeq
<1> QED BY <1>4

\* The elements of two sequences in a row
LEMMA ConcatIs ==
  ASSUME NEW S, NEW s \in Seq(S), NEW t \in Seq(S)
  PROVE  /\ s \o t \in Seq(S) /\ Len(s) \in Nat /\ Len(t) \in Nat
         /\ Len(s \o t) = Len(s) + Len(t) /\ DOMAIN (s \o t) = 1 .. Len(s) + Len(t)
         /\ \A i \in 1 .. Len(s) : (s \o t)[i] = s[i]
         /\ \A i \in 1 .. Len(t) : (s \o t)[Len(s) + i] = t[i]
         /\ \A i \in 1 .. Len(s) + Len(t) :
              i > Len(s) => i - Len(s) \in 1 .. Len(t) /\ (s \o t)[i] = t[i - Len(s)]
OBVIOUS

\* A sequence over a smaller set
LEMMA SeqNarrow ==
  ASSUME NEW S, NEW set
  PROVE  \A s \in Seq(S \cap set) : s \in Seq(S)
<1> SUFFICES ASSUME NEW s \in Seq(S \cap set) PROVE s \in Seq(S)
  OBVIOUS
<1>1. \A k \in 1 .. Len(s) : s[k] \in S
  OBVIOUS
<1> QED BY <1>1

\* ... and over a larger one
LEMMA SeqWider ==
  ASSUME NEW S, NEW R, S \subseteq R
  PROVE  \A s \in Seq(S) : s \in Seq(R)
<1> SUFFICES ASSUME NEW s \in Seq(S) PROVE s \in Seq(R)
  OBVIOUS
<1>1. \A k \in 1 .. Len(s) : s[k] \in R
  OBVIOUS
<1> QED BY <1>1

-----------------------------------------------------------------------------
(* The elements of a sequence that are in a set.                           *)

PickedNext(f, s, set, n) ==
  IF n = 0 THEN <<>>
  ELSE IF s[n] \in set THEN Append(f[n - 1], s[n]) ELSE f[n - 1]

\* f[n] is what is picked of the first n elements.
IsPicked(f, s, set, k) == f = [n \in 0 .. k |-> PickedNext(f, s, set, n)]

\* Step after step there is such a function.
LEMMA PickedExists ==
  ASSUME NEW s, NEW set, NEW k \in Nat
  PROVE  \E f : IsPicked(f, s, set, k)
<1> DEFINE T == {i \in Nat : \E f : f = [n \in 0 .. i |-> PickedNext(f, s, set, n)]}
<1>1. 0 \in T
  <2> DEFINE g == [n \in 0 .. 0 |-> <<>>]
  <2>1. \A n \in 0 .. 0 : PickedNext(g, s, set, n) = <<>>
    BY DEF PickedNext
  <2>2. g = [n \in 0 .. 0 |-> PickedNext(g, s, set, n)]
    BY <2>1
  <2> QED BY <2>2
<1>2. ASSUME NEW i \in Nat, i \in T
      PROVE  i + 1 \in T
  <2>1. PICK f : f = [n \in 0 .. i |-> PickedNext(f, s, set, n)]
    BY <1>2
  <2> DEFINE last == IF s[i + 1] \in set THEN Append(f[i], s[i + 1]) ELSE f[i]
             g == [n \in 0 .. (i + 1) |-> IF n = i + 1 THEN last ELSE f[n]]
  <2>2. \A n \in 0 .. i : g[n] = f[n]
    OBVIOUS
  <2>3. g[i + 1] = PickedNext(g, s, set, i + 1)
    <3>1. i + 1 # 0 /\ (i + 1) - 1 = i /\ i \in 0 .. i /\ i + 1 \in 0 .. (i + 1)
      OBVIOUS
    <3>2. g[i + 1] = last /\ g[i] = f[i]
      BY <2>2, <3>1
    <3> HIDE DEF g
    <3> QED BY <3>1, <3>2, Zenon DEF PickedNext
  <2>4. ASSUME NEW n \in 0 .. i
        PROVE  g[n] = PickedNext(g, s, set, n)
    <3>1. f[n] = PickedNext(f, s, set, n)
      BY <2>1
    <3>2. n # 0 => g[n - 1] = f[n - 1]
      BY <2>2
    <3> HIDE DEF g
    <3>3. g[n] = f[n]
      BY <2>2
    <3> QED BY <3>1, <3>2, <3>3, Zenon DEF PickedNext
  <2>5. DOMAIN g = 0 .. (i + 1) /\ \A n \in 0 .. (i + 1) : n \in 0 .. i \/ n = i + 1
    OBVIOUS
  <2>6. \A n \in 0 .. (i + 1) : g[n] = PickedNext(g, s, set, n)
    BY <2>3, <2>4, <2>5
  <2>7. g = [n \in 0 .. (i + 1) |-> g[n]]
    OBVIOUS
  <2> HIDE DEF g
  <2>8. g = [n \in 0 .. (i + 1) |-> PickedNext(g, s, set, n)]
    BY <2>6, <2>7
  <2> QED BY <2>8
<1> HIDE DEF T
<1>3. \A i \in Nat : i \in T
  BY <1>1, <1>2, Induction
<1> QED BY <1>3 DEF T, IsPicked

\* Picked() is the last value of the function.
LEMMA PickedIs ==
  ASSUME NEW s, Len(s) \in Nat, NEW set
  PROVE  \E f : IsPicked(f, s, set, Len(s)) /\ Picked(s, set) = f[Len(s)]
<1> DEFINE f == CHOOSE g : g = [n \in 0 .. Len(s) |-> PickedNext(g, s, set, n)]
<1>1. \E g : IsPicked(g, s, set, Len(s))
  BY PickedExists
<1>2. f = [n \in 0 .. Len(s) |-> PickedNext(f, s, set, n)]
  BY <1>1 DEF IsPicked
<1>3. Picked(s, set) = f[Len(s)]
  BY DEF Picked, PickedNext
<1> HIDE DEF f
<1> QED BY <1>2, <1>3 DEF IsPicked

\* Nothing is picked of nothing.
LEMMA PickedEmpty ==
  ASSUME NEW set
  PROVE  Picked(<<>>, set) = <<>>
<1>1. Len(<<>>) = 0
  OBVIOUS
<1>2. PICK f : IsPicked(f, <<>>, set, 0) /\ Picked(<<>>, set) = f[0]
  BY <1>1, PickedIs
<1>3. f[0] = PickedNext(f, <<>>, set, 0)
  BY <1>2 DEF IsPicked
<1> QED BY <1>2, <1>3 DEF PickedNext

\* The elements are picked one after the other.
LEMMA PickedAppend ==
  ASSUME NEW S, NEW s \in Seq(S), NEW e \in S, NEW set
  PROVE  Picked(Append(s, e), set) = IF e \in set THEN Append(Picked(s, set), e)
                                     ELSE Picked(s, set)
<1> DEFINE t == Append(s, e)
           k == Len(s)
<1>2. k \in Nat /\ Len(t) = k + 1 /\ t[k + 1] = e /\ \A i \in 1 .. k : t[i] = s[i]
  OBVIOUS
<1> HIDE DEF t, k
<1>3. PICK f : IsPicked(f, s, set, k) /\ Picked(s, set) = f[k]
  BY <1>2, PickedIs DEF k
<1>4. PICK g : IsPicked(g, t, set, k + 1) /\ Picked(t, set) = g[k + 1]
  BY <1>2, PickedIs
<1>5. \A n \in 0 .. k : f[n] = PickedNext(f, s, set, n) /\ g[n] = PickedNext(g, t, set, n)
  <2> TAKE n \in 0 .. k
  <2>1. n \in 0 .. (k + 1)
    BY <1>2
  <2>2. f[n] = PickedNext(f, s, set, n)
    BY <1>3 DEF IsPicked
  <2>3. g[n] = PickedNext(g, t, set, n)
    BY <2>1, <1>4 DEF IsPicked
  <2> QED BY <2>2, <2>3
<1> DEFINE T == {n \in Nat : n <= k => g[n] = f[n]}
<1>6. 0 \in T
  BY <1>2, <1>5 DEF PickedNext
<1>7. ASSUME NEW n \in Nat, n \in T
      PROVE  n + 1 \in T
  <2> SUFFICES ASSUME n + 1 <= k
               PROVE  g[n + 1] = f[n + 1]
    OBVIOUS
  <2>1. n + 1 # 0 /\ (n + 1) - 1 = n /\ n + 1 \in 0 .. k /\ n + 1 \in 1 .. k /\ g[n] = f[n]
    BY <1>2, <1>7
  <2>2. t[n + 1] = s[n + 1]
    BY <1>2, <2>1
  <2>3. f[n + 1] = PickedNext(f, s, set, n + 1) /\ g[n + 1] = PickedNext(g, t, set, n + 1)
    BY <1>5, <2>1
  <2>4. f[n + 1] = IF s[n + 1] \in set THEN Append(f[n], s[n + 1]) ELSE f[n]
    BY <2>1, <2>3, Zenon DEF PickedNext
  <2>5. g[n + 1] = IF t[n + 1] \in set THEN Append(g[n], t[n + 1]) ELSE g[n]
    BY <2>1, <2>3, Zenon DEF PickedNext
  <2> QED BY <2>1, <2>2, <2>4, <2>5
<1> HIDE DEF T
<1>8. g[k] = f[k]
  <2>1. k \in T
    BY <1>2, <1>6, <1>7, Induction
  <2> QED BY <1>2, <2>1 DEF T
<1>9. g[k + 1] = PickedNext(g, t, set, k + 1)
  BY <1>2, <1>4 DEF IsPicked
<1>10. k + 1 # 0 /\ (k + 1) - 1 = k
  BY <1>2
<1>11. g[k + 1] = IF e \in set THEN Append(f[k], e) ELSE f[k]
  BY <1>2, <1>8, <1>9, <1>10, Zenon DEF PickedNext
<1> QED BY <1>3, <1>4, <1>11 DEF t

\* What is picked of two sequences in a row is picked of each.
LEMMA PickedConcat ==
  ASSUME NEW S, NEW s \in Seq(S), NEW set
  PROVE  /\ \A t \in Seq(S) : Picked(s \o t, set) = Picked(s, set) \o Picked(t, set)
         /\ Picked(s, set) \in Seq(S)
<1> DEFINE P == {t \in Seq(S) : Picked(t, set) \in Seq(S)}
<1>1. <<>> \in P
  <2>1. Picked(<<>>, set) = <<>> /\ <<>> \in Seq(S)
    BY PickedEmpty
  <2> QED BY <2>1
<1>2. \A t \in Seq(S), e \in S : t \in P => Append(t, e) \in P
  <2> SUFFICES ASSUME NEW t \in Seq(S), NEW e \in S, Picked(t, set) \in Seq(S)
               PROVE  Picked(Append(t, e), set) \in Seq(S) /\ Append(t, e) \in Seq(S)
    OBVIOUS
  <2>1. Picked(Append(t, e), set) = IF e \in set THEN Append(Picked(t, set), e)
                                    ELSE Picked(t, set)
    BY PickedAppend
  <2> QED BY <2>1
<1> HIDE DEF P
<1>3. \A t \in Seq(S) : t \in P
  BY <1>1, <1>2, SeqInduction
<1>4. \A t \in Seq(S) : Picked(t, set) \in Seq(S)
  BY <1>3 DEF P
<1> DEFINE T == {t \in Seq(S) : Picked(s \o t, set) = Picked(s, set) \o Picked(t, set)}
<1>5. <<>> \in T
  <2>1. <<>> \in Seq(S) /\ s \o <<>> = s
    OBVIOUS
  <2>2. Picked(s, set) \o <<>> = Picked(s, set)
    BY <1>4
  <2> QED BY <2>1, <2>2, PickedEmpty
<1>6. \A t \in Seq(S), e \in S : t \in T => Append(t, e) \in T
  <2> SUFFICES ASSUME NEW t \in Seq(S), NEW e \in S,
                      Picked(s \o t, set) = Picked(s, set) \o Picked(t, set)
               PROVE  /\ Append(t, e) \in Seq(S)
                      /\ Picked(s \o Append(t, e), set) =
                           Picked(s, set) \o Picked(Append(t, e), set)
    OBVIOUS
  <2>1. s \o t \in Seq(S) /\ s \o Append(t, e) = Append(s \o t, e)
    BY ConcatAppend
  <2>2. Picked(s \o Append(t, e), set) = IF e \in set THEN Append(Picked(s \o t, set), e)
                                         ELSE Picked(s \o t, set)
    <3> DEFINE u == s \o t
    <3>1. u \in Seq(S)
      BY <2>1
    <3> HIDE DEF u
    <3>2. Picked(Append(u, e), set) = IF e \in set THEN Append(Picked(u, set), e)
                                      ELSE Picked(u, set)
      BY <3>1, PickedAppend
    <3> QED BY <2>1, <3>2 DEF u
  <2>3. Picked(Append(t, e), set) = IF e \in set THEN Append(Picked(t, set), e)
                                    ELSE Picked(t, set)
    BY PickedAppend
  <2>4. Picked(s, set) \o Append(Picked(t, set), e) = Append(Picked(s, set) \o Picked(t, set), e)
    BY <1>4, ConcatAppend
  <2>5. Picked(s, set) \o Picked(Append(t, e), set) = IF e \in set
          THEN Append(Picked(s, set) \o Picked(t, set), e) ELSE Picked(s, set) \o Picked(t, set)
    BY <2>3, <2>4
  <2> QED BY <2>2, <2>5
<1> HIDE DEF T
<1>7. \A t \in Seq(S) : t \in T
  BY <1>5, <1>6, SeqInduction
<1> QED BY <1>4, <1>7 DEF T

\* What is picked is in the set.
LEMMA PickedSet ==
  ASSUME NEW S, NEW set
  PROVE  \A s \in Seq(S) : Picked(s, set) \in Seq(S \cap set)
<1> DEFINE T == {s \in Seq(S) : Picked(s, set) \in Seq(S \cap set)}
<1>1. Picked(<<>>, set) = <<>>
  BY PickedEmpty
<1>2. <<>> \in T
  <2>1. <<>> \in Seq(S) /\ <<>> \in Seq(S \cap set)
    OBVIOUS
  <2> QED BY <1>1, <2>1
<1>3. \A s \in Seq(S), e \in S : s \in T => Append(s, e) \in T
  <2> SUFFICES ASSUME NEW s \in Seq(S), NEW e \in S, Picked(s, set) \in Seq(S \cap set)
               PROVE  Picked(Append(s, e), set) \in Seq(S \cap set) /\ Append(s, e) \in Seq(S)
    OBVIOUS
  <2>1. Picked(Append(s, e), set) = IF e \in set THEN Append(Picked(s, set), e)
                                    ELSE Picked(s, set)
    BY PickedAppend
  <2> QED BY <2>1
<1> HIDE DEF T
<1>4. \A s \in Seq(S) : s \in T
  BY <1>2, <1>3, SeqInduction
<1> QED BY <1>4 DEF T

\* All of a sequence is picked, or nothing of it.
LEMMA PickedAll ==
  ASSUME NEW S, NEW set
  PROVE  \A s \in Seq(S) :
           /\ (\A i \in DOMAIN s : s[i] \in set) => Picked(s, set) = s
           /\ (\A i \in DOMAIN s : s[i] \notin set) => Picked(s, set) = <<>>
<1> DEFINE All(s) == \A i \in DOMAIN s : s[i] \in set
           None(s) == \A i \in DOMAIN s : s[i] \notin set
           T == {s \in Seq(S) : /\ All(s) => Picked(s, set) = s
                                /\ None(s) => Picked(s, set) = <<>>}
<1>1. Picked(<<>>, set) = <<>>
  BY PickedEmpty
<1>2. <<>> \in T
  <2>1. <<>> \in Seq(S) /\ (All(<<>>) => Picked(<<>>, set) = <<>>)
    BY <1>1
  <2> QED BY <1>1, <2>1
<1>3. \A s \in Seq(S), e \in S : s \in T => Append(s, e) \in T
  <2> SUFFICES ASSUME NEW s \in Seq(S), NEW e \in S, s \in T
               PROVE  Append(s, e) \in T
    OBVIOUS
  <2>1. Picked(Append(s, e), set) = IF e \in set THEN Append(Picked(s, set), e)
                                    ELSE Picked(s, set)
    BY PickedAppend
  <2>2. Append(s, e) \in Seq(S) /\ DOMAIN s = 1 .. Len(s) /\ Len(s) \in Nat
        /\ DOMAIN Append(s, e) = 1 .. Len(s) + 1 /\ Append(s, e)[Len(s) + 1] = e
        /\ \A i \in DOMAIN s : Append(s, e)[i] = s[i]
    OBVIOUS
  <2>3. All(Append(s, e)) => All(s) /\ e \in set
    BY <2>2
  <2>4. None(Append(s, e)) => None(s) /\ e \notin set
    BY <2>2
  <2> QED BY <2>1, <2>2, <2>3, <2>4
<1> HIDE DEF T
<1>4. \A s \in Seq(S) : s \in T
  BY <1>2, <1>3, SeqInduction
<1> QED BY <1>4 DEF T

-----------------------------------------------------------------------------
(* The list of events.                                                     *)

LeftNext(f, list, events, n) ==
  IF n = 0 THEN list ELSE Removed(f[n - 1], events[n])

\* f[n] is what n of the events leave.
IsLeft(f, list, events, k) == f = [n \in 0 .. k |-> LeftNext(f, list, events, n)]

\* Step after step there is such a function.
LEMMA LeftExists ==
  ASSUME NEW list, NEW events, NEW k \in Nat
  PROVE  \E f : IsLeft(f, list, events, k)
<1> DEFINE T == {i \in Nat : \E f : f = [n \in 0 .. i |-> LeftNext(f, list, events, n)]}
<1>1. 0 \in T
  <2> DEFINE g == [n \in 0 .. 0 |-> list]
  <2>1. \A n \in 0 .. 0 : LeftNext(g, list, events, n) = list
    BY DEF LeftNext
  <2>2. g = [n \in 0 .. 0 |-> LeftNext(g, list, events, n)]
    BY <2>1
  <2> QED BY <2>2
<1>2. ASSUME NEW i \in Nat, i \in T
      PROVE  i + 1 \in T
  <2>1. PICK f : f = [n \in 0 .. i |-> LeftNext(f, list, events, n)]
    BY <1>2
  <2> DEFINE last == Removed(f[i], events[i + 1])
             g == [n \in 0 .. (i + 1) |-> IF n = i + 1 THEN last ELSE f[n]]
  <2>2. \A n \in 0 .. i : g[n] = f[n]
    OBVIOUS
  <2>3. g[i + 1] = LeftNext(g, list, events, i + 1)
    <3>1. i + 1 # 0 /\ (i + 1) - 1 = i /\ i \in 0 .. i /\ i + 1 \in 0 .. (i + 1)
      OBVIOUS
    <3>2. g[i + 1] = last /\ g[i] = f[i]
      BY <2>2, <3>1
    <3> HIDE DEF g
    <3> QED BY <3>1, <3>2, Zenon DEF LeftNext
  <2>4. ASSUME NEW n \in 0 .. i
        PROVE  g[n] = LeftNext(g, list, events, n)
    <3>1. f[n] = LeftNext(f, list, events, n)
      BY <2>1
    <3>2. n # 0 => g[n - 1] = f[n - 1]
      BY <2>2
    <3> HIDE DEF g
    <3>3. g[n] = f[n]
      BY <2>2
    <3> QED BY <3>1, <3>2, <3>3, Zenon DEF LeftNext
  <2>5. DOMAIN g = 0 .. (i + 1) /\ \A n \in 0 .. (i + 1) : n \in 0 .. i \/ n = i + 1
    OBVIOUS
  <2>6. \A n \in 0 .. (i + 1) : g[n] = LeftNext(g, list, events, n)
    BY <2>3, <2>4, <2>5
  <2>7. g = [n \in 0 .. (i + 1) |-> g[n]]
    OBVIOUS
  <2> HIDE DEF g
  <2>8. g = [n \in 0 .. (i + 1) |-> LeftNext(g, list, events, n)]
    BY <2>6, <2>7
  <2> QED BY <2>8
<1> HIDE DEF T
<1>3. \A i \in Nat : i \in T
  BY <1>1, <1>2, Induction
<1> QED BY <1>3 DEF T, IsLeft

\* WithoutEchoes() is the last value of the function.
LEMMA LeftIs ==
  ASSUME NEW list, NEW events, Len(events) \in Nat
  PROVE  \E f : IsLeft(f, list, events, Len(events)) /\ WithoutEchoes(list, events) = f[Len(events)]
<1> DEFINE f == CHOOSE g : g = [n \in 0 .. Len(events) |-> LeftNext(g, list, events, n)]
<1>1. \E g : IsLeft(g, list, events, Len(events))
  BY LeftExists
<1>2. f = [n \in 0 .. Len(events) |-> LeftNext(f, list, events, n)]
  BY <1>1 DEF IsLeft
<1>3. WithoutEchoes(list, events) = f[Len(events)]
  BY DEF WithoutEchoes, LeftNext
<1> HIDE DEF f
<1> QED BY <1>2, <1>3 DEF IsLeft

\* No event removes anything.
LEMMA LeftEmpty ==
  ASSUME NEW list
  PROVE  WithoutEchoes(list, <<>>) = list
<1>1. Len(<<>>) = 0
  OBVIOUS
<1>2. PICK f : IsLeft(f, list, <<>>, 0) /\ WithoutEchoes(list, <<>>) = f[0]
  BY <1>1, LeftIs
<1>3. f[0] = LeftNext(f, list, <<>>, 0)
  BY <1>2 DEF IsLeft
<1> QED BY <1>2, <1>3 DEF LeftNext

\* The echoes of the events are removed one after the other.
LEMMA LeftAppend ==
  ASSUME NEW S, NEW list, NEW s \in Seq(S), NEW e \in S
  PROVE  WithoutEchoes(list, Append(s, e)) = Removed(WithoutEchoes(list, s), e)
<1> DEFINE t == Append(s, e)
           k == Len(s)
<1>1. k \in Nat /\ Len(t) = k + 1 /\ t[k + 1] = e /\ \A i \in 1 .. k : t[i] = s[i]
  OBVIOUS
<1> HIDE DEF t, k
<1>2. PICK f : IsLeft(f, list, s, k) /\ WithoutEchoes(list, s) = f[k]
  BY <1>1, LeftIs DEF k
<1>3. PICK g : IsLeft(g, list, t, k + 1) /\ WithoutEchoes(list, t) = g[k + 1]
  <2>1. Len(t) \in Nat
    BY <1>1
  <2>2. \E g : IsLeft(g, list, t, Len(t)) /\ WithoutEchoes(list, t) = g[Len(t)]
    BY <2>1, LeftIs
  <2> QED BY <1>1, <2>2
<1>4. \A n \in 0 .. k : f[n] = LeftNext(f, list, s, n) /\ g[n] = LeftNext(g, list, t, n)
  <2> TAKE n \in 0 .. k
  <2>1. n \in 0 .. (k + 1)
    BY <1>1
  <2>2. f[n] = LeftNext(f, list, s, n)
    BY <1>2 DEF IsLeft
  <2>3. g[n] = LeftNext(g, list, t, n)
    BY <2>1, <1>3 DEF IsLeft
  <2> QED BY <2>2, <2>3
<1> DEFINE T == {n \in Nat : n <= k => g[n] = f[n]}
<1>5. 0 \in T
  BY <1>1, <1>4 DEF LeftNext
<1>6. ASSUME NEW n \in Nat, n \in T
      PROVE  n + 1 \in T
  <2> SUFFICES ASSUME n + 1 <= k
               PROVE  g[n + 1] = f[n + 1]
    OBVIOUS
  <2>1. n + 1 # 0 /\ (n + 1) - 1 = n /\ n + 1 \in 0 .. k /\ n + 1 \in 1 .. k /\ g[n] = f[n]
    BY <1>1, <1>6
  <2>2. t[n + 1] = s[n + 1]
    BY <1>1, <2>1
  <2>3. f[n + 1] = LeftNext(f, list, s, n + 1) /\ g[n + 1] = LeftNext(g, list, t, n + 1)
    BY <1>4, <2>1
  <2>4. f[n + 1] = Removed(f[n], s[n + 1])
    BY <2>1, <2>3, Zenon DEF LeftNext
  <2>5. g[n + 1] = Removed(g[n], t[n + 1])
    BY <2>1, <2>3, Zenon DEF LeftNext
  <2> QED BY <2>1, <2>2, <2>4, <2>5
<1> HIDE DEF T
<1>7. g[k] = f[k]
  <2>1. k \in T
    BY <1>1, <1>5, <1>6, Induction
  <2> QED BY <1>1, <2>1 DEF T
<1>8. g[k + 1] = LeftNext(g, list, t, k + 1)
  BY <1>1, <1>3 DEF IsLeft
<1>9. k + 1 # 0 /\ (k + 1) - 1 = k
  BY <1>1
<1>10. g[k + 1] = Removed(f[k], e)
  BY <1>1, <1>7, <1>8, <1>9, Zenon DEF LeftNext
<1> QED BY <1>2, <1>3, <1>10 DEF t

\* The events of a list that are messages
Shows == {e \in Event : e.message}

\* The elements of two lists in a row
LEMMA ListConcat ==
  ASSUME NEW s \in Seq(Plain), NEW t \in Seq(Plain)
  PROVE  /\ s \o t \in Seq(Plain) /\ Len(s) \in Nat /\ Len(t) \in Nat
         /\ Len(s \o t) = Len(s) + Len(t) /\ DOMAIN (s \o t) = 1 .. Len(s) + Len(t)
         /\ \A i \in 1 .. Len(s) : (s \o t)[i] = s[i]
         /\ \A i \in 1 .. Len(t) : (s \o t)[Len(s) + i] = t[i]
         /\ \A i \in 1 .. Len(s) + Len(t) :
              i > Len(s) => i - Len(s) \in 1 .. Len(t) /\ (s \o t)[i] = t[i - Len(s)]
  BY ConcatIs

\* The messages of two sequences in a row
LEMMA MessagesConcat ==
  ASSUME NEW s \in Seq(Plain), NEW t \in Seq(Plain)
  PROVE  /\ Messages(s \o t) = Messages(s) \o Messages(t)
         /\ Messages(s) \in Seq(Plain)
<1>1. /\ \A r \in Seq(Plain) : Picked(s \o r, Shows) = Picked(s, Shows) \o Picked(r, Shows)
      /\ Picked(s, Shows) \in Seq(Plain)
  BY PickedConcat
<1> QED BY <1>1 DEF Messages, Shows

\* Either a sequence is of messages, or it has none.
LEMMA MessagesAll ==
  ASSUME NEW s \in Seq(Plain)
  PROVE  /\ (\A i \in DOMAIN s : s[i].message) => Messages(s) = s
         /\ (\A i \in DOMAIN s : ~s[i].message) => Messages(s) = <<>>
<1>1. /\ (\A i \in DOMAIN s : s[i] \in Shows) => Picked(s, Shows) = s
      /\ (\A i \in DOMAIN s : s[i] \notin Shows) => Picked(s, Shows) = <<>>
  BY PickedAll
<1>2. \A i \in DOMAIN s : s[i] \in Event
  BY DEF Plain
<1> QED BY <1>1, <1>2 DEF Messages, Shows

\* What is not a message in the middle of a sequence is not missed.
LEMMA MessagesWithout ==
  ASSUME NEW a \in Seq(Plain), NEW b \in Seq(Plain), NEW e \in Plain, ~e.message
  PROVE  Messages((a \o <<e>>) \o b) = Messages(a \o b)
<1> PICK x : x = <<e>>
  OBVIOUS
<1>1. x \in Seq(Plain) /\ DOMAIN x = {1} /\ x[1] = e
  OBVIOUS
<1>2. Messages(x) = <<>>
  BY <1>1, MessagesAll
<1>3. PICK y : y = a \o x
  OBVIOUS
<1>4. y \in Seq(Plain)
  BY <1>1, <1>3
<1>5. Messages(y \o b) = Messages(y) \o Messages(b) /\ Messages(a \o b) = Messages(a) \o Messages(b)
  BY <1>4, MessagesConcat
<1>6. Messages(y) = Messages(a) \o Messages(x) /\ Messages(a) \in Seq(Plain)
  BY <1>1, <1>3, MessagesConcat
<1>7. Messages(a) \o <<>> = Messages(a)
  BY <1>6
<1> QED BY <1>2, <1>3, <1>5, <1>6, <1>7

\* A list around one of its elements
LEMMA MiddleIs ==
  ASSUME NEW a \in Seq(Plain), NEW b \in Seq(Plain), NEW e \in Plain
  PROVE  /\ (a \o <<e>>) \o b \in Seq(Plain) /\ Len((a \o <<e>>) \o b) = Len(a) + 1 + Len(b)
         /\ \A j \in 1 .. Len(a) : ((a \o <<e>>) \o b)[j] = a[j]
         /\ ((a \o <<e>>) \o b)[Len(a) + 1] = e
         /\ \A j \in 1 .. Len(b) : ((a \o <<e>>) \o b)[Len(a) + 1 + j] = b[j]
<1>1. PICK x : x = <<e>>
  OBVIOUS
<1>2. x \in Seq(Plain) /\ Len(x) = 1 /\ x[1] = e
  BY <1>1
<1>3. PICK y : y = a \o x
  OBVIOUS
<1>4. /\ y \in Seq(Plain) /\ Len(y) = Len(a) + 1 /\ y[Len(a) + 1] = e
      /\ \A j \in 1 .. Len(a) : y[j] = a[j]
  <2>1. /\ a \o x \in Seq(Plain) /\ Len(a \o x) = Len(a) + Len(x)
        /\ \A j \in 1 .. Len(a) : (a \o x)[j] = a[j]
        /\ \A j \in 1 .. Len(x) : (a \o x)[Len(a) + j] = x[j]
    BY <1>2, ListConcat
  <2>2. 1 \in 1 .. Len(x)
    BY <1>2
  <2>3. (a \o x)[Len(a) + 1] = x[1]
    BY <2>1, <2>2
  <2> QED BY <1>2, <1>3, <2>1, <2>3
<1>5. /\ y \o b \in Seq(Plain) /\ Len(y \o b) = Len(y) + Len(b)
      /\ \A j \in 1 .. Len(y) : (y \o b)[j] = y[j]
      /\ \A j \in 1 .. Len(b) : (y \o b)[Len(y) + j] = b[j]
  BY <1>4
<1>6. \A j \in 1 .. Len(a) : j \in 1 .. Len(y)
  BY <1>4
<1>7. Len(a) + 1 \in 1 .. Len(y)
  BY <1>4
<1> QED BY <1>1, <1>3, <1>4, <1>5, <1>6, <1>7

\* A list is what is before an element, the element and what is after it.
LEMMA Middle ==
  ASSUME NEW list \in Seq(Plain), NEW i \in 1 .. Len(list)
  PROVE  \E a, b \in Seq(Plain) :
           /\ list = (a \o <<list[i]>>) \o b /\ RemoveAt(list, i) = a \o b
           /\ Len(a) = i - 1 /\ Len(b) = Len(list) - i
<1> DEFINE a == SubSeq(list, 1, i - 1)
           b == SubSeq(list, i + 1, Len(list))
<1>1. RemoveAt(list, i) = a \o b
  BY DEF RemoveAt
<1>2. a \in Seq(Plain) /\ b \in Seq(Plain) /\ list[i] \in Plain
  OBVIOUS
<1>3. /\ Len(a) = i - 1 /\ Len(b) = Len(list) - i /\ Len(list) \in Nat
      /\ \A j \in 1 .. i - 1 : a[j] = list[j]
      /\ \A j \in 1 .. Len(list) - i : b[j] = list[j + i]
  OBVIOUS
<1> HIDE DEF a, b
<1>4. PICK y : y = (a \o <<list[i]>>) \o b
  OBVIOUS
<1>5. /\ y \in Seq(Plain) /\ Len(y) = Len(a) + 1 + Len(b)
      /\ \A j \in 1 .. Len(a) : y[j] = a[j]
      /\ y[Len(a) + 1] = list[i]
      /\ \A j \in 1 .. Len(b) : y[Len(a) + 1 + j] = b[j]
  BY <1>2, <1>4, MiddleIs
<1>6. Len(y) = Len(list)
  BY <1>3, <1>5
<1>7. ASSUME NEW j \in 1 .. Len(list)
      PROVE  y[j] = list[j]
  <2>1. CASE j < i
    BY <1>3, <1>5, <2>1
  <2>2. CASE j = i
    BY <1>3, <1>5, <2>2
  <2>3. CASE j > i
    <3>1. j - i \in 1 .. Len(b) /\ Len(a) + 1 + (j - i) = j /\ (j - i) + i = j
      BY <1>3, <2>3
    <3>2. y[Len(a) + 1 + (j - i)] = b[j - i] /\ b[j - i] = list[(j - i) + i]
      BY <1>3, <1>5, <3>1
    <3> QED BY <3>1, <3>2
  <2> QED BY <1>3, <2>1, <2>2, <2>3
<1>8. list = y
  BY <1>5, <1>6, <1>7, SameSeq
<1> QED BY <1>1, <1>2, <1>3, <1>4, <1>8

\* What is taken out of a list is not missed if it is not a message.
LEMMA TakenOut ==
  ASSUME NEW list \in Seq(Plain), NEW i \in 1 .. Len(list)
  PROVE  /\ RemoveAt(list, i) \in Seq(Plain) /\ Len(RemoveAt(list, i)) = Len(list) - 1
         /\ \A j \in 1 .. Len(list) - 1 : RemoveAt(list, i)[j] = list[IF j < i THEN j ELSE j + 1]
         /\ ~list[i].message => Messages(RemoveAt(list, i)) = Messages(list)
<1>1. PICK a \in Seq(Plain), b \in Seq(Plain) :
        /\ list = (a \o <<list[i]>>) \o b /\ RemoveAt(list, i) = a \o b
        /\ Len(a) = i - 1 /\ Len(b) = Len(list) - i
  BY Middle
<1>2. list[i] \in Plain /\ Len(list) \in Nat
  OBVIOUS
<1>3. PICK e : e = list[i]
  OBVIOUS
<1>4. PICK y : y = (a \o <<e>>) \o b
  OBVIOUS
<1>5. e \in Plain
  BY <1>2, <1>3
<1>6. /\ \A j \in 1 .. Len(a) : y[j] = a[j]
      /\ \A j \in 1 .. Len(b) : y[Len(a) + 1 + j] = b[j]
  BY <1>4, <1>5, MiddleIs
<1>7. /\ a \o b \in Seq(Plain) /\ Len(a \o b) = Len(a) + Len(b)
      /\ \A j \in 1 .. Len(a) : (a \o b)[j] = a[j]
      /\ \A j \in 1 .. Len(b) : (a \o b)[Len(a) + j] = b[j]
  OBVIOUS
<1>8. y = list
  BY <1>1, <1>3, <1>4
<1>9. ASSUME NEW j \in 1 .. Len(list) - 1
      PROVE  (a \o b)[j] = list[IF j < i THEN j ELSE j + 1]
  <2>1. CASE j < i
    <3>1. j \in 1 .. Len(a)
      BY <1>1, <2>1
    <3>2. (a \o b)[j] = a[j] /\ y[j] = a[j]
      BY <1>6, <1>7, <3>1
    <3> QED BY <1>8, <2>1, <3>2
  <2>2. CASE ~(j < i)
    <3>1. j - (i - 1) \in 1 .. Len(b)
      BY <1>1, <1>2, <2>2
    <3>2. /\ (a \o b)[Len(a) + (j - (i - 1))] = b[j - (i - 1)]
          /\ y[Len(a) + 1 + (j - (i - 1))] = b[j - (i - 1)]
      BY <1>6, <1>7, <3>1
    <3>3. Len(a) + (j - (i - 1)) = j /\ Len(a) + 1 + (j - (i - 1)) = j + 1
      BY <1>1, <1>2
    <3> QED BY <1>8, <2>2, <3>2, <3>3
  <2> QED BY <2>1, <2>2
<1>10. Len(a \o b) = Len(list) - 1
  BY <1>1, <1>2, <1>7
<1>11. ~e.message => Messages((a \o <<e>>) \o b) = Messages(a \o b)
  BY <1>5, MessagesWithout
<1> QED BY <1>1, <1>3, <1>4, <1>7, <1>8, <1>9, <1>10, <1>11

\* An echo that the event is for is taken out.
LEMMA RemovedIs ==
  ASSUME NEW list \in Seq(Plain), NEW e
  PROVE  \/ /\ Removed(list, e) = list
            /\ ~e.message \/ e.txn = NULL \/ \A j \in 1 .. Len(list) : list[j].txn # e.txn
         \/ /\ e.message /\ e.txn # NULL
            /\ \E i \in 1 .. Len(list) :
                 list[i].txn = e.txn /\ Removed(list, e) = RemoveAt(list, i)
<1> DEFINE same == {i \in DOMAIN list : list[i].txn = e.txn}
<1>1. Len(list) \in Nat /\ DOMAIN list = 1 .. Len(list) /\ same \in SUBSET (0 .. Len(list))
  OBVIOUS
<1>2. Removed(list, e) = IF ~e.message \/ e.txn = NULL \/ same = {} THEN list
                         ELSE RemoveAt(list, Max(same))
  BY DEF Removed
<1>3. same # {} => Max(same) \in same
  <2> HIDE DEF same
  <2> QED BY <1>1, MaxOf
<1> QED BY <1>1, <1>2, <1>3

\* There is one echo of a message, and nothing else of it.
Distinct(list) ==
  \A i, j \in DOMAIN list :
    list[i].txn = list[j].txn /\ list[i].txn # NULL /\ ~list[i].message => i = j

\* What removes what: the events that are messages of ours
Removes(events) == {events[k].txn : k \in {i \in DOMAIN events : events[i].message}} \ {NULL}

\* What is left of a list: nothing that was removed, the first one if it was not,
\* and all of the messages.
Leaves(list, txns, left) ==
  /\ left \in Seq(Plain) /\ Distinct(left)
  /\ \A i \in 1 .. Len(left) : \E j \in 1 .. Len(list) :
       left[i] = list[j] /\ list[j].txn \notin txns
  /\ list # <<>> /\ list[1].txn \notin txns => left # <<>> /\ left[1] = list[1]
  /\ list = <<>> => left = <<>>
  /\ Messages(left) = Messages(list)

\* Only echoes are removed.
Harmless(list, txns) == \A j \in 1 .. Len(list) : list[j].txn \in txns => ~list[j].message

\* One event
LEMMA RemovedLeaves ==
  ASSUME NEW list \in Seq(Plain), Distinct(list), NEW e, NEW txns,
         txns = IF e.message THEN {e.txn} \ {NULL} ELSE {}, Harmless(list, txns)
  PROVE  Leaves(list, txns, Removed(list, e))
<1>1. CASE /\ Removed(list, e) = list
           /\ ~e.message \/ e.txn = NULL \/ \A j \in 1 .. Len(list) : list[j].txn # e.txn
  <2>1. \A j \in 1 .. Len(list) : list[j].txn \notin txns
    BY <1>1
  <2> QED BY <1>1, <2>1 DEF Leaves
<1>2. ASSUME e.message, e.txn # NULL, NEW i \in 1 .. Len(list), list[i].txn = e.txn,
             Removed(list, e) = RemoveAt(list, i)
      PROVE  Leaves(list, txns, Removed(list, e))
  <2>1. txns = {e.txn} /\ DOMAIN list = 1 .. Len(list) /\ Len(list) \in Nat
    BY <1>2
  <2> PICK left : left = Removed(list, e)
    OBVIOUS
  <2>2. /\ left \in Seq(Plain) /\ Len(left) = Len(list) - 1
        /\ \A j \in 1 .. Len(list) - 1 : left[j] = list[IF j < i THEN j ELSE j + 1]
        /\ ~list[i].message => Messages(left) = Messages(list)
    BY <1>2, TakenOut
  <2>3. DOMAIN left = 1 .. Len(list) - 1
    BY <2>1, <2>2
  <2>4. ~list[i].message
    BY <1>2, <2>1 DEF Harmless
  <2>5. ASSUME NEW j \in 1 .. Len(list) - 1
        PROVE  \E k \in 1 .. Len(list) : left[j] = list[k] /\ list[k].txn \notin txns
    <3> PICK k : k = IF j < i THEN j ELSE j + 1
      OBVIOUS
    <3>1. k \in 1 .. Len(list) /\ k # i /\ left[j] = list[k]
      BY <2>1, <2>2
    <3>2. list[k].txn # list[i].txn
      BY <1>2, <2>1, <2>4, <3>1 DEF Distinct
    <3> QED BY <1>2, <2>1, <3>1, <3>2
  <2>6. Distinct(left)
    <3> SUFFICES ASSUME NEW j \in 1 .. Len(list) - 1, NEW k \in 1 .. Len(list) - 1,
                        left[j].txn = left[k].txn, left[j].txn # NULL, ~left[j].message
                 PROVE  j = k
      BY <2>3 DEF Distinct
    <3> PICK j1, k1 : j1 = (IF j < i THEN j ELSE j + 1) /\ k1 = (IF k < i THEN k ELSE k + 1)
      OBVIOUS
    <3>1. j1 \in 1 .. Len(list) /\ k1 \in 1 .. Len(list) /\ left[j] = list[j1] /\ left[k] = list[k1]
      BY <2>1, <2>2
    <3>2. j1 = k1
      BY <2>1, <3>1 DEF Distinct
    <3> QED BY <2>1, <3>2
  <2>7. list[1].txn \notin txns => left # <<>> /\ left[1] = list[1]
    <3> SUFFICES ASSUME list[1].txn \notin txns PROVE left # <<>> /\ left[1] = list[1]
      OBVIOUS
    <3>1. i # 1
      BY <1>2, <2>1
    <3>2. 1 < i /\ 1 \in 1 .. Len(list) - 1
      BY <2>1, <3>1
    <3> QED BY <2>1, <2>2, <3>2
  <2>8. list # <<>>
    BY <2>1
  <2>9. \A j \in 1 .. Len(left) : j \in 1 .. Len(list) - 1
    BY <2>1, <2>2
  <2> QED BY <2>2, <2>4, <2>5, <2>6, <2>7, <2>8, <2>9 DEF Leaves
<1> QED BY <1>1, <1>2, RemovedIs

\* What is left after more events
LEMMA LeavesMore ==
  ASSUME NEW list \in Seq(Plain), NEW t1, NEW left, Leaves(list, t1, left),
         NEW t2, NEW rest, Leaves(left, t2, rest)
  PROVE  Leaves(list, t1 \cup t2, rest)
<1>1. left \in Seq(Plain) /\ rest \in Seq(Plain) /\ Distinct(rest)
  BY DEF Leaves
<1>2. ASSUME NEW i \in 1 .. Len(rest)
      PROVE  \E j \in 1 .. Len(list) : rest[i] = list[j] /\ list[j].txn \notin t1 \cup t2
  <2>1. PICK k \in 1 .. Len(left) : rest[i] = left[k] /\ left[k].txn \notin t2
    BY <1>2 DEF Leaves
  <2>2. PICK j \in 1 .. Len(list) : left[k] = list[j] /\ list[j].txn \notin t1
    BY <2>1 DEF Leaves
  <2> QED BY <2>1, <2>2
<1>3. list # <<>> /\ list[1].txn \notin t1 \cup t2 => rest # <<>> /\ rest[1] = list[1]
  BY DEF Leaves
<1>4. list = <<>> => rest = <<>>
  BY DEF Leaves
<1>5. Messages(rest) = Messages(list)
  BY DEF Leaves
<1> QED BY <1>1, <1>2, <1>3, <1>4, <1>5 DEF Leaves

\* The events one after the other
LEMMA EchoesRemoved ==
  ASSUME NEW list \in Seq(Plain), Distinct(list)
  PROVE  \A events \in Seq(Plain) :
           Harmless(list, Removes(events)) =>
             Leaves(list, Removes(events), WithoutEchoes(list, events))
<1> DEFINE T == {es \in Seq(Plain) : Harmless(list, Removes(es)) =>
                                       Leaves(list, Removes(es), WithoutEchoes(list, es))}
<1>1. <<>> \in T
  <2>1. <<>> \in Seq(Plain) /\ Removes(<<>>) = {}
    BY DEF Removes
  <2>2. Leaves(list, {}, list)
    BY DEF Leaves
  <2> QED BY <2>1, <2>2, LeftEmpty
<1>2. \A es \in Seq(Plain), e \in Plain : es \in T => Append(es, e) \in T
  <2> SUFFICES ASSUME NEW es \in Seq(Plain), NEW e \in Plain,
                      Harmless(list, Removes(es)) =>
                        Leaves(list, Removes(es), WithoutEchoes(list, es)),
                      Harmless(list, Removes(Append(es, e)))
               PROVE  /\ Append(es, e) \in Seq(Plain)
                      /\ Leaves(list, Removes(Append(es, e)), WithoutEchoes(list, Append(es, e)))
    OBVIOUS
  <2> PICK left : left = WithoutEchoes(list, es)
    OBVIOUS
  <2> PICK txns : txns = IF e.message THEN {e.txn} \ {NULL} ELSE {}
    OBVIOUS
  <2>1. Removes(Append(es, e)) = Removes(es) \cup txns
    <3>1. /\ DOMAIN es = 1 .. Len(es) /\ Len(es) \in Nat
          /\ DOMAIN Append(es, e) = 1 .. Len(es) + 1 /\ Append(es, e)[Len(es) + 1] = e
          /\ \A i \in DOMAIN es : Append(es, e)[i] = es[i] /\ i \in DOMAIN Append(es, e)
          /\ \A i \in DOMAIN Append(es, e) : i \in DOMAIN es \/ i = Len(es) + 1
      OBVIOUS
    <3> QED BY <3>1 DEF Removes
  <2>2. Leaves(list, Removes(es), left)
    BY <2>1 DEF Harmless
  <2>3. left \in Seq(Plain) /\ Distinct(left)
    BY <2>2 DEF Leaves
  <2>4. Harmless(left, txns)
    BY <2>1, <2>2 DEF Harmless, Leaves
  <2>5. Leaves(left, txns, Removed(left, e))
    BY <2>3, <2>4, RemovedLeaves
  <2>6. Leaves(list, Removes(es) \cup txns, Removed(left, e))
    BY <2>2, <2>5, LeavesMore
  <2>7. WithoutEchoes(list, Append(es, e)) = Removed(left, e)
    BY LeftAppend
  <2>8. Append(es, e) \in Seq(Plain)
    OBVIOUS
  <2> QED BY <2>1, <2>6, <2>7, <2>8
<1> HIDE DEF T
<1>3. \A es \in Seq(Plain) : es \in T
  BY <1>1, <1>2, SeqInduction
<1> QED BY <1>3 DEF T

-----------------------------------------------------------------------------
(* The types of what the list is made of.                                  *)

\* Whatever is taken out, events are left.
LEMMA LeftTyped ==
  ASSUME NEW list \in Seq(Plain)
  PROVE  \A events \in Seq(Plain) : WithoutEchoes(list, events) \in Seq(Plain)
<1> DEFINE T == {es \in Seq(Plain) : WithoutEchoes(list, es) \in Seq(Plain)}
<1>1. <<>> \in T
  <2>1. <<>> \in Seq(Plain)
    OBVIOUS
  <2> QED BY <2>1, LeftEmpty
<1>2. \A es \in Seq(Plain), e \in Plain : es \in T => Append(es, e) \in T
  <2> SUFFICES ASSUME NEW es \in Seq(Plain), NEW e \in Plain, WithoutEchoes(list, es) \in Seq(Plain)
               PROVE  /\ Append(es, e) \in Seq(Plain)
                      /\ WithoutEchoes(list, Append(es, e)) \in Seq(Plain)
    OBVIOUS
  <2> PICK left : left = WithoutEchoes(list, es)
    OBVIOUS
  <2>1. WithoutEchoes(list, Append(es, e)) = Removed(left, e)
    BY LeftAppend
  <2>2. left \in Seq(Plain) /\ Append(es, e) \in Seq(Plain)
    OBVIOUS
  <2>3. Removed(left, e) = left \/ \E i \in 1 .. Len(left) : Removed(left, e) = RemoveAt(left, i)
    BY <2>2, RemovedIs
  <2>4. \A i \in 1 .. Len(left) : RemoveAt(left, i) \in Seq(Plain)
    BY <2>2, TakenOut
  <2> QED BY <2>1, <2>2, <2>3, <2>4
<1> HIDE DEF T
<1>3. \A es \in Seq(Plain) : es \in T
  BY <1>1, <1>2, SeqInduction
<1> QED BY <1>3 DEF T

\* Events that are none of our messages take nothing out.
LEMMA LeftAll ==
  ASSUME NEW list \in Seq(Plain)
  PROVE  \A events \in Seq(Plain) :
           (\A i \in DOMAIN events : events[i].txn = NULL) => WithoutEchoes(list, events) = list
<1> DEFINE T == {es \in Seq(Plain) :
                   (\A i \in DOMAIN es : es[i].txn = NULL) => WithoutEchoes(list, es) = list}
<1>1. <<>> \in T
  <2>1. <<>> \in Seq(Plain)
    OBVIOUS
  <2> QED BY <2>1, LeftEmpty
<1>2. \A es \in Seq(Plain), e \in Plain : es \in T => Append(es, e) \in T
  <2> SUFFICES ASSUME NEW es \in Seq(Plain), NEW e \in Plain, es \in T
               PROVE  /\ Append(es, e) \in Seq(Plain)
                      /\ (\A i \in DOMAIN Append(es, e) : Append(es, e)[i].txn = NULL) =>
                           WithoutEchoes(list, Append(es, e)) = list
    OBVIOUS
  <2> SUFFICES ASSUME \A i \in DOMAIN Append(es, e) : Append(es, e)[i].txn = NULL
               PROVE  WithoutEchoes(list, Append(es, e)) = list
    OBVIOUS
  <2>1. /\ \A i \in DOMAIN es : i \in DOMAIN Append(es, e) /\ Append(es, e)[i] = es[i]
        /\ Len(es) + 1 \in DOMAIN Append(es, e) /\ Append(es, e)[Len(es) + 1] = e
    OBVIOUS
  <2>2. e.txn = NULL /\ WithoutEchoes(list, es) = list
    BY <2>1
  <2>3. WithoutEchoes(list, Append(es, e)) = Removed(list, e)
    BY <2>2, LeftAppend
  <2>4. Removed(list, e) = list
    BY <2>2 DEF Removed
  <2> QED BY <2>3, <2>4
<1> HIDE DEF T
<1>3. \A es \in Seq(Plain) : es \in T
  BY <1>1, <1>2, SeqInduction
<1> QED BY <1>3 DEF T

\* A list backwards
LEMMA Backwards ==
  ASSUME NEW s \in Seq(Plain)
  PROVE  /\ Reverse(s) \in Seq(Plain) /\ Len(Reverse(s)) = Len(s) /\ DOMAIN Reverse(s) = DOMAIN s
         /\ \A i \in 1 .. Len(s) : Reverse(s)[i] = s[Len(s) - i + 1]
         /\ Reverse(Reverse(s)) = s
<1>1. \A t \in Seq(Plain) :
        /\ Reverse(t) \in Seq(Plain) /\ Len(Reverse(t)) = Len(t) /\ DOMAIN Reverse(t) = DOMAIN t
        /\ \A i \in 1 .. Len(t) : Reverse(t)[i] = t[Len(t) - i + 1]
  BY DEF Reverse
<1> PICK r : r = Reverse(s)
  OBVIOUS
<1>2. r \in Seq(Plain) /\ Len(r) = Len(s) /\ \A i \in 1 .. Len(s) : r[i] = s[Len(s) - i + 1]
  BY <1>1
<1> PICK b : b = Reverse(r)
  OBVIOUS
<1>3. b \in Seq(Plain) /\ Len(b) = Len(s) /\ \A i \in 1 .. Len(s) : b[i] = r[Len(s) - i + 1]
  BY <1>1, <1>2
<1>4. \A i \in 1 .. Len(s) : Len(s) - i + 1 \in 1 .. Len(s) /\ Len(s) - (Len(s) - i + 1) + 1 = i
  OBVIOUS
<1>5. \A i \in 1 .. Len(s) : b[i] = s[i]
  BY <1>2, <1>3, <1>4
<1>6. b = s
  BY <1>3, <1>5, SameSeq
<1> QED BY <1>1, <1>6

\* What the last event does not stand for is in the page.
LEMMA NotLastTyped ==
  ASSUME NEW list \in Seq(Plain), NEW events \in Seq(Plain)
  PROVE  NotLast(list, events) \in Seq(Plain)
BY PickedConcat DEF NotLast

\* What is shown are events.
LEMMA ShownTyped ==
  ASSUME NEW list \in Seq(Plain), NEW events \in Seq(Plain), NEW append
  PROVE  Shown(list, events, append) \in Seq(Plain)
<1> PICK new : new = NotLast(list, events)
  OBVIOUS
<1>1. new \in Seq(Plain)
  BY NotLastTyped
<1>2. Reverse(new) \in Seq(Plain)
  BY <1>1, Backwards
<1>3. list \o new \in Seq(Plain) /\ Reverse(new) \o list \in Seq(Plain)
  BY <1>1, <1>2, ConcatIs
<1> QED BY <1>3 DEF Shown
-----------------------------------------------------------------------------
(* Finite sets of numbers, and of rows.                                    *)

\* A finite set that is not empty has a greatest and a least number, by induction on
\* how many there are.
LEMMA Extremes ==
  ASSUME NEW T \in SUBSET Int, IsFiniteSet(T), T # {}
  PROVE  /\ Max(T) \in T /\ \A y \in T : Max(T) >= y
         /\ Min(T) \in T /\ \A y \in T : Min(T) <= y
<1> DEFINE Has(S) == /\ \E x \in S : \A y \in S : x >= y
                     /\ \E x \in S : \A y \in S : x <= y
           P == {n \in Nat : \A S \in SUBSET T : Cardinality(S) = n + 1 => Has(S)}
<1>1. \A S \in SUBSET T : IsFiniteSet(S) /\ Cardinality(S) \in Nat
  BY FS_Subset, FS_CardinalityType
<1>2. \A S \in SUBSET T : \A x \in S : Cardinality(S \ {x}) = Cardinality(S) - 1
  BY <1>1, FS_RemoveElement
<1>3. \A S \in SUBSET T : Cardinality(S) = 0 <=> S = {}
  BY <1>1, FS_EmptySet
<1>4. 0 \in P
  <2> SUFFICES ASSUME NEW S \in SUBSET T, Cardinality(S) = 1 PROVE Has(S)
    OBVIOUS
  <2>1. PICK x : x \in S
    BY <1>3
  <2>2. S \ {x} \in SUBSET T /\ Cardinality(S \ {x}) = 0
    BY <1>2, <2>1
  <2>3. S = {x} /\ x \in Int
    BY <1>3, <2>1, <2>2
  <2> QED BY <2>3
<1>5. ASSUME NEW n \in Nat, n \in P
      PROVE  n + 1 \in P
  <2> SUFFICES ASSUME NEW S \in SUBSET T, Cardinality(S) = n + 2 PROVE Has(S)
    OBVIOUS
  <2>1. PICK x : x \in S
    BY <1>3
  <2> PICK R : R = S \ {x}
    OBVIOUS
  <2>2. R \in SUBSET T /\ Cardinality(R) = n + 1
    BY <1>2, <2>1
  <2>3. Has(R)
    BY <1>5, <2>2
  <2>4. PICK m1, m2 : m1 \in R /\ m2 \in R /\ (\A y \in R : m1 >= y) /\ (\A y \in R : m2 <= y)
    BY <2>3
  <2>5. S = R \cup {x} /\ x \in Int /\ m1 \in Int /\ m2 \in Int /\ R \subseteq Int
    BY <2>1, <2>2, <2>4
  <2>6. \E z \in S : \A y \in S : z >= y
    <3>1. CASE x >= m1
      BY <2>4, <2>5, <3>1
    <3>2. CASE ~(x >= m1)
      BY <2>4, <2>5, <3>2
    <3> QED BY <3>1, <3>2
  <2>7. \E z \in S : \A y \in S : z <= y
    <3>1. CASE x <= m2
      BY <2>4, <2>5, <3>1
    <3>2. CASE ~(x <= m2)
      BY <2>4, <2>5, <3>2
    <3> QED BY <3>1, <3>2
  <2> QED BY <2>6, <2>7
<1> HIDE DEF P
<1>6. \A n \in Nat : n \in P
  BY <1>4, <1>5, Induction
<1>7. Has(T)
  <2>1. Cardinality(T) \in Nat /\ Cardinality(T) # 0 /\ T \in SUBSET T
    BY <1>1, <1>3
  <2>2. Cardinality(T) - 1 \in P
    BY <1>6, <2>1
  <2>3. Cardinality(T) = (Cardinality(T) - 1) + 1
    BY <2>1
  <2> QED BY <2>1, <2>2, <2>3 DEF P
<1> QED BY <1>7 DEF Max, Min

-----------------------------------------------------------------------------
(* One more event in the tables.                                           *)

\* The tables but that of the events
Same(d, e) ==
  /\ DOMAIN e = DOMAIN d /\ DOMAIN e.events = DOMAIN d.events
  /\ e.account = d.account /\ e.rooms = d.rooms /\ e.replaced = d.replaced
  /\ e.state = d.state /\ e.prev_batch = d.prev_batch /\ e.next_batch = d.next_batch
  /\ e.cache = d.cache

\* The rows but the echo of a message
But(rows, txn) == {row \in rows : ~(txn # NULL /\ row.event.txn = txn /\ row.event.uid = NULL)}

\* A row that keeps an event out
Stands(rows, e) ==
  \/ e.uid # NULL /\ \E row \in rows : row.event.uid = e.uid
  \/ e.txn # NULL /\ \E row \in rows : row.event.txn = e.txn

\* What an event makes of the rows
Entered(rows, e, sorted, new) ==
  IF Stands(But(rows, e.txn), e) THEN new = But(rows, e.txn)
  ELSE \E row : /\ new = But(rows, e.txn) \cup {row}
                /\ row.event = e /\ row.sorted_id = sorted

\* An event that replaces none, in a room where none is awaited: the echo goes, and
\* the event gets its row unless there is one (db_add_room_events()).
LEMMA AddEventIs ==
  ASSUME NEW d, Shape(d), d.cache[room] = {}, NEW e \in Plain, NEW sorted,
         NEW a, a = AddEvent(d, room, e, sorted)
  PROVE  /\ Same(d, a)
         /\ Entered(d.events[room], e, sorted, a.events[room])
<1>1. PICK known : known = WithMember(d, room, e.sender)
  OBVIOUS
<1>2. Same(d, known) /\ known.events = d.events
  BY <1>1 DEF WithMember, WithUsers, Same, Shape, NoTables
<1>3. PICK but : but = WithoutEcho(known, room, e.txn)
  OBVIOUS
<1>4. DOMAIN known = DOMAIN NoTables /\ room \in DOMAIN known.events
  BY <1>2 DEF Same, Shape
<1>5. Same(known, but) /\ but.events[room] = But(known.events[room], e.txn)
  BY <1>3, <1>4 DEF WithoutEcho, Same, But, NoTables
<1>6. e.replaces = NULL
  BY DEF Plain
<1>7. WithCached(but, room, e) = but
  BY <1>6 DEF WithCached, Awaits
<1>8. but.cache[room] = {}
  BY <1>2, <1>5 DEF Same
<1>9. \A t : t.cache[room] = {} => Linked(t, room, e) = t
  BY DEF Linked
<1>10. Conflicts(but, room, e) \/ Refused(but, room, e) <=> Stands(but.events[room], e)
  BY DEF Conflicts, Refused, RowsOf, Stands
<1>11. PICK more : more = Inserted(but, room, e, FindMember(d, room, e.sender), sorted)
  OBVIOUS
<1>12. DOMAIN but = DOMAIN NoTables /\ room \in DOMAIN but.events
  BY <1>4, <1>5 DEF Same
<1>13. Same(but, more)
  BY <1>11, <1>12 DEF Inserted, Same, NoTables
<1>14. \E row : /\ more.events[room] = but.events[room] \cup {row}
                /\ row.event = e /\ row.sorted_id = sorted
  <2> PICK row : row =
        [ id |-> NextId(but), sorted_id |-> sorted, event |-> e,
          sender_id |-> FindMember(d, room, e.sender),
          replaces_id |-> IF e.replaces = NULL THEN 0 ELSE IdOf(but, room, e.replaces),
          cache_id |-> IF Awaits(but, room, e) THEN e.replaces ELSE NULL ]
    OBVIOUS
  <2>1. row.event = e /\ row.sorted_id = sorted
    OBVIOUS
  <2>2. more = [but EXCEPT !.events[room] = @ \cup {row}, !.last_id = NextId(but)]
    BY <1>11 DEF Inserted
  <2>3. more.events[room] = but.events[room] \cup {row}
    BY <1>12, <2>2 DEF NoTables
  <2> QED BY <2>1, <2>3
<1>15. more.cache[room] = {}
  BY <1>8, <1>13 DEF Same
<1>16. a = IF Conflicts(but, room, e) THEN Linked(but, room, e)
           ELSE IF Refused(but, room, e) THEN but ELSE Linked(more, room, e)
  BY <1>1, <1>3, <1>7, <1>11 DEF AddEvent
<1>17. a = IF Stands(but.events[room], e) THEN but ELSE more
  BY <1>8, <1>9, <1>10, <1>15, <1>16
<1>18. but.events[room] = But(d.events[room], e.txn) /\ Same(d, but) /\ Same(d, more)
  BY <1>2, <1>5, <1>13 DEF Same
<1> QED BY <1>14, <1>17, <1>18 DEF Entered
\* One step of EventsAdded
EventsNext(f, d, events, first, step, n) ==
  IF n = 0 THEN d ELSE AddEvent(f[n - 1], room, events[n], first + (n - 1) * step)

\* f[n] are the tables with the first n of the events.
AreTables(f, d, events, first, step, k) ==
  f = [n \in 0 .. k |-> EventsNext(f, d, events, first, step, n)]

\* Step after step there are tables with k more events.
LEMMA EventsExist ==
  ASSUME NEW d, NEW events, NEW first, NEW step, NEW k \in Nat
  PROVE  \E f : AreTables(f, d, events, first, step, k)
<1> DEFINE T == {i \in Nat : \E f : f = [n \in 0 .. i |-> EventsNext(f, d, events, first, step, n)]}
<1>1. 0 \in T
  <2> DEFINE g == [n \in 0 .. 0 |-> d]
  <2>1. \A n \in 0 .. 0 : EventsNext(g, d, events, first, step, n) = d
    BY DEF EventsNext
  <2>2. g = [n \in 0 .. 0 |-> EventsNext(g, d, events, first, step, n)]
    BY <2>1
  <2> QED BY <2>2
<1>2. ASSUME NEW i \in Nat, i \in T
      PROVE  i + 1 \in T
  <2>1. PICK f : f = [n \in 0 .. i |-> EventsNext(f, d, events, first, step, n)]
    BY <1>2
  <2> DEFINE last == AddEvent(f[i], room, events[i + 1], first + i * step)
             g == [n \in 0 .. (i + 1) |-> IF n = i + 1 THEN last ELSE f[n]]
  <2>2. \A n \in 0 .. i : g[n] = f[n]
    OBVIOUS
  <2>3. g[i + 1] = EventsNext(g, d, events, first, step, i + 1)
    <3>1. i + 1 # 0 /\ (i + 1) - 1 = i /\ i \in 0 .. i /\ i + 1 \in 0 .. (i + 1)
      OBVIOUS
    <3>2. g[i + 1] = last /\ g[i] = f[i]
      BY <2>2, <3>1
    <3> HIDE DEF g
    <3> QED BY <3>1, <3>2, Zenon DEF EventsNext
  <2>4. ASSUME NEW n \in 0 .. i
        PROVE  g[n] = EventsNext(g, d, events, first, step, n)
    <3>1. f[n] = EventsNext(f, d, events, first, step, n)
      BY <2>1
    <3>2. n # 0 => g[n - 1] = f[n - 1]
      BY <2>2
    <3> HIDE DEF g
    <3>3. g[n] = f[n]
      BY <2>2
    <3> QED BY <3>1, <3>2, <3>3, Zenon DEF EventsNext
  <2>5. DOMAIN g = 0 .. (i + 1) /\ \A n \in 0 .. (i + 1) : n \in 0 .. i \/ n = i + 1
    OBVIOUS
  <2>6. \A n \in 0 .. (i + 1) : g[n] = EventsNext(g, d, events, first, step, n)
    BY <2>3, <2>4, <2>5
  <2>7. g = [n \in 0 .. (i + 1) |-> g[n]]
    OBVIOUS
  <2> HIDE DEF g
  <2>8. g = [n \in 0 .. (i + 1) |-> EventsNext(g, d, events, first, step, n)]
    BY <2>6, <2>7
  <2> QED BY <2>8
<1> HIDE DEF T
<1>3. \A i \in Nat : i \in T
  BY <1>1, <1>2, Induction
<1> QED BY <1>3 DEF T, AreTables

\* R[k] are the rows with the first k of the events.
RowsAre(R, rows, events, first, step) ==
  /\ R[0] = rows
  /\ \A k \in 0 .. Len(events) - 1 : Entered(R[k], events[k + 1], first + k * step, R[k + 1])

\* The events enter the rows one after the other, and nothing else changes.
LEMMA EventsAddedIs ==
  ASSUME NEW d, Shape(d), d.cache[room] = {}, NEW events \in Seq(Plain), NEW prepend \in BOOLEAN,
         NEW a, a = EventsAdded(d, room, events, prepend)
  PROVE  /\ Same(d, a)
         /\ \E R : /\ RowsAre(R, d.events[room], events, FirstPlace(d, room, prepend),
                              IF prepend THEN -1 ELSE 1)
                   /\ R[Len(events)] = a.events[room]
<1>1. Len(events) \in Nat /\ \A k \in 1 .. Len(events) : events[k] \in Plain
  OBVIOUS
<1> PICK first : first = FirstPlace(d, room, prepend)
  OBVIOUS
<1> PICK step : step = IF prepend THEN -1 ELSE 1
  OBVIOUS
<1> DEFINE f == CHOOSE g : g = [n \in 0 .. Len(events) |-> EventsNext(g, d, events, first, step, n)]
<1>2. \E g : AreTables(g, d, events, first, step, Len(events))
  BY <1>1, EventsExist
<1>3. f = [n \in 0 .. Len(events) |-> EventsNext(f, d, events, first, step, n)]
  BY <1>2 DEF AreTables
<1>4. a = f[Len(events)]
  BY DEF EventsAdded, EventsNext
<1> HIDE DEF f
<1>5. f[0] = d
  BY <1>1, <1>3 DEF EventsNext
<1>6. ASSUME NEW k \in Nat, k + 1 <= Len(events)
      PROVE  f[k + 1] = AddEvent(f[k], room, events[k + 1], first + k * step)
  <2>1. k + 1 \in 0 .. Len(events) /\ k + 1 # 0 /\ (k + 1) - 1 = k
    BY <1>1, <1>6
  <2>2. f[k + 1] = EventsNext(f, d, events, first, step, k + 1)
    BY <1>3, <2>1
  <2> QED BY <2>1, <2>2, Zenon DEF EventsNext
<1>7. ASSUME NEW k \in Nat, k + 1 <= Len(events), Same(d, f[k])
      PROVE  /\ Same(d, f[k + 1])
             /\ Entered(f[k].events[room], events[k + 1], first + k * step, f[k + 1].events[room])
  <2>1. Shape(f[k]) /\ f[k].cache[room] = {}
    BY <1>7 DEF Same, Shape
  <2>2. events[k + 1] \in Plain
    BY <1>1, <1>7
  <2> PICK s : s = first + k * step
    OBVIOUS
  <2>3. f[k + 1] = AddEvent(f[k], room, events[k + 1], s)
    BY <1>6, <1>7
  <2>4. Same(f[k], f[k + 1]) /\ Entered(f[k].events[room], events[k + 1], s, f[k + 1].events[room])
    BY <2>1, <2>2, <2>3, AddEventIs
  <2> QED BY <1>7, <2>4 DEF Same
<1> DEFINE T == {k \in Nat : k <= Len(events) => Same(d, f[k])}
<1>8. 0 \in T
  BY <1>5 DEF Same
<1>9. ASSUME NEW k \in Nat, k \in T
      PROVE  k + 1 \in T
  BY <1>1, <1>7, <1>9
<1> HIDE DEF T
<1>10. \A k \in Nat : k \in T
  BY <1>8, <1>9, Induction
<1>11. \A k \in Nat : k <= Len(events) => Same(d, f[k])
  BY <1>10 DEF T
<1>12. Same(d, a)
  BY <1>1, <1>4, <1>11
<1> PICK R : R = [k \in 0 .. Len(events) |-> f[k].events[room]]
  OBVIOUS
<1>13. \A k \in 0 .. Len(events) : R[k] = f[k].events[room]
  OBVIOUS
<1>14. R[0] = d.events[room] /\ R[Len(events)] = a.events[room]
  BY <1>1, <1>4, <1>5, <1>13
<1>15. ASSUME NEW k \in 0 .. Len(events) - 1
       PROVE  Entered(R[k], events[k + 1], first + k * step, R[k + 1])
  <2>1. k \in Nat /\ k + 1 <= Len(events) /\ k \in 0 .. Len(events) /\ k + 1 \in 0 .. Len(events)
    BY <1>1
  <2>2. Same(d, f[k])
    BY <1>11, <2>1
  <2> QED BY <1>7, <1>13, <2>1, <2>2
<1>16. RowsAre(R, d.events[room], events, first, step)
  BY <1>14, <1>15 DEF RowsAre
<1> QED BY <1>12, <1>14, <1>16

\* One event more, at a place that is free
LEMMA EnteredTyped ==
  ASSUME NEW rows, IsRows(rows), NEW e \in Plain, NEW sorted \in Int, NEW new,
         Entered(rows, e, sorted, new), \A row \in rows : row.sorted_id # sorted
  PROVE  /\ IsRows(new)
         /\ \A row \in new : row \in rows \/ (row.sorted_id = sorted /\ row.event = e)
<1>1. But(rows, e.txn) \subseteq rows
  BY DEF But
<1>2. IsFiniteSet(But(rows, e.txn))
  BY <1>1, FS_Subset DEF IsRows
<1>3. CASE new = But(rows, e.txn)
  BY <1>1, <1>2, <1>3 DEF IsRows
<1>4. ASSUME NEW row, new = But(rows, e.txn) \cup {row}, row.event = e, row.sorted_id = sorted
      PROVE  /\ IsRows(new)
             /\ \A x \in new : x \in rows \/ (x.sorted_id = sorted /\ x.event = e)
  <2>1. IsFiniteSet(new)
    BY <1>2, <1>4, FS_AddElement
  <2> QED BY <1>1, <1>4, <2>1 DEF IsRows
<1> QED BY <1>3, <1>4 DEF Entered

\* The first place is free, and so are those that follow.
LEMMA FirstPlaceIs ==
  ASSUME NEW d, IsRows(d.events[room]), NEW prepend \in BOOLEAN
  PROVE  /\ FirstPlace(d, room, prepend) \in Int
         /\ \A row \in d.events[room] : IF prepend THEN FirstPlace(d, room, prepend) < row.sorted_id
                                        ELSE FirstPlace(d, room, prepend) > row.sorted_id
<1> PICK rows : rows = d.events[room]
  OBVIOUS
<1> PICK ids : ids = {row.sorted_id : row \in rows}
  OBVIOUS
<1>1. CASE rows = {}
  BY <1>1 DEF FirstPlace
<1>2. CASE rows # {}
  <2>1. ids \in SUBSET Int /\ ids # {}
    BY <1>2 DEF IsRows
  <2>2. IsFiniteSet(ids)
    <3> PICK f : f = [row \in rows |-> row.sorted_id]
      OBVIOUS
    <3>1. f \in Surjection(rows, ids)
      BY DEF Surjection
    <3> QED BY <3>1, FS_Surjection DEF IsRows
  <2>3. /\ Max(ids) \in ids /\ \A y \in ids : Max(ids) >= y
        /\ Min(ids) \in ids /\ \A y \in ids : Min(ids) <= y
    BY <2>1, <2>2, Extremes
  <2>4. FirstPlace(d, room, prepend) = IF prepend THEN Min(ids) - 1 ELSE Max(ids) + 1
    BY <1>2 DEF FirstPlace, FirstId, LastId
  <2>5. \A row \in rows : row.sorted_id \in ids
    OBVIOUS
  <2> HIDE DEF IsRows
  <2> PICK lo, hi : lo = Min(ids) /\ hi = Max(ids)
    OBVIOUS
  <2>6. /\ lo \in Int /\ hi \in Int
        /\ \A row \in rows : /\ row.sorted_id \in Int
                              /\ lo <= row.sorted_id /\ hi >= row.sorted_id
    BY <2>1, <2>3, <2>5
  <2>7. FirstPlace(d, room, prepend) = IF prepend THEN lo - 1 ELSE hi + 1
    BY <2>4
  <2> PICK first : first = FirstPlace(d, room, prepend)
    OBVIOUS
  <2>8. first \in Int /\ \A row \in rows : IF prepend THEN first < row.sorted_id
                                          ELSE first > row.sorted_id
    <3>1. CASE prepend
      <4>1. first = lo - 1
        BY <2>7, <3>1
      <4>2. first \in Int
        BY <2>6, <4>1
      <4>3. ASSUME NEW row \in rows PROVE first < row.sorted_id
        <5>1. row.sorted_id \in Int /\ lo <= row.sorted_id
          BY <2>6
        <5> QED BY <2>6, <4>1, <5>1
      <4> QED BY <3>1, <4>2, <4>3
    <3>2. CASE ~prepend
      <4>1. first = hi + 1
        BY <2>7, <3>2
      <4>2. first \in Int
        BY <2>6, <4>1
      <4>3. ASSUME NEW row \in rows PROVE first > row.sorted_id
        <5>1. row.sorted_id \in Int /\ hi >= row.sorted_id
          BY <2>6
        <5> QED BY <2>6, <4>1, <5>1
      <4> QED BY <3>2, <4>2, <4>3
    <3> QED BY <3>1, <3>2
  <2> QED BY <2>8
<1> QED BY <1>1, <1>2

\* Every event that enters finds a place of its own.
LEMMA RowsTyped ==
  ASSUME NEW R, NEW rows, NEW events \in Seq(Plain), NEW first \in Int, NEW prepend \in BOOLEAN,
         RowsAre(R, rows, events, first, IF prepend THEN -1 ELSE 1), IsRows(rows),
         \A row \in rows : IF prepend THEN first < row.sorted_id ELSE first > row.sorted_id
  PROVE  \A k \in 0 .. Len(events) :
           /\ IsRows(R[k])
           /\ \A row \in R[k] : IF prepend THEN first - k < row.sorted_id
                                ELSE first + k > row.sorted_id
<1> DEFINE Free(k) == \A row \in R[k] : IF prepend THEN first - k < row.sorted_id
                                        ELSE first + k > row.sorted_id
           T == {k \in Nat : k <= Len(events) => IsRows(R[k]) /\ Free(k)}
<1>1. Len(events) \in Nat /\ \A k \in 1 .. Len(events) : events[k] \in Plain
  OBVIOUS
<1>2. 0 \in T
  <2>1. R[0] = rows
    BY DEF RowsAre
  <2>2. Free(0)
    BY <2>1
  <2> QED BY <2>1, <2>2
<1>3. ASSUME NEW k \in Nat, k \in T
      PROVE  k + 1 \in T
  <2> SUFFICES ASSUME k + 1 <= Len(events) PROVE IsRows(R[k + 1]) /\ Free(k + 1)
    OBVIOUS
  <2>1. k \in 0 .. Len(events) - 1 /\ k + 1 \in 1 .. Len(events)
    BY <1>1
  <2>2. IsRows(R[k]) /\ Free(k)
    BY <1>1, <1>3
  <2> PICK s : s = first + k * (IF prepend THEN -1 ELSE 1)
    OBVIOUS
  <2>3. s = (IF prepend THEN first - k ELSE first + k) /\ s \in Int
    OBVIOUS
  <2>4. Entered(R[k], events[k + 1], s, R[k + 1])
    BY <2>1 DEF RowsAre
  <2>5. \A row \in R[k] : row.sorted_id \in Int /\ row.sorted_id # s
    BY <2>2, <2>3 DEF IsRows
  <2>6. /\ IsRows(R[k + 1])
        /\ \A row \in R[k + 1] : row \in R[k] \/ (row.sorted_id = s /\ row.event = events[k + 1])
    BY <1>1, <2>1, <2>2, <2>3, <2>4, <2>5, EnteredTyped
  <2>7. Free(k + 1)
    BY <2>2, <2>3, <2>5, <2>6
  <2> QED BY <2>6, <2>7
<1> HIDE DEF T
<1>4. \A k \in Nat : k \in T
  BY <1>2, <1>3, Induction
<1> QED BY <1>1, <1>4 DEF T

-----------------------------------------------------------------------------
(* The rows one after the other.                                           *)

\* Of a finite set of rows at places of their own, there is one for each number of
\* rows after it.  By induction on the number of rows: the first one goes last.
LEMMA NthExists ==
  ASSUME NEW rows, IsRows(rows)
  PROVE  \A n \in 0 .. Cardinality(rows) - 1 :
           \E row \in rows : Cardinality({x \in rows : x.sorted_id > row.sorted_id}) = n
<1> DEFINE After(S, row) == {x \in S : x.sorted_id > row.sorted_id}
           P == {c \in Nat : \A S \in SUBSET rows : Cardinality(S) = c =>
                   \A n \in 0 .. c - 1 : \E row \in S : Cardinality(After(S, row)) = n}
<1>1. \A S \in SUBSET rows : IsFiniteSet(S) /\ Cardinality(S) \in Nat
  BY FS_Subset, FS_CardinalityType DEF IsRows
<1>2. 0 \in P
  OBVIOUS
<1>3. ASSUME NEW c \in Nat, c \in P
      PROVE  c + 1 \in P
  <2> SUFFICES \A S \in SUBSET rows : Cardinality(S) = c + 1 =>
                 \A n \in 0 .. (c + 1) - 1 : \E row \in S : Cardinality(After(S, row)) = n
    <3> HIDE DEF After
    <3> QED OBVIOUS
  <2> SUFFICES ASSUME NEW S \in SUBSET rows, Cardinality(S) = c + 1,
                      NEW n \in 0 .. (c + 1) - 1
               PROVE  \E row \in S : Cardinality(After(S, row)) = n
    <3> HIDE DEF After
    <3> QED OBVIOUS
  <2>1. IsFiniteSet(S) /\ S # {}
    BY <1>1, FS_EmptySet
  <2> PICK ids : ids = {row.sorted_id : row \in S}
    OBVIOUS
  <2>2. ids \in SUBSET Int /\ ids # {} /\ IsFiniteSet(ids)
    <3> PICK f : f = [row \in S |-> row.sorted_id]
      OBVIOUS
    <3>1. f \in Surjection(S, ids)
      BY DEF Surjection
    <3>2. IsFiniteSet(ids)
      BY <2>1, <3>1, FS_Surjection
    <3> QED BY <2>1, <3>2 DEF IsRows
  <2>3. Min(ids) \in ids /\ \A y \in ids : Min(ids) <= y
    BY <2>2, Extremes
  <2>4. PICK z \in S : z.sorted_id = Min(ids)
    BY <2>3
  <2> PICK Q : Q = S \ {z}
    OBVIOUS
  <2>5. Q \in SUBSET rows /\ Cardinality(Q) = c
    <3>1. Cardinality(S \ {z}) = Cardinality(S) - 1
      BY <2>1, FS_RemoveElement
    <3> QED BY <3>1
  <2>6. \A row \in S : row.sorted_id \in Int /\ z.sorted_id <= row.sorted_id
                      /\ (row # z => row.sorted_id > z.sorted_id)
    <3> SUFFICES ASSUME NEW row \in S PROVE row.sorted_id \in Int /\ z.sorted_id <= row.sorted_id
                      /\ (row # z => row.sorted_id > z.sorted_id)
      OBVIOUS
    <3>1. row.sorted_id \in ids /\ row.sorted_id \in Int /\ z.sorted_id \in Int
      BY <2>2, <2>4
    <3>2. z.sorted_id <= row.sorted_id
      BY <2>3, <2>4, <3>1
    <3>3. row # z => row.sorted_id # z.sorted_id
      BY DEF IsRows
    <3> QED BY <3>1, <3>2, <3>3
  <2>7. CASE n = c
    <3>1. After(S, z) = Q
      BY <2>4, <2>6
    <3> QED BY <2>4, <2>5, <2>7, <3>1
  <2>8. CASE n # c
    <3>1. n \in 0 .. c - 1
      BY <2>8
    <3>2. PICK row \in Q : Cardinality(After(Q, row)) = n
      BY <1>3, <2>5, <3>1
    <3>3. After(S, row) = After(Q, row)
      BY <2>6, <3>2
    <3> QED BY <3>2, <3>3
  <2> QED BY <2>7, <2>8
<1> HIDE DEF P
<1>4. \A c \in Nat : c \in P
  BY <1>2, <1>3, Induction
<1>5. Cardinality(rows) \in Nat /\ rows \in SUBSET rows
  BY <1>1
<1>6. Cardinality(rows) \in P
  BY <1>4, <1>5
<1> QED BY <1>5, <1>6 DEF P
Newer(rows, row) == {x \in rows : x.sorted_id > row.sorted_id}
OlderMessages(rows, sorted) == {row \in rows : row.sorted_id <= sorted /\ row.event.message}

NthOf(rows, n) == CHOOSE row \in rows : Cardinality(Newer(rows, row)) = n - 1
Page(rows, first) ==
  [i \in 1 .. Min({Cardinality(rows), PageSize}) - first |-> NthOf(rows, first + i).event]

\* A page of the messages from a place on, the newest first
LEMMA PastEventsAre ==
  ASSUME NEW d, IsRows(d.events[room]), NEW sorted \in Int, NEW skip \in BOOLEAN,
         NEW older, older = OlderMessages(d.events[room], sorted),
         NEW past, past = PastEvents(d, room, sorted, skip),
         NEW first, first = IF skip THEN 1 ELSE 0,
         NEW size, size = IF Cardinality(older) <= PageSize THEN Cardinality(older) ELSE PageSize
  PROVE  /\ IsRows(older) /\ Cardinality(older) \in Nat /\ past \in Seq(Plain)
         /\ Len(past) = IF first <= size THEN size - first ELSE 0
         /\ \A i \in 1 .. Len(past) : \E row \in older :
              past[i] = row.event /\ Cardinality(Newer(older, row)) = first + i - 1
<1>1. older \subseteq d.events[room]
  BY DEF OlderMessages
<1>2. IsFiniteSet(older)
  BY <1>1, FS_Subset DEF IsRows
<1>3. IsRows(older)
  BY <1>1, <1>2 DEF IsRows
<1>4. Cardinality(older) \in Nat /\ PageSize \in Nat
  BY <1>2, FS_CardinalityType, BoundsAssumption
<1>5. Min({Cardinality(older), PageSize}) = size /\ size \in Nat /\ size <= Cardinality(older)
  BY <1>4 DEF Min
<1> DEFINE Nth(n) == NthOf(older, n)
<1>6. past = [i \in 1 .. size - first |-> Nth(first + i).event]
  <2>1. PastEvents(d, room, sorted, skip) =
          Page(OlderMessages(d.events[room], sorted), IF skip THEN 1 ELSE 0)
    BY DEF PastEvents, Page, NthOf, Newer, OlderMessages
  <2>2. past = Page(older, first)
    BY <2>1
  <2> QED BY <1>5, <2>2 DEF Page
<1>7. ASSUME NEW i \in 1 .. size - first
      PROVE  /\ Nth(first + i) \in older
             /\ Cardinality(Newer(older, Nth(first + i))) = first + i - 1
  <2>1. (first + i) - 1 \in 0 .. Cardinality(older) - 1
    BY <1>4, <1>5
  <2>2. \E row \in older :
      Cardinality({x \in older : x.sorted_id > row.sorted_id}) = (first + i) - 1
    BY <1>3, <2>1, NthExists
  <2>3. \E row \in older : Cardinality(Newer(older, row)) = (first + i) - 1
    BY <2>2 DEF Newer
  <2> QED BY <2>3 DEF NthOf
<1> DEFINE len == IF first <= size THEN size - first ELSE 0
<1>8. len \in Nat /\ 1 .. size - first = 1 .. len
  BY <1>5
<1> PICK events : events = [i \in 1 .. len |-> Nth(first + i).event]
  OBVIOUS
<1>9. past = events
  BY <1>6, <1>8
<1>10. \A i \in 1 .. len : Nth(first + i).event \in Plain
  BY <1>3, <1>7, <1>8 DEF IsRows
<1> HIDE DEF Nth
<1>11. events \in Seq(Plain) /\ Len(events) = len /\ \A i \in 1 .. len :
    events[i] = Nth(first + i).event
  BY <1>8, <1>10
<1> QED BY <1>3, <1>4, <1>7, <1>8, <1>9, <1>11

\* The page are events.
LEMMA PastTyped ==
  ASSUME NEW d, IsRows(d.events[room]), NEW sorted \in Int, NEW skip \in BOOLEAN
  PROVE  PastEvents(d, room, sorted, skip) \in Seq(Plain)
<1> PICK past : past = PastEvents(d, room, sorted, skip)
  OBVIOUS
<1> QED BY PastEventsAre

\* The newest event of a page
First(past) == SubSeq(past, 1, Min({1, Len(past)}))

LEMMA FirstIs ==
  ASSUME NEW past \in Seq(Plain)
  PROVE  /\ First(past) \in Seq(Plain) /\ Len(First(past)) <= 1
         /\ Len(First(past)) = IF past = <<>> THEN 0 ELSE 1
         /\ past # <<>> => First(past)[1] = past[1]
<1> PICK n : n = Len(past)
  OBVIOUS
<1>1. n \in Nat /\ (past = <<>> <=> n = 0)
  OBVIOUS
<1> PICK m : m = Min({1, n})
  OBVIOUS
<1>2. m = IF n = 0 THEN 0 ELSE 1
  BY <1>1 DEF Min
<1>3. First(past) = SubSeq(past, 1, m)
  BY DEF First
<1> QED BY <1>1, <1>2, <1>3

\* A page of the database are events.
LEMMA GetPastTyped ==
  ASSUME NEW d, IsRows(d.events[room]), NEW from, NEW run, run = GetPastEvents(d, room, from)
  PROVE  run.db = d /\ run.result \in Seq(Plain)
<1> DEFINE row == IF from = NULL
                  THEN {x \in d.events[room] : x.sorted_id = LastId(d, room)}
                  ELSE RowsOf(d, room, from)
           x == CHOOSE y \in row : TRUE
<1>1. \/ run = Done(d, <<>>)
      \/ row # {} /\ run = Done(d, PastEvents(d, room, x.sorted_id, from # NULL))
  BY DEF GetPastEvents
<1>2. row \subseteq d.events[room]
  BY DEF RowsOf
<1>3. row # {} => x \in d.events[room]
  BY <1>2
<1> HIDE DEF x, row
<1>4. row # {} => x.sorted_id \in Int
  BY <1>3 DEF IsRows
<1>5. row # {} => PastEvents(d, room, x.sorted_id, from # NULL) \in Seq(Plain)
  <2> PICK skip : skip = (from # NULL)
    OBVIOUS
  <2> PICK sorted : sorted = x.sorted_id
    OBVIOUS
  <2>1. skip \in BOOLEAN
    OBVIOUS
  <2> QED BY <1>4, <2>1, PastEventsAre
<1>6. <<>> \in Seq(Plain)
  OBVIOUS
<1>7. \E past \in Seq(Plain) : run = Done(d, past)
  BY <1>1, <1>5, <1>6
<1> QED BY <1>7 DEF Done

\* What is loaded of the room are events.
LEMMA LoadTyped ==
  ASSUME NEW d, NEW h, IsTables(d, h), NEW r, r = LoadRoom(d, room)
  PROVE  /\ r.last \in Seq(Plain) /\ Len(r.last) <= 1
         /\ r.prev_batch \in Tokens(h) /\ r.synced \in BOOLEAN
<1>1. r = [ status |-> d.state[room],
            prev_batch |-> IF d.events[room] = {} THEN d.next_batch ELSE d.prev_batch[room],
            last |-> IF d.events[room] = {} THEN <<>>
                     ELSE LET past == PastEvents(d, room, LastId(d, room), FALSE)
                          IN  SubSeq(past, 1, Min({1, Len(past)})),
            synced |-> room \in d.synced ]
  BY DEF LoadRoom
<1>2. CASE d.events[room] = {}
  BY <1>1, <1>2 DEF IsTables
<1>3. CASE d.events[room] # {}
  <2> PICK ids : ids = {row.sorted_id : row \in d.events[room]}
    OBVIOUS
  <2>1. ids \in SUBSET Int /\ ids # {}
    BY <1>3 DEF IsTables, IsRows
  <2>2. IsFiniteSet(ids)
    <3> PICK f : f = [row \in d.events[room] |-> row.sorted_id]
      OBVIOUS
    <3>1. f \in Surjection(d.events[room], ids)
      BY DEF Surjection
    <3> QED BY <3>1, FS_Surjection DEF IsRows, IsTables
  <2>3. LastId(d, room) \in Int
    BY <2>1, <2>2, Extremes DEF LastId
  <2> PICK sorted : sorted = LastId(d, room)
    OBVIOUS
  <2> PICK past : past = PastEvents(d, room, sorted, FALSE)
    OBVIOUS
  <2>4. past \in Seq(Plain)
    BY <2>3, PastTyped DEF IsTables
  <2>5. /\ First(past) \in Seq(Plain)
        /\ Len(First(past)) <= 1
    BY <2>4, FirstIs
  <2>6. r.last = IF d.events[room] = {} THEN <<>>
                 ELSE First(PastEvents(d, room, LastId(d, room), FALSE))
    BY <1>1 DEF First
  <2>7. r.last = First(past)
    BY <1>3, <2>6
  <2>8. r.prev_batch = d.prev_batch[room] /\ r.synced = (room \in d.synced)
    BY <1>1, <1>3
  <2>9. r.synced \in BOOLEAN
    BY <2>8
  <2>10. d.prev_batch[room] \in Tokens(h)
    BY DEF IsTables
  <2> QED BY <2>5, <2>7, <2>8, <2>9, <2>10
<1> QED BY <1>2, <1>3
-----------------------------------------------------------------------------
(* The state is of its type.                                               *)

\* p is q and one element more.
Longer(p, q, e) ==
  /\ Len(p) = Len(q) + 1 /\ Len(q) \in Nat
  /\ DOMAIN q = 1 .. Len(q) /\ DOMAIN p = 1 .. Len(q) + 1
  /\ \A i \in 1 .. Len(q) : p[i] = q[i]
  /\ p[Len(q) + 1] = e

\* The set S has one element more than T.
Wider(S, T, x) == S = T \cup {x}

\* The history with one more event
LEMMA HistoryGrows ==
  ASSUME NEW h, IsHistory(h), Len(h) < MaxEvents, NEW e \in Plain, e.uid = Len(h) + 1,
         e.txn # NULL => e.message /\ e.txn \notin Txns(h), NEW g, g = Append(h, e)
  PROVE  /\ IsHistory(g) /\ Longer(g, h, e)
         /\ IF e.txn = NULL THEN Txns(g) = Txns(h) ELSE Wider(Txns(g), Txns(h), e.txn)
<1>1. h \in Seq(Plain) /\ Len(h) \in Nat /\ MaxEvents \in Nat
  BY BoundsAssumption DEF IsHistory
<1>2. /\ DOMAIN h = 1 .. Len(h) /\ DOMAIN g = 1 .. Len(h) + 1 /\ Len(g) = Len(h) + 1
      /\ g \in Seq(Plain) /\ g[Len(h) + 1] = e
      /\ \A i \in 1 .. Len(h) : g[i] = h[i]
  BY <1>1
<1>3. \A i \in 1 .. Len(h) + 1 : i \in 1 .. Len(h) \/ i = Len(h) + 1
  BY <1>1
<1>4. Txns(g) = Txns(h) \cup ({e.txn} \ {NULL})
  <2>1. \A i \in 1 .. Len(h) : i \in 1 .. Len(h) + 1
    BY <1>1
  <2>2. Len(h) + 1 \in 1 .. Len(h) + 1
    BY <1>1
  <2> QED BY <1>2, <1>3, <2>1, <2>2 DEF Txns
<1>5. \A i \in DOMAIN h : h[i].txn # NULL => h[i].txn \in Txns(h)
  BY DEF Txns
<1>6. Len(g) <= MaxEvents
  BY <1>1, <1>2
<1>7. \A i \in DOMAIN g : g[i].uid = i /\ (g[i].txn # NULL => g[i].message)
  BY <1>2, <1>3 DEF IsHistory
<1>8. \A i, j \in DOMAIN g : g[i].txn = g[j].txn /\ g[i].txn # NULL => i = j
  BY <1>2, <1>3, <1>5 DEF IsHistory
<1>9. IF e.txn = NULL THEN Txns(g) = Txns(h) ELSE Wider(Txns(g), Txns(h), e.txn)
  <2>1. NULL \notin Txns(h)
    BY DEF Txns
  <2> QED BY <1>4, <2>1 DEF Wider
<1> QED BY <1>1, <1>2, <1>6, <1>7, <1>8, <1>9 DEF IsHistory, Longer

\* What was of its type still is when the history has grown.
LEMMA GrowsTyped ==
  ASSUME NEW h, NEW g, Len(h) \in Nat, Len(g) = Len(h) + 1, Txns(h) \subseteq Txns(g)
  PROVE  /\ \A c : IsClient(c, h) => IsClient(c, g)
         /\ \A s : IsShown(s, h) => IsShown(s, g)
         /\ \A q : IsQueue(q, h) => IsQueue(q, g)
         /\ \A dn : IsDone(dn, h) => IsDone(dn, g)
         /\ \A d : IsTables(d, h) => IsTables(d, g)
<1>1. 0 .. Len(h) \subseteq 0 .. Len(g) /\ Tokens(h) \subseteq Tokens(g)
  BY DEF Tokens
<1>2. SavingTask(h) \subseteq SavingTask(g)
  BY <1>1 DEF SavingTask
<1>3. Echoes(Txn \cap Txns(h)) \subseteq Echoes(Txn \cap Txns(g))
  BY DEF Echoes
<1>4. AddingTask(h) \subseteq AddingTask(g)
  BY <1>3 DEF AddingTask
<1>5. Task(h) \subseteq Task(g)
  BY <1>2, <1>4 DEF Task
<1>6. \A c : IsClient(c, h) => IsClient(c, g)
  BY <1>1 DEF IsClient
<1>7. \A s : IsShown(s, h) => IsShown(s, g)
  BY <1>1 DEF IsShown
<1>8. \A q : IsQueue(q, h) => IsQueue(q, g)
  BY <1>5 DEF IsQueue
<1>9. \A dn : IsDone(dn, h) => IsDone(dn, g)
  BY <1>5 DEF IsDone
<1>10. \A d : IsTables(d, h) => IsTables(d, g)
  BY <1>1 DEF IsTables
<1> QED BY <1>6, <1>7, <1>8, <1>9, <1>10

\* One task more
LEMMA QueuePut ==
  ASSUME NEW h, NEW q, IsQueue(q, h), NEW dn, Alone(q, dn), NEW t \in Task(h), NEW p,
         p = Append(q, t), t.then = "nothing" \/ t.then \notin Thens(q) \cup DoneThens(dn)
  PROVE  IsQueue(p, h) /\ Alone(p, dn) /\ Longer(p, q, t) /\ Wider(Thens(p), Thens(q), t.then)
<1>1. /\ p \in Seq(Task(h)) /\ Len(q) \in Nat /\ Len(p) = Len(q) + 1
      /\ DOMAIN q = 1 .. Len(q) /\ DOMAIN p = 1 .. Len(q) + 1
      /\ \A i \in 1 .. Len(q) : p[i] = q[i]
      /\ p[Len(q) + 1] = t
  BY PutLast DEF IsQueue
<1>2. \A i \in 1 .. Len(q) + 1 : i \in 1 .. Len(q) \/ i = Len(q) + 1
  BY <1>1
<1>3. \A i \in 1 .. Len(q) : i \in 1 .. Len(q) + 1
  BY <1>1
<1>4. Len(q) + 1 \in 1 .. Len(q) + 1
  BY <1>1
<1>5. Thens(p) = Thens(q) \cup {t.then}
  BY <1>1, <1>2, <1>3, <1>4 DEF Thens
<1>6. \A i \in 1 .. Len(q) : q[i].then \in Thens(q)
  BY <1>1 DEF Thens
<1>7. Alone(p, dn)
  <2>1. \A i, j \in DOMAIN p : p[i].then = p[j].then /\ p[i].then # "nothing" => i = j
    BY <1>1, <1>2, <1>6 DEF Alone
  <2>2. Thens(p) \cap DoneThens(dn) = {}
    BY <1>5 DEF Alone
  <2> QED BY <2>1, <2>2 DEF Alone
<1> QED BY <1>1, <1>5, <1>7 DEF IsQueue, Longer, Wider

\* The places of a sequence that has got longer
LEMMA OneMore ==
  ASSUME NEW n \in Nat
  PROVE  /\ \A i \in 1 .. n + 1 : i \in 1 .. n \/ i = n + 1
         /\ \A i \in 1 .. n : i \in 1 .. n + 1
         /\ n + 1 \in 1 .. n + 1 /\ n + 1 \notin 1 .. n
OBVIOUS

\* A task that is not about a message of ours
LEMMA SendingPut ==
  ASSUME NEW m, NEW h, NEW q, NEW dn, Sending(m, h, q, dn), NEW p, NEW t, Longer(p, q, t),
      t.then \notin {"send", "set id"}
  PROVE  Sending(m, h, p, dn)
<1> PICK n : n = Len(q)
  OBVIOUS
<1>1. /\ n \in Nat /\ DOMAIN q = 1 .. n /\ DOMAIN p = 1 .. n + 1
      /\ \A i \in 1 .. n : p[i] = q[i]
      /\ p[n + 1] = t
  BY DEF Longer
<1>2. \A i \in DOMAIN p : /\ p[i].then = "send" => m[p[i].events[1].txn] = "storing"
                          /\ p[i].then = "set id" => m[p[i].events[1].txn] = "restoring"
  <2> SUFFICES ASSUME NEW i \in DOMAIN p
               PROVE  /\ p[i].then = "send" => m[p[i].events[1].txn] = "storing"
                      /\ p[i].then = "set id" => m[p[i].events[1].txn] = "restoring"
    OBVIOUS
  <2>1. i \in 1 .. n \/ i = n + 1
    BY <1>1, OneMore, Zenon
  <2>2. CASE i = n + 1
    BY <1>1, <2>2
  <2>3. CASE i \in 1 .. n
    BY <1>1, <2>3 DEF Sending
  <2> QED BY <2>1, <2>2, <2>3
<1> QED BY <1>2 DEF Sending

\* One task more that is not about a message of ours
LEMMA PutTyped ==
  ASSUME NEW m, NEW h, NEW q, NEW dn, IsQueue(q, h), Alone(q, dn), Sending(m, h, q, dn),
         NEW t \in Task(h), t.then \notin {"send", "set id"}, NEW p, p = Append(q, t),
         t.then = "nothing" \/ t.then \notin Thens(q) \cup DoneThens(dn)
  PROVE  /\ IsQueue(p, h) /\ Alone(p, dn) /\ Sending(m, h, p, dn)
         /\ Longer(p, q, t) /\ Wider(Thens(p), Thens(q), t.then)
<1>1. IsQueue(p, h) /\ Alone(p, dn) /\ Longer(p, q, t) /\ Wider(Thens(p), Thens(q), t.then)
  BY QueuePut
<1>2. Sending(m, h, p, dn)
  BY <1>1, SendingPut
<1> QED BY <1>1, <1>2

\* The tasks there are
LEMMA TasksAre ==
  ASSUME NEW h
  PROVE  /\ \A b \in 0 .. Len(h) : SavingClient(b) \in Task(h)
         /\ \A p \in Tokens(h) : SavingRoom(p) \in Task(h)
         /\ \A es \in Seq(Plain) : /\ Adding(es, FALSE, "next sync") \in Task(h)
                                   /\ Adding(es, TRUE, "loaded") \in Task(h)
         /\ \A x \in Txn : Adding(<<Echo(x)>>, FALSE, "send") \in Task(h)
         /\ \A x \in Txn \cap Txns(h) : Adding(<<Echo(x)>>, FALSE, "set id") \in Task(h)
         /\ \A f \in Uid \cup {NULL} : GettingPast(f) \in Task(h)
<1>1. \A b \in 0 .. Len(h) : SavingClient(b) \in Task(h)
  BY DEF SavingClient, Task, SavingTask
<1>2. \A p \in Tokens(h) : SavingRoom(p) \in Task(h)
  BY DEF SavingRoom, Task, SavingTask
<1>3. \A es \in Seq(Plain) : /\ Adding(es, FALSE, "next sync") \in Task(h)
                             /\ Adding(es, TRUE, "loaded") \in Task(h)
  BY DEF Adding, Task, AddingTask
<1>4. \A x \in Txn : Adding(<<Echo(x)>>, FALSE, "send") \in Task(h)
  <2> SUFFICES ASSUME NEW x \in Txn PROVE Adding(<<Echo(x)>>, FALSE, "send") \in Task(h)
    OBVIOUS
  <2> PICK es : es = <<Echo(x)>>
    OBVIOUS
  <2>1. es \in Echoes(Txn)
    BY DEF Echoes
  <2> QED BY <2>1 DEF Adding, Task, AddingTask
<1>5. \A x \in Txn \cap Txns(h) : Adding(<<Echo(x)>>, FALSE, "set id") \in Task(h)
  <2> SUFFICES ASSUME NEW x \in Txn \cap Txns(h)
               PROVE  Adding(<<Echo(x)>>, FALSE, "set id") \in Task(h)
    OBVIOUS
  <2> PICK es : es = <<Echo(x)>>
    OBVIOUS
  <2>1. es \in Echoes(Txn \cap Txns(h))
    BY DEF Echoes
  <2> QED BY <2>1 DEF Adding, Task, AddingTask
<1>6. \A f \in Uid \cup {NULL} : GettingPast(f) \in Task(h)
  BY DEF GettingPast, Task
<1> QED BY <1>1, <1>2, <1>3, <1>4, <1>5, <1>6
\* What the server posts is an event at its place.
LEMMA PostedIs ==
  ASSUME NEW h, IsHistory(h), Len(h) < MaxEvents, NEW x \in Txn \cup {NULL}, NEW u \in User,
         NEW b \in BOOLEAN, NEW e, e = Posted(Len(h) + 1, x, u, b)
  PROVE  /\ e \in Plain /\ e.uid = Len(h) + 1 /\ e.txn = x /\ e.message = b /\ e.sender = u
         /\ e.replaces = NULL
<1>1. Len(h) + 1 \in Uid
  <2>1. h \in Seq(Plain) /\ MaxEvents \in Nat
    BY BoundsAssumption DEF IsHistory
  <2> QED BY <2>1, HistoryAssumption
<1> PICK n : n = Len(h) + 1
  OBVIOUS
<1> QED BY <1>1 DEF Posted, Plain, Event

\* An echo has no ID, and its type is not set.
LEMMA EchoIs ==
  ASSUME NEW x \in Txn
  PROVE  /\ Echo(x) \in Plain /\ Echo(x).uid = NULL /\ Echo(x).txn = x /\ x # NULL
         /\ ~Echo(x).message /\ Echo(x).replaces = NULL /\ Echo(x).sender = me
BY NamesAssumption DEF Echo, Posted, Plain, Event

\* The room before the client sees it
LEMMA InitTyped ==
  ASSUME Init
  PROVE  TypeInv
<1>1. IsHistory(history)
  <2>1. Past \in Seq(BOOLEAN) /\ Len(Past) <= MaxEvents /\ Uid = 1 .. MaxEvents /\ MaxEvents \in Nat
    BY HistoryAssumption, BoundsAssumption
  <2>2. DOMAIN history = 1 .. Len(Past)
        /\ \A i \in 1 .. Len(Past) : history[i] = Posted(i, NULL, other, Past[i])
    BY <2>1 DEF Init
  <2>3. \A i \in 1 .. Len(Past) : /\ history[i] \in Plain /\ history[i].uid = i
                                  /\ history[i].txn = NULL
    BY <2>1, <2>2, NamesAssumption DEF Posted, Plain, Event
  <2>4. history \in Seq(Plain) /\ Len(history) = Len(Past)
    <3>1. history = [i \in 1 .. Len(Past) |-> history[i]] /\ Len(Past) \in Nat
      BY <2>1 DEF Init
    <3> QED BY <2>3, <3>1
  <2> QED BY <2>1, <2>2, <2>3, <2>4 DEF IsHistory
<1>2. IsClient(client, history) /\ client.saving = "no" /\ client.sync = "listing"
  <2>1. Len(history) \in Nat
    BY <1>1 DEF IsHistory
  <2> QED BY <2>1 DEF Init, IsClient
<1>3. IsShown(shown, history) /\ shown.loading = "no"
  BY DEF Init, NewRoom, IsShown, Tokens
<1>4. queue = <<>> /\ done = <<>> /\ message = [x \in Txn |-> "new"]
  BY DEF Init
<1>5. Thens(queue) = {} /\ DoneThens(done) = {}
  BY <1>4 DEF Thens, DoneThens
<1>6. IsQueue(queue, history) /\ IsDone(done, history) /\ Alone(queue, done)
  BY <1>4, <1>5 DEF IsQueue, IsDone, Alone, Range
<1>7. IsTables(db, history)
  <2>1. db = [WithAccount(Created(NoTables)) EXCEPT !.next_batch = NULL, !.json = TRUE]
    BY DEF Init, SaveClient, Done
  <2>2. /\ DOMAIN db = DOMAIN NoTables /\ db.account /\ db.next_batch = NULL
        /\ db.events = [r \in Room |-> {}] /\ db.cache = [r \in Room |-> {}]
        /\ db.prev_batch = [r \in Room |-> NULL] /\ db.state = [r \in Room |-> "unknown"]
    BY <2>1 DEF WithAccount, Created, NoTables
  <2>3. IsRows({})
    BY FS_EmptySet DEF IsRows
  <2> QED BY <2>2, <2>3, NamesAssumption DEF IsTables, Shape, Tokens
<1>8. Flags(client, shown, queue, done)
  BY <1>2, <1>3, <1>5 DEF Flags
<1>9. Sending(message, history, queue, done)
  <2>1. Txns(history) = {}
    <3>1. \A i \in DOMAIN history : history[i].txn = NULL
      BY DEF Init, Posted
    <3> QED BY <3>1 DEF Txns
  <2> QED BY <1>4, <2>1 DEF Sending, Under, MessageStates
<1> QED BY <1>1, <1>2, <1>3, <1>6, <1>7, <1>8, <1>9 DEF TypeInv

\* Somebody else posts an event.
LEMMA PostTyped ==
  ASSUME TypeInv, NEW m \in BOOLEAN, Post(m)
  PROVE  TypeInv'
<1> PICK e : e = Posted(Len(history) + 1, NULL, other, m)
  OBVIOUS
<1>1. IsHistory(history) /\ Len(history) < MaxEvents /\ history' = Append(history, e)
  BY DEF TypeInv, Post
<1>2. e \in Plain /\ e.uid = Len(history) + 1 /\ e.txn = NULL
  BY <1>1, PostedIs, NamesAssumption
<1> PICK g : g = Append(history, e)
  OBVIOUS
<1>3. /\ IsHistory(g) /\ Longer(g, history, e)
      /\ IF e.txn = NULL THEN Txns(g) = Txns(history) ELSE Wider(Txns(g), Txns(history), e.txn)
  BY <1>1, <1>2, HistoryGrows
<1>4. Txns(g) = Txns(history)
  BY <1>2, <1>3
<1>5. /\ IsClient(client, g) /\ IsShown(shown, g)
      /\ IsQueue(queue, g) /\ IsDone(done, g) /\ IsTables(db, g)
  BY <1>3, <1>4, GrowsTyped DEF TypeInv, Longer
<1>6. Sending(message, g, queue, done)
  BY <1>4 DEF TypeInv, Sending
<1>7. client' = client /\ shown' = shown /\ message' = message /\ db' = db /\ queue' = queue
      /\ done' = done /\ history' = g
  BY <1>1 DEF Post
<1> QED BY <1>3, <1>5, <1>6, <1>7 DEF TypeInv

\* What the client knows
LEMMA ClientIs ==
  ASSUME NEW c, NEW h, IsClient(c, h), Len(h) \in Nat
  PROVE  /\ c.since \in 0 .. Len(h) /\ c.since \in Nat
         /\ c.sync \in {"listing", "waiting", "storing"}
         /\ c.saving \in {"no", "saving", "pending"} /\ c.starts \in Nat /\ c.empty \in Nat
BY DEF IsClient

\* The rooms are listed.
LEMMA RoomListedTyped ==
  ASSUME TypeInv, NEW found \in BOOLEAN, RoomListed(found)
  PROVE  TypeInv'
<1>1. /\ history' = history /\ message' = message /\ db' = db /\ queue' = queue /\ done' = done
      /\ client.sync = "listing" /\ client' = [client EXCEPT !.sync = "waiting"]
  BY DEF RoomListed
<1>2. IsClient(client', history) /\ client'.saving = client.saving /\ client'.sync = "waiting"
  BY <1>1 DEF TypeInv, IsClient
<1>3. /\ IsShown(shown', history)
      /\ shown'.loading = "db" <=> shown.loading = "db"
      /\ shown'.loading = "storing" <=> shown.loading = "storing"
  <2>1. CASE ~found
    BY <2>1 DEF RoomListed, TypeInv
  <2>2. CASE found
    <3>1. shown' = [shown EXCEPT !.joined = TRUE,
                      !.loading = IF shown.synced \/ @ # "no" THEN @ ELSE "listed"]
      BY <2>2 DEF RoomListed
    <3>2. CASE shown.synced \/ shown.loading # "no"
      BY <3>1, <3>2 DEF TypeInv, IsShown
    <3>3. CASE ~(shown.synced \/ shown.loading # "no")
      BY <3>1, <3>3 DEF TypeInv, IsShown
    <3> QED BY <3>2, <3>3
  <2> QED BY <2>1, <2>2
<1>4. Flags(client', shown', queue, done)
  BY <1>1, <1>2, <1>3 DEF TypeInv, Flags
<1> QED BY <1>1, <1>2, <1>3, <1>4 DEF TypeInv

\* An answer of /sync without events
LEMMA SyncEmptyTyped ==
  ASSUME TypeInv, SyncEmpty
  PROVE  TypeInv'
<1>1. /\ history' = history /\ message' = message /\ db' = db /\ shown' = shown /\ done' = done
      /\ client' = [client EXCEPT !.empty = @ + 1,
                      !.saving = IF @ = "no" THEN "saving" ELSE "pending"]
  BY DEF SyncEmpty
<1> PICK s : s = IF client.saving = "no" THEN "saving" ELSE "pending"
  OBVIOUS
<1>2. /\ IsClient(client', history) /\ client'.sync = client.sync
      /\ client'.saving # "no" /\ client'.since = client.since
  <2>1. client' = [client EXCEPT !.empty = client.empty + 1, !.saving = s]
    BY <1>1 DEF TypeInv, IsClient
  <2>2. s \in {"saving", "pending"}
    OBVIOUS
  <2>3. /\ client'.saving = s /\ client'.since = client.since /\ client'.sync = client.sync
        /\ client'.empty \in Nat /\ client'.starts = client.starts
    BY <2>1 DEF TypeInv, IsClient
  <2> QED BY <2>1, <2>2, <2>3 DEF TypeInv, IsClient
<1>3. CASE client.saving # "no"
  <2>1. queue' = queue
    BY <1>3 DEF SyncEmpty
  <2>2. Flags(client', shown, queue, done)
    BY <1>2, <1>3 DEF TypeInv, Flags
  <2> QED BY <1>1, <1>2, <2>1, <2>2 DEF TypeInv
<1>4. CASE client.saving = "no"
  <2> PICK t : t = SavingClient(client.since)
    OBVIOUS
  <2>1. queue' = Append(queue, t)
    BY <1>4 DEF SyncEmpty
  <2>2. t \in Task(history) /\ t.then = "saved"
    <3>1. client.since \in 0 .. Len(history)
      BY DEF TypeInv, IsClient
    <3> QED BY <3>1, TasksAre DEF SavingClient
  <2>3. "saved" \notin Thens(queue) \cup DoneThens(done)
    BY <1>4 DEF TypeInv, Flags
  <2> PICK p : p = Append(queue, t)
    OBVIOUS
  <2>4. /\ IsQueue(p, history) /\ Alone(p, done) /\ Sending(message, history, p, done)
        /\ Longer(p, queue, t) /\ Wider(Thens(p), Thens(queue), t.then)
    BY <2>2, <2>3, PutTyped DEF TypeInv
  <2>6. Flags(client', shown, p, done)
    BY <1>2, <2>2, <2>4 DEF TypeInv, Flags, Wider
  <2> QED BY <1>1, <1>2, <2>1, <2>4, <2>6 DEF TypeInv
<1> QED BY <1>3, <1>4
\* A new value of the flag
LEMMA LoadingSet ==
  ASSUME NEW s, NEW h, IsShown(s, h), NEW loading,
         loading \in {"no", "listed", "state", "db", "storing"}, NEW r,
         r = [s EXCEPT !.loading = loading]
  PROVE  IsShown(r, h) /\ r.loading = loading /\ r.list = s.list /\ r.prev_batch = s.prev_batch
BY DEF IsShown

\* The oldest event is asked for by its ID.
LEMMA OldestIs ==
  ASSUME NEW list \in Seq(Plain)
  PROVE  Oldest(list) \in Uid \cup {NULL}
<1>1. list # <<>> => Head(list) \in Plain
  OBVIOUS
<1>2. \A e \in Plain : e.uid \in Uid \cup {NULL}
  BY DEF Plain, Event
<1> QED BY <1>1, <1>2 DEF Oldest

\* The application asks for the history.
LEMMA LoadPastTyped ==
  ASSUME TypeInv, LoadPast
  PROVE  TypeInv'
<1>1. /\ history' = history /\ message' = message /\ db' = db /\ client' = client /\ done' = done
      /\ shown.loading = "no"
  BY DEF LoadPast
<1>2. CASE ~shown.synced
  <2>1. queue' = queue /\ shown' = [shown EXCEPT !.loading = "state"]
    BY <1>2 DEF LoadPast
  <2>2. IsShown(shown', history) /\ shown'.loading = "state"
    BY <2>1, LoadingSet DEF TypeInv
  <2>3. Flags(client, shown', queue, done)
    BY <1>1, <2>2 DEF TypeInv, Flags
  <2> QED BY <1>1, <2>1, <2>2, <2>3 DEF TypeInv
<1>3. CASE shown.synced
  <2> PICK t : t = GettingPast(Oldest(shown.list))
    OBVIOUS
  <2>1. queue' = Append(queue, t) /\ shown' = [shown EXCEPT !.loading = "db"]
    BY <1>3 DEF LoadPast
  <2>2. t \in Task(history) /\ t.then = "past"
    <3>1. shown.list \in Seq(Plain)
      BY DEF TypeInv, IsShown
    <3>2. Oldest(shown.list) \in Uid \cup {NULL}
      BY <3>1, OldestIs
    <3> QED BY <3>2, TasksAre DEF GettingPast
  <2>3. "past" \notin Thens(queue) \cup DoneThens(done)
    BY <1>1 DEF TypeInv, Flags
  <2> PICK p : p = Append(queue, t)
    OBVIOUS
  <2>4. /\ IsQueue(p, history) /\ Alone(p, done) /\ Sending(message, history, p, done)
        /\ Longer(p, queue, t) /\ Wider(Thens(p), Thens(queue), t.then)
    BY <2>2, <2>3, PutTyped DEF TypeInv
  <2>5. IsShown(shown', history) /\ shown'.loading = "db"
    BY <2>1, LoadingSet DEF TypeInv
  <2>6. Flags(client, shown', p, done)
    BY <1>1, <2>2, <2>4, <2>5 DEF TypeInv, Flags, Wider
  <2> QED BY <1>1, <2>1, <2>4, <2>5, <2>6 DEF TypeInv
<1> QED BY <1>2, <1>3

\* A request fails.
LEMMA LoadFailedTyped ==
  ASSUME TypeInv, LoadFailed
  PROVE  TypeInv'
<1>1. /\ history' = history /\ message' = message /\ db' = db /\ client' = client /\ done' = done
      /\ queue' = queue /\ shown.loading \in {"listed", "state", "server"}
      /\ shown' = [shown EXCEPT !.loading = "no"]
  BY DEF LoadFailed
<1>2. IsShown(shown', history) /\ shown'.loading = "no"
  BY <1>1, LoadingSet DEF TypeInv
<1>3. Flags(client, shown', queue, done)
  BY <1>1, <1>2 DEF TypeInv, Flags
<1> QED BY <1>1, <1>2, <1>3 DEF TypeInv

\* The state of the room is there; the events are asked for if they were wanted.
LEMMA StateLoadedTyped ==
  ASSUME TypeInv, StateLoaded
  PROVE  TypeInv'
<1>1. /\ history' = history /\ message' = message /\ db' = db /\ client' = client /\ done' = done
      /\ shown.loading \in {"listed", "state"}
  BY DEF StateLoaded
<1> PICK loading : loading = IF shown.loading = "state" THEN "db" ELSE "no"
  OBVIOUS
<1>2. shown' = [shown EXCEPT !.synced = TRUE, !.loading = loading]
  BY DEF StateLoaded, TypeInv, IsShown
<1>3. IsShown(shown', history) /\ shown'.loading = loading
  BY <1>2 DEF TypeInv, IsShown
<1> PICK t : t = SavingRoom(shown.prev_batch)
  OBVIOUS
<1> PICK p : p = Append(queue, t)
  OBVIOUS
<1>4. t \in Task(history) /\ t.then = "nothing"
  <2>1. shown.prev_batch \in Tokens(history)
    BY DEF TypeInv, IsShown
  <2> QED BY <2>1, TasksAre DEF SavingRoom
<1>5. /\ IsQueue(p, history) /\ Alone(p, done) /\ Sending(message, history, p, done)
      /\ Longer(p, queue, t) /\ Wider(Thens(p), Thens(queue), t.then)
  BY <1>4, PutTyped DEF TypeInv
<1>6. CASE shown.loading = "listed"
  <2>1. queue' = Append(queue, t) \o <<>>
    BY <1>6 DEF StateLoaded
  <2>2. queue' = p
    BY <1>5, <2>1 DEF IsQueue
  <2>3. Flags(client, shown', p, done)
    BY <1>3, <1>4, <1>5, <1>6 DEF TypeInv, Flags, Wider
  <2> QED BY <1>1, <1>3, <1>5, <2>2, <2>3 DEF TypeInv
<1>7. CASE shown.loading = "state"
  <2> PICK u : u = GettingPast(Oldest(shown.list))
    OBVIOUS
  <2> PICK r : r = Append(p, u)
    OBVIOUS
  <2>1. queue' = p \o <<u>>
    BY <1>7 DEF StateLoaded
  <2>2. u \in Task(history) /\ u.then = "past"
    <3>1. shown.list \in Seq(Plain)
      BY DEF TypeInv, IsShown
    <3>2. Oldest(shown.list) \in Uid \cup {NULL}
      BY <3>1, OldestIs
    <3> QED BY <3>2, TasksAre DEF GettingPast
  <2>3. queue' = r
    BY <1>5, <2>1, <2>2 DEF IsQueue
  <2>4. "past" \notin Thens(p) \cup DoneThens(done)
    BY <1>4, <1>5, <1>7 DEF TypeInv, Flags, Wider
  <2>5. /\ IsQueue(r, history) /\ Alone(r, done) /\ Sending(message, history, r, done)
        /\ Longer(r, p, u) /\ Wider(Thens(r), Thens(p), u.then)
    BY <1>5, <2>2, <2>4, PutTyped
  <2>6. Flags(client, shown', r, done)
    BY <1>3, <1>4, <1>5, <1>7, <2>2, <2>5 DEF TypeInv, Flags, Wider
  <2> QED BY <1>1, <1>3, <2>3, <2>5, <2>6 DEF TypeInv
<1> QED BY <1>1, <1>6, <1>7

\* The part of a history
LEMMA PartIs ==
  ASSUME NEW h, IsHistory(h), NEW from \in Nat, NEW to \in 0 .. Len(h), from > 0
  PROVE  /\ SubSeq(h, from, to) \in Seq(Plain)
         /\ Len(SubSeq(h, from, to)) = IF from <= to THEN to - from + 1 ELSE 0
         /\ \A i \in 1 .. Len(SubSeq(h, from, to)) :
              SubSeq(h, from, to)[i] = h[from + i - 1] /\ from + i - 1 \in from .. to
<1>1. h \in Seq(Plain) /\ Len(h) \in Nat
  BY DEF IsHistory
<1>2. CASE from <= to
  BY <1>1, <1>2
<1>3. CASE ~(from <= to)
  <2>1. SubSeq(h, from, to) = <<>>
    BY <1>1, <1>3
  <2> QED BY <2>1, <1>3
<1> QED BY <1>2, <1>3
\* A sequence with none or one element more
LEMMA JoinIs ==
  ASSUME NEW S, NEW q \in Seq(S), NEW t \in S
  PROVE  q \o <<t>> = Append(q, t) /\ q \o <<>> = q
OBVIOUS

\* An answer of /sync, with the parts of what it adds to the queue
SyncStep(first, events, list, new, prev, q1, q2) ==
  /\ client.sync = "waiting" /\ first \in client.since + 1 .. Len(history)
  /\ first > client.since + 1 => LimitedSyncs \/ client.since = 0
  /\ events = SubSeq(history, first, Len(history))
  /\ list = WithoutEchoes(shown.list, events) /\ new = NotLast(list, events)
  /\ prev = IF first > client.since + 1 THEN first - 1 ELSE shown.prev_batch
  /\ q1 = IF client.saving = "no" THEN Append(queue, SavingClient(Len(history))) ELSE queue
  /\ q2 = Append(q1, SavingRoom(prev))
  /\ queue' = IF new = <<>> THEN q2 ELSE Append(q2, Adding(new, FALSE, "next sync"))
  /\ client' = [client EXCEPT !.since = Len(history),
                  !.sync = IF new = <<>> THEN "waiting" ELSE "storing",
                  !.saving = IF client.saving = "no" THEN "saving" ELSE "pending"]
  /\ shown' = [shown EXCEPT !.list = Shown(list, events, TRUE), !.prev_batch = prev,
                            !.joined = TRUE, !.synced = TRUE]
  /\ history' = history /\ message' = message /\ db' = db /\ done' = done

\* The types of these parts
SyncParts(events, list, new, prev, q1, q2) ==
  /\ events \in Seq(Plain) /\ list \in Seq(Plain) /\ new \in Seq(Plain)
  /\ prev \in Tokens(history)
  /\ IsQueue(q1, history) /\ Alone(q1, done) /\ Sending(message, history, q1, done)
  /\ IF client.saving = "no"
     THEN /\ Longer(q1, queue, SavingClient(Len(history)))
          /\ Wider(Thens(q1), Thens(queue), "saved")
     ELSE q1 = queue
  /\ IsQueue(q2, history) /\ Alone(q2, done) /\ Sending(message, history, q2, done)
  /\ Longer(q2, q1, SavingRoom(prev)) /\ Wider(Thens(q2), Thens(q1), "nothing")
  /\ IsQueue(queue', history) /\ Alone(queue', done) /\ Sending(message, history, queue', done)
  /\ IF new = <<>> THEN queue' = q2
     ELSE /\ Longer(queue', q2, Adding(new, FALSE, "next sync"))
          /\ Wider(Thens(queue'), Thens(q2), "next sync")

\* An answer of /sync has these parts.
LEMMA SyncDoneIs ==
  ASSUME TypeInv, NEW first \in 1 .. Len(history), SyncDone(first)
  PROVE  \E events, list, new, prev, q1, q2 :
           /\ SyncStep(first, events, list, new, prev, q1, q2)
           /\ SyncParts(events, list, new, prev, q1, q2)
<1>1. /\ IsHistory(history) /\ Len(history) \in Nat /\ client.since \in 0 .. Len(history)
      /\ shown.list \in Seq(Plain) /\ shown.prev_batch \in Tokens(history)
  BY DEF TypeInv, IsHistory, IsClient, IsShown
<1>2. PICK events, list, new, prev :
        /\ events = SubSeq(history, first, Len(history))
        /\ list = WithoutEchoes(shown.list, events) /\ new = NotLast(list, events)
        /\ prev = IF first > client.since + 1 THEN first - 1 ELSE shown.prev_batch
  OBVIOUS
<1>3. PICK t1, t2, t3 : /\ t1 = SavingClient(Len(history)) /\ t2 = SavingRoom(prev)
                        /\ t3 = Adding(new, FALSE, "next sync")
  OBVIOUS
<1>4. PICK q1 : q1 = IF client.saving = "no" THEN Append(queue, t1) ELSE queue
  OBVIOUS
<1>5. PICK q2 : q2 = Append(q1, t2)
  OBVIOUS
<1>6. PICK q3 : q3 = IF new = <<>> THEN q2 ELSE Append(q2, t3)
  OBVIOUS
<1>7. /\ client.sync = "waiting" /\ first \in client.since + 1 .. Len(history)
      /\ first > client.since + 1 => LimitedSyncs \/ client.since = 0
      /\ client' = [client EXCEPT !.since = Len(history),
                      !.sync = IF new = <<>> THEN "waiting" ELSE "storing",
                      !.saving = IF client.saving = "no" THEN "saving" ELSE "pending"]
      /\ shown' = [shown EXCEPT !.list = Shown(list, events, TRUE), !.prev_batch = prev,
                                !.joined = TRUE, !.synced = TRUE]
      /\ history' = history /\ message' = message /\ db' = db /\ done' = done
      /\ queue' = queue \o (IF client.saving = "no" THEN <<t1>> ELSE <<>>) \o <<t2>>
                        \o (IF new = <<>> THEN <<>> ELSE <<t3>>)
  BY <1>2, <1>3 DEF SyncDone, TypeInv, IsClient
<1>8. events \in Seq(Plain) /\ list \in Seq(Plain) /\ new \in Seq(Plain)
  <2>1. events \in Seq(Plain)
    <3>1. first \in Nat /\ first > 0 /\ Len(history) \in 0 .. Len(history)
      BY <1>1
    <3> QED BY <1>1, <1>2, <3>1, PartIs
  <2>2. list \in Seq(Plain)
    BY <1>1, <1>2, <2>1, LeftTyped
  <2> QED BY <1>2, <2>1, <2>2, NotLastTyped
<1>9. prev \in Tokens(history)
  BY <1>1, <1>2 DEF Tokens
<1>10. /\ t1 \in Task(history) /\ t1.then = "saved" /\ t2 \in Task(history) /\ t2.then = "nothing"
      /\ t3 \in Task(history) /\ t3.then = "next sync"
  <2>1. t1 \in Task(history) /\ t1.then = "saved"
    <3>1. Len(history) \in 0 .. Len(history)
      BY <1>1
    <3> QED BY <1>3, <3>1, TasksAre DEF SavingClient
  <2>2. t2 \in Task(history) /\ t2.then = "nothing"
    BY <1>9, <1>3, TasksAre DEF SavingRoom
  <2>3. t3 \in Task(history) /\ t3.then = "next sync"
    BY <1>8, <1>3, TasksAre DEF Adding
  <2> QED BY <2>1, <2>2, <2>3
<1>11. /\ IsQueue(q1, history) /\ Alone(q1, done) /\ Sending(message, history, q1, done)
      /\ IF client.saving = "no"
         THEN Longer(q1, queue, t1) /\ Wider(Thens(q1), Thens(queue), "saved")
         ELSE q1 = queue
  <2>1. CASE client.saving # "no"
    BY <1>4, <2>1 DEF TypeInv
  <2>2. CASE client.saving = "no"
    <3>1. "saved" \notin Thens(queue) \cup DoneThens(done)
      BY <2>2 DEF TypeInv, Flags
    <3>2. q1 = Append(queue, t1)
      BY <1>4, <2>2
    <3>3. /\ IsQueue(q1, history) /\ Alone(q1, done) /\ Sending(message, history, q1, done)
          /\ Longer(q1, queue, t1) /\ Wider(Thens(q1), Thens(queue), t1.then)
      BY <1>10, <3>1, <3>2, PutTyped DEF TypeInv
    <3> QED BY <1>10, <2>2, <3>3
  <2> QED BY <2>1, <2>2
<1>12. /\ IsQueue(q2, history) /\ Alone(q2, done) /\ Sending(message, history, q2, done)
      /\ Longer(q2, q1, t2) /\ Wider(Thens(q2), Thens(q1), t2.then)
  BY <1>5, <1>10, <1>11, PutTyped
<1>13. "next sync" \notin Thens(q2) \cup DoneThens(done)
  <2>1. "next sync" \notin Thens(queue) \cup DoneThens(done)
    BY <1>7 DEF TypeInv, Flags
  <2>2. "next sync" \notin Thens(q1)
    <3>1. CASE client.saving = "no"
      <4>1. Wider(Thens(q1), Thens(queue), "saved")
        BY <1>11, <3>1
      <4> QED BY <2>1, <4>1 DEF Wider
    <3>2. CASE client.saving # "no"
      BY <1>11, <2>1, <3>2
    <3> QED BY <3>1, <3>2
  <2> QED BY <1>10, <1>12, <2>1, <2>2 DEF Wider
<1>14. /\ IsQueue(q3, history) /\ Alone(q3, done) /\ Sending(message, history, q3, done)
      /\ IF new = <<>> THEN q3 = q2
         ELSE Longer(q3, q2, t3) /\ Wider(Thens(q3), Thens(q2), "next sync")
  <2>1. CASE new = <<>>
    BY <1>6, <1>12, <2>1
  <2>2. CASE new # <<>>
    <3>1. q3 = Append(q2, t3)
      BY <1>6, <2>2
    <3>2. /\ IsQueue(q3, history) /\ Alone(q3, done) /\ Sending(message, history, q3, done)
          /\ Longer(q3, q2, t3) /\ Wider(Thens(q3), Thens(q2), t3.then)
      BY <1>10, <1>12, <1>13, <3>1, PutTyped
    <3> QED BY <1>10, <2>2, <3>2
  <2> QED BY <2>1, <2>2
<1>15. queue' = q3
  <2>1. queue \in Seq(Task(history)) /\ q1 \in Seq(Task(history)) /\ q2 \in Seq(Task(history))
    BY <1>11, <1>12 DEF TypeInv, IsQueue
  <2>2. queue \o (IF client.saving = "no" THEN <<t1>> ELSE <<>>) = q1
    BY <1>4, <1>10, <2>1, JoinIs
  <2>3. q1 \o <<t2>> = q2
    BY <1>5, <1>10, <2>1, JoinIs
  <2>4. q2 \o (IF new = <<>> THEN <<>> ELSE <<t3>>) = q3
    BY <1>6, <1>10, <2>1, JoinIs
  <2> QED BY <1>7, <2>2, <2>3, <2>4
<1>16. SyncStep(first, events, list, new, prev, q1, q2)
  BY <1>2, <1>3, <1>4, <1>5, <1>6, <1>7, <1>15 DEF SyncStep
<1>17. SyncParts(events, list, new, prev, q1, q2)
  BY <1>3, <1>6, <1>8, <1>9, <1>10, <1>11, <1>12, <1>14, <1>15 DEF SyncParts
<1> QED BY <1>16, <1>17

\* An answer of /sync
LEMMA SyncDoneTyped ==
  ASSUME TypeInv, NEW first \in 1 .. Len(history), SyncDone(first)
  PROVE  TypeInv'
<1>1. PICK events, list, new, prev, q1, q2 :
        /\ SyncStep(first, events, list, new, prev, q1, q2)
        /\ SyncParts(events, list, new, prev, q1, q2)
  BY SyncDoneIs
<1>2. history' = history /\ message' = message /\ db' = db /\ done' = done
  BY <1>1 DEF SyncStep
<1> PICK sync : sync = IF new = <<>> THEN "waiting" ELSE "storing"
  OBVIOUS
<1> PICK saving : saving = IF client.saving = "no" THEN "saving" ELSE "pending"
  OBVIOUS
<1>3. client' = [client EXCEPT !.since = Len(history), !.sync = sync, !.saving = saving]
  BY <1>1 DEF SyncStep
<1>4. IsClient(client', history) /\ client'.sync = sync /\ client'.saving = saving
  <2>1. Len(history) \in 0 .. Len(history)
    BY DEF TypeInv, IsHistory
  <2>2. sync \in {"waiting", "storing"} /\ saving \in {"saving", "pending"}
    OBVIOUS
  <2> QED BY <1>3, <2>1, <2>2 DEF TypeInv, IsClient
<1> PICK listed : listed = Shown(list, events, TRUE)
  OBVIOUS
<1>5. IsShown(shown', history) /\ shown'.loading = shown.loading
  <2>1. shown' = [shown EXCEPT !.list = listed, !.prev_batch = prev, !.joined = TRUE,
                               !.synced = TRUE]
    BY <1>1 DEF SyncStep
  <2>2. listed \in Seq(Plain) /\ prev \in Tokens(history)
    BY <1>1, ShownTyped DEF SyncParts
  <2> QED BY <2>1, <2>2 DEF TypeInv, IsShown
<1>6. IsQueue(queue', history) /\ Alone(queue', done) /\ Sending(message, history, queue', done)
  BY <1>1 DEF SyncParts
<1>7. Flags(client', shown', queue', done)
  <2>1. \A then \in {"past", "loaded"} : then \in Thens(queue') <=> then \in Thens(queue)
    BY <1>1 DEF SyncParts, Wider
  <2>2. "saved" \in Thens(queue') \cup DoneThens(done)
    <3>1. "saved" \in Thens(q1) \cup DoneThens(done)
      BY <1>1 DEF SyncParts, Wider, TypeInv, Flags
    <3> QED BY <1>1, <3>1 DEF SyncParts, Wider
  <2>3. "next sync" \in Thens(queue') \cup DoneThens(done) <=> new # <<>>
    <3>1. "next sync" \notin Thens(queue) \cup DoneThens(done)
      BY <1>1 DEF SyncStep, TypeInv, Flags
    <3>2. "next sync" \notin Thens(q2) \cup DoneThens(done)
      BY <1>1, <3>1 DEF SyncParts, Wider
    <3>3. CASE new = <<>>
      BY <1>1, <3>2, <3>3 DEF SyncParts
    <3>4. CASE new # <<>>
      BY <1>1, <3>4 DEF SyncParts, Wider
    <3> QED BY <3>3, <3>4
  <2> QED BY <1>4, <1>5, <2>1, <2>2, <2>3 DEF TypeInv, Flags
<1> QED BY <1>2, <1>4, <1>5, <1>6, <1>7 DEF TypeInv
\* An answer to /messages, with the parts of what it adds to the queue
ChunkStep(end, prev, list, new, q1) ==
  /\ shown.loading = "server"
  /\ end = shown.from - Len(Chunk) /\ prev = IF end = shown.from THEN NULL ELSE end
  /\ list = WithoutEchoes(shown.list, Chunk) /\ new = NotLast(list, Chunk)
  /\ q1 = Append(queue, SavingRoom(prev))
  /\ queue' = IF new = <<>> THEN q1 ELSE Append(q1, Adding(new, TRUE, "loaded"))
  /\ shown' = [shown EXCEPT !.prev_batch = prev, !.list = Shown(list, Chunk, FALSE),
                            !.loading = IF new = <<>> THEN "no" ELSE "storing"]
  /\ history' = history /\ client' = client /\ message' = message /\ db' = db /\ done' = done

\* The types of these parts
ChunkParts(end, prev, list, new, q1) ==
  /\ Chunk \in Seq(Plain) /\ list \in Seq(Plain) /\ new \in Seq(Plain)
  /\ end \in 0 .. shown.from /\ prev \in Tokens(history)
  /\ IsQueue(q1, history) /\ Alone(q1, done) /\ Sending(message, history, q1, done)
  /\ Longer(q1, queue, SavingRoom(prev)) /\ Wider(Thens(q1), Thens(queue), "nothing")
  /\ IsQueue(queue', history) /\ Alone(queue', done) /\ Sending(message, history, queue', done)
  /\ IF new = <<>> THEN queue' = q1
     ELSE /\ Longer(queue', q1, Adding(new, TRUE, "loaded"))
          /\ Wider(Thens(queue'), Thens(q1), "loaded")

\* What the server has before a token: the events that follow `begin'
LEMMA ChunkIs ==
  ASSUME NEW h, IsHistory(h), h = history, shown.from \in 0 .. Len(h)
  PROVE  \E begin \in 0 .. shown.from :
           /\ Chunk = Reverse(SubSeq(h, begin + 1, shown.from)) /\ Chunk \in Seq(Plain)
           /\ Len(Chunk) = shown.from - begin
           /\ shown.from > 0 => begin < shown.from
<1>1. ChunkSize \in Nat /\ ChunkSize > 0 /\ Len(h) \in Nat
  BY BoundsAssumption DEF IsHistory
<1>2. PICK from : from = shown.from
  OBVIOUS
<1>3. PICK start : start = from - ChunkSize + 1
  OBVIOUS
<1>4. from \in Nat /\ start \in Int /\ start <= from
  BY <1>1, <1>2, <1>3
<1>5. Max({1, start}) = IF start > 1 THEN start ELSE 1
  BY <1>4 DEF Max
<1>6. PICK begin : begin = (IF start > 1 THEN start ELSE 1) - 1
  OBVIOUS
<1>7. Chunk = Reverse(SubSeq(h, begin + 1, from))
  <2>1. begin + 1 = Max({1, start})
    BY <1>4, <1>5, <1>6
  <2>2. Chunk = Reverse(SubSeq(h, Max({1, start}), from))
    BY <1>2, <1>3 DEF Chunk
  <2> QED BY <2>1, <2>2
<1>8. begin \in 0 .. from /\ (from > 0 => begin < from) /\ begin + 1 \in Nat /\ begin + 1 > 0
  BY <1>4, <1>6
<1>9. from \in 0 .. Len(h)
  BY <1>2
<1>10. PICK s : s = SubSeq(h, begin + 1, from)
  OBVIOUS
<1>11. s \in Seq(Plain) /\ Len(s) = from - begin
  <2>1. /\ s \in Seq(Plain)
        /\ Len(s) = IF begin + 1 <= from THEN from - (begin + 1) + 1 ELSE 0
    BY <1>8, <1>9, <1>10, PartIs
  <2> QED BY <1>4, <1>8, <2>1
<1>12. Reverse(s) \in Seq(Plain) /\ Len(Reverse(s)) = Len(s)
  BY <1>11, Backwards
<1> QED BY <1>2, <1>7, <1>8, <1>10, <1>11, <1>12

\* An answer to /messages has these parts.
LEMMA HistoryLoadedIs ==
  ASSUME TypeInv, HistoryLoaded
  PROVE  \E end, prev, list, new, q1 :
           ChunkStep(end, prev, list, new, q1) /\ ChunkParts(end, prev, list, new, q1)
<1>1. /\ IsHistory(history) /\ Len(history) \in Nat /\ shown.loading = "server"
      /\ shown.list \in Seq(Plain) /\ shown.from \in 0 .. Len(history)
  BY DEF TypeInv, IsHistory, IsShown, Tokens, HistoryLoaded
<1>2. PICK begin \in 0 .. shown.from :
        /\ Chunk = Reverse(SubSeq(history, begin + 1, shown.from)) /\ Chunk \in Seq(Plain)
        /\ Len(Chunk) = shown.from - begin
        /\ shown.from > 0 => begin < shown.from
  BY <1>1, ChunkIs
<1>3. PICK end : end = shown.from - Len(Chunk)
  OBVIOUS
<1>4. PICK prev : prev = IF end = shown.from THEN NULL ELSE end
  OBVIOUS
<1>5. PICK list, new : list = WithoutEchoes(shown.list, Chunk) /\ new = NotLast(list, Chunk)
  OBVIOUS
<1>6. PICK t1, t2 : t1 = SavingRoom(prev) /\ t2 = Adding(new, TRUE, "loaded")
  OBVIOUS
<1>7. PICK q1 : q1 = Append(queue, t1)
  OBVIOUS
<1>8. PICK q2 : q2 = IF new = <<>> THEN q1 ELSE Append(q1, t2)
  OBVIOUS
<1>9. /\ queue' = Append(queue, t1) \o (IF new = <<>> THEN <<>> ELSE <<t2>>)
      /\ shown' = [shown EXCEPT !.prev_batch = prev, !.list = Shown(list, Chunk, FALSE),
                                !.loading = IF new = <<>> THEN "no" ELSE "storing"]
      /\ history' = history /\ client' = client /\ message' = message /\ db' = db /\ done' = done
  BY <1>3, <1>4, <1>5, <1>6 DEF HistoryLoaded
<1>10. list \in Seq(Plain) /\ new \in Seq(Plain)
  <2>1. list \in Seq(Plain)
    BY <1>1, <1>2, <1>5, LeftTyped
  <2> QED BY <1>2, <1>5, <2>1, NotLastTyped
<1>11. end \in 0 .. shown.from /\ end \in 0 .. Len(history) /\ prev \in Tokens(history)
  <2>1. end = begin
    BY <1>1, <1>2, <1>3
  <2>2. end \in 0 .. shown.from /\ end \in 0 .. Len(history)
    BY <1>1, <2>1
  <2> QED BY <1>4, <2>2 DEF Tokens
<1>12. /\ t1 \in Task(history) /\ t1.then = "nothing" /\ t2 \in Task(history) /\ t2.then = "loaded"
  <2>1. t1 \in Task(history) /\ t1.then = "nothing"
    BY <1>6, <1>11, TasksAre DEF SavingRoom
  <2>2. t2 \in Task(history) /\ t2.then = "loaded"
    BY <1>6, <1>10, TasksAre DEF Adding
  <2> QED BY <2>1, <2>2
<1>13. /\ IsQueue(q1, history) /\ Alone(q1, done) /\ Sending(message, history, q1, done)
       /\ Longer(q1, queue, t1) /\ Wider(Thens(q1), Thens(queue), t1.then)
  BY <1>7, <1>12, PutTyped DEF TypeInv
<1>14. "loaded" \notin Thens(q1) \cup DoneThens(done)
  <2>1. "loaded" \notin Thens(queue) \cup DoneThens(done)
    BY <1>1 DEF TypeInv, Flags
  <2> QED BY <1>12, <1>13, <2>1 DEF Wider
<1>15. /\ IsQueue(q2, history) /\ Alone(q2, done) /\ Sending(message, history, q2, done)
       /\ IF new = <<>> THEN q2 = q1
          ELSE Longer(q2, q1, t2) /\ Wider(Thens(q2), Thens(q1), "loaded")
  <2>1. CASE new = <<>>
    BY <1>8, <1>13, <2>1
  <2>2. CASE new # <<>>
    <3>1. q2 = Append(q1, t2)
      BY <1>8, <2>2
    <3>2. /\ IsQueue(q2, history) /\ Alone(q2, done) /\ Sending(message, history, q2, done)
          /\ Longer(q2, q1, t2) /\ Wider(Thens(q2), Thens(q1), t2.then)
      BY <1>12, <1>13, <1>14, <3>1, PutTyped
    <3> QED BY <1>12, <2>2, <3>2
  <2> QED BY <2>1, <2>2
<1>16. queue' = q2
  <2>1. q1 \in Seq(Task(history))
    BY <1>13 DEF IsQueue
  <2>2. q1 \o (IF new = <<>> THEN <<>> ELSE <<t2>>) = q2
    BY <1>8, <1>12, <2>1, JoinIs
  <2> QED BY <1>7, <1>9, <2>2
<1>17. ChunkStep(end, prev, list, new, q1)
  BY <1>1, <1>3, <1>4, <1>5, <1>6, <1>7, <1>8, <1>9, <1>16 DEF ChunkStep
<1>18. ChunkParts(end, prev, list, new, q1)
  BY <1>2, <1>6, <1>10, <1>11, <1>12, <1>13, <1>15, <1>16 DEF ChunkParts
<1> QED BY <1>17, <1>18

\* An answer to /messages
LEMMA HistoryLoadedTyped ==
  ASSUME TypeInv, HistoryLoaded
  PROVE  TypeInv'
<1>1. PICK end, prev, list, new, q1 :
        ChunkStep(end, prev, list, new, q1) /\ ChunkParts(end, prev, list, new, q1)
  BY HistoryLoadedIs
<1>2. /\ history' = history /\ client' = client /\ message' = message /\ db' = db /\ done' = done
      /\ shown.loading = "server"
  BY <1>1 DEF ChunkStep
<1>3. PICK loading : loading = IF new = <<>> THEN "no" ELSE "storing"
  OBVIOUS
<1>4. PICK listed : listed = Shown(list, Chunk, FALSE)
  OBVIOUS
<1>5. IsShown(shown', history) /\ shown'.loading = loading
  <2>1. shown' = [shown EXCEPT !.prev_batch = prev, !.list = listed, !.loading = loading]
    BY <1>1, <1>3, <1>4 DEF ChunkStep
  <2>2. listed \in Seq(Plain) /\ prev \in Tokens(history)
    BY <1>1, <1>4, ShownTyped DEF ChunkParts
  <2>3. loading \in {"no", "storing"}
    BY <1>3
  <2> QED BY <2>1, <2>2, <2>3 DEF TypeInv, IsShown
<1>6. IsQueue(queue', history) /\ Alone(queue', done) /\ Sending(message, history, queue', done)
  BY <1>1 DEF ChunkParts
<1>7. Flags(client, shown', queue', done)
  <2>1. \A then \in {"past", "saved", "next sync"} :
      then \in Thens(queue') <=> then \in Thens(queue)
    BY <1>1 DEF ChunkParts, Wider
  <2>2. /\ "past" \notin Thens(queue) \cup DoneThens(done)
        /\ "loaded" \notin Thens(queue) \cup DoneThens(done)
    BY <1>2 DEF TypeInv, Flags
  <2>3. "loaded" \in Thens(queue') \cup DoneThens(done) <=> new # <<>>
    <3>1. "loaded" \notin Thens(q1) \cup DoneThens(done)
      BY <1>1, <2>2 DEF ChunkParts, Wider
    <3>2. CASE new = <<>>
      BY <1>1, <3>1, <3>2 DEF ChunkParts
    <3>3. CASE new # <<>>
      BY <1>1, <3>3 DEF ChunkParts, Wider
    <3> QED BY <3>2, <3>3
  <2> QED BY <1>3, <1>5, <2>1, <2>2, <2>3 DEF TypeInv, Flags
<1> QED BY <1>2, <1>5, <1>6, <1>7 DEF TypeInv
\* What is true of the messages if nothing is said about their tasks
Phases(m, h) ==
  /\ m \in [Txn -> MessageStates]
  /\ \A x, y \in Txn : m[x] \in Under /\ m[y] \in Under => x = y
  /\ \A x \in Txn : /\ m[x] \in {"accepted", "restoring"} => x \in Txns(h)
                    /\ x \in Txns(h) => m[x] \in {"accepted", "restoring", "sent", "failed"}

\* A task that says where its message is
Says(m, t) ==
  /\ t.then = "send" => m[t.events[1].txn] = "storing"
  /\ t.then = "set id" => m[t.events[1].txn] = "restoring"

\* The tasks that are about messages name one.
LEMMA SendTask ==
  ASSUME NEW h, NEW t \in Task(h), t.then \in {"send", "set id"}
  PROVE  \E x \in Txn : /\ t = Adding(<<Echo(x)>>, FALSE, t.then) /\ t.events[1].txn = x
                        /\ t.then = "set id" => x \in Txns(h)
<1>1. \/ t \in [op : {"add_events"}, events : Echoes(Txn), prepend : {FALSE}, then : {"send"}]
      \/ t \in [op : {"add_events"}, events : Echoes(Txn \cap Txns(h)), prepend : {FALSE},
                then : {"set id"}]
  BY DEF Task, SavingTask, AddingTask
<1>2. PICK x \in Txn : /\ t.events = <<Echo(x)>>
                       /\ t.then = "set id" => x \in Txns(h)
  BY <1>1 DEF Echoes
<1>3. PICK es : es = <<Echo(x)>>
  OBVIOUS
<1>4. t.events = es /\ es[1] = Echo(x)
  BY <1>2, <1>3
<1>5. t.events[1].txn = x
  BY <1>4, EchoIs
<1>6. t = Adding(es, FALSE, t.then)
  BY <1>1, <1>4 DEF Adding
<1> QED BY <1>2, <1>3, <1>5, <1>6

\* Sending is what is said of the messages and of each task.
LEMMA SendingIs ==
  ASSUME NEW m, NEW h, NEW q, NEW dn
  PROVE  Sending(m, h, q, dn) <=>
           /\ Phases(m, h) /\ \A i \in DOMAIN q : Says(m, q[i])
           /\ \A i \in DOMAIN dn : Says(m, dn[i].task)
BY DEF Sending, Phases, Says

\* If a message is not waiting for a task no task is about it, and no other one either
\* as long as it is under way.
LEMMA NoTask ==
  ASSUME NEW m, NEW h, NEW q, NEW dn, Sending(m, h, q, dn), IsQueue(q, h), IsDone(dn, h),
         NEW x \in Txn,
         \/ m[x] \in {"sending", "accepted"}
         \/ \A y \in Txn : m[y] \in {"new", "sent", "failed"}
  PROVE  /\ \A i \in DOMAIN q : q[i].then \notin {"send", "set id"}
         /\ \A i \in DOMAIN dn : dn[i].task.then \notin {"send", "set id"}
         /\ {"send", "set id"} \cap (Thens(q) \cup DoneThens(dn)) = {}
<1>1. ASSUME NEW t \in Task(h), Says(m, t), t.then \in {"send", "set id"}
      PROVE  FALSE
  <2>1. PICK y \in Txn : t.events[1].txn = y
    BY <1>1, SendTask
  <2>2. m[y] \in {"storing", "restoring"}
    BY <1>1, <2>1 DEF Says
  <2>3. m[x] \in {"sending", "accepted"}
    BY <2>2
  <2>4. x = y
    BY <2>2, <2>3 DEF Sending, Under
  <2> QED BY <2>2, <2>3, <2>4
<1>2. \A i \in DOMAIN q : q[i] \in Task(h) /\ Says(m, q[i])
  <2>1. \A i \in DOMAIN q : q[i] \in Task(h)
    BY DEF IsQueue
  <2> QED BY <2>1, SendingIs
<1>3. \A i \in DOMAIN dn : dn[i].task \in Task(h) /\ Says(m, dn[i].task)
  BY DEF IsDone, Sending, Says
<1>4. /\ \A i \in DOMAIN q : q[i].then \notin {"send", "set id"}
      /\ \A i \in DOMAIN dn : dn[i].task.then \notin {"send", "set id"}
  BY <1>1, <1>2, <1>3
<1> QED BY <1>4 DEF Thens, DoneThens

\* A message goes on, and a task may be queued for it.
LEMMA SendTyped ==
  ASSUME TypeInv, NEW x \in Txn, Send(x)
  PROVE  TypeInv'
<1>1. /\ history' = history /\ client' = client /\ db' = db /\ done' = done
      /\ \A y \in Txn : message[y] \in {"new", "sent", "failed"}
      /\ message[x] = "new" /\ message' = [message EXCEPT ![x] = "storing"]
      /\ shown' = [shown EXCEPT !.list = Append(shown.list, Echo(x))]
  BY DEF Send, TypeInv, IsShown
<1>2. PICK t : t = Adding(<<Echo(x)>>, FALSE, "send")
  OBVIOUS
<1>3. PICK p : p = Append(queue, t)
  OBVIOUS
<1>4. queue' = p
  BY <1>2, <1>3 DEF Send
<1>5. t \in Task(history) /\ t.then = "send" /\ t.events[1] = Echo(x)
  <2>1. t \in Task(history)
    BY <1>2, TasksAre
  <2>2. PICK es : es = <<Echo(x)>>
    OBVIOUS
  <2>3. t.then = "send" /\ t.events = es /\ es[1] = Echo(x)
    BY <1>2, <2>2 DEF Adding
  <2> QED BY <2>1, <2>3
<1>6. /\ \A i \in DOMAIN queue : queue[i].then \notin {"send", "set id"}
      /\ \A i \in DOMAIN done : done[i].task.then \notin {"send", "set id"}
      /\ {"send", "set id"} \cap (Thens(queue) \cup DoneThens(done)) = {}
  BY <1>1, NoTask DEF TypeInv
<1>7. IsQueue(p, history) /\ Alone(p, done) /\ Longer(p, queue, t)
    /\ Wider(Thens(p), Thens(queue), t.then)
  <2>1. t.then \notin Thens(queue) \cup DoneThens(done)
    BY <1>5, <1>6
  <2> QED BY <1>3, <1>5, <2>1, QueuePut DEF TypeInv
<1>8. IsShown(shown', history) /\ shown'.loading = shown.loading
  <2>1. PICK listed : listed = Append(shown.list, Echo(x))
    OBVIOUS
  <2>2. listed \in Seq(Plain)
    BY <2>1, EchoIs DEF TypeInv, IsShown
  <2>3. shown' = [shown EXCEPT !.list = listed]
    BY <1>1, <2>1
  <2> QED BY <2>2, <2>3 DEF TypeInv, IsShown
<1>9. Flags(client, shown', p, done)
  BY <1>5, <1>7, <1>8 DEF TypeInv, Flags, Wider
<1>10. Sending(message', history, p, done)
  <2>1. Phases(message', history)
    BY <1>1 DEF TypeInv, Sending, Phases, Under, MessageStates
  <2>2. \A i \in DOMAIN done : Says(message', done[i].task)
    BY <1>6 DEF Says
  <2>3. \A i \in DOMAIN p : Says(message', p[i])
    <3>1. Says(message', t)
      <4>1. t.events[1].txn = x
        BY <1>5, EchoIs
      <4>2. message'[x] = "storing"
        BY <1>1 DEF TypeInv, Sending
      <4> QED BY <1>5, <4>1, <4>2 DEF Says
    <3>2. \A i \in DOMAIN queue : Says(message', queue[i])
      BY <1>6 DEF Says
    <3>3. PICK n : n = Len(queue)
      OBVIOUS
    <3>4. /\ n \in Nat /\ DOMAIN queue = 1 .. n /\ DOMAIN p = 1 .. n + 1
          /\ \A i \in 1 .. n : p[i] = queue[i]
          /\ p[n + 1] = t
      BY <1>7, <3>3 DEF Longer
    <3> QED BY <3>1, <3>2, <3>4, OneMore, Zenon
  <2> QED BY <2>1, <2>2, <2>3, SendingIs
<1> QED BY <1>1, <1>4, <1>7, <1>8, <1>9, <1>10 DEF TypeInv
\* The server takes the message.
LEMMA AcceptTyped ==
  ASSUME TypeInv, NEW x \in Txn, Accept(x)
  PROVE  TypeInv'
<1>1. /\ shown' = shown /\ client' = client /\ db' = db /\ done' = done /\ queue' = queue
      /\ message[x] = "sending" /\ message' = [message EXCEPT ![x] = "accepted"]
      /\ IsHistory(history) /\ Len(history) < MaxEvents
  BY DEF Accept, TypeInv
<1>2. PICK e : e = Posted(Len(history) + 1, x, me, TRUE)
  OBVIOUS
<1>3. PICK g : g = Append(history, e)
  OBVIOUS
<1>4. history' = g
  BY <1>2, <1>3 DEF Accept
<1>5. /\ e \in Plain /\ e.uid = Len(history) + 1 /\ e.txn = x /\ e.message = TRUE
      /\ e.sender = me /\ e.replaces = NULL
  <2>1. PICK b : b = TRUE
    OBVIOUS
  <2>2. b \in BOOLEAN /\ me \in User /\ x \in Txn \cup {NULL}
      /\ e = Posted(Len(history) + 1, x, me, b)
    BY <1>2, <2>1, NamesAssumption
  <2>3. /\ e \in Plain /\ e.uid = Len(history) + 1 /\ e.txn = x /\ e.message = b
        /\ e.sender = me /\ e.replaces = NULL
    BY <1>1, <2>2, PostedIs
  <2> QED BY <2>1, <2>3, Zenon
<1>6. x \notin Txns(history) /\ x # NULL
  BY <1>1, NamesAssumption DEF TypeInv, Sending
<1>7. /\ IsHistory(g) /\ Longer(g, history, e)
      /\ IF e.txn = NULL THEN Txns(g) = Txns(history) ELSE Wider(Txns(g), Txns(history), e.txn)
  <2>1. e.message
    BY <1>5
  <2> QED BY <1>1, <1>3, <1>5, <1>6, <2>1, HistoryGrows
<1>8. Wider(Txns(g), Txns(history), x)
  BY <1>5, <1>6, <1>7
<1>9. /\ IsClient(client, g) /\ IsShown(shown, g)
      /\ IsQueue(queue, g) /\ IsDone(done, g) /\ IsTables(db, g)
  <2>1. Txns(history) \subseteq Txns(g)
    BY <1>8 DEF Wider
  <2> QED BY <1>7, <2>1, GrowsTyped DEF TypeInv, Longer
<1>10. /\ \A i \in DOMAIN queue : queue[i].then \notin {"send", "set id"}
       /\ \A i \in DOMAIN done : done[i].task.then \notin {"send", "set id"}
       /\ {"send", "set id"} \cap (Thens(queue) \cup DoneThens(done)) = {}
  BY <1>1, NoTask DEF TypeInv
<1>11. Sending(message', g, queue, done)
  <2>1. Phases(message', g)
    BY <1>1, <1>8 DEF TypeInv, Sending, Phases, Under, MessageStates, Wider
  <2>2. /\ \A i \in DOMAIN done : Says(message', done[i].task)
        /\ \A i \in DOMAIN queue : Says(message', queue[i])
    BY <1>10 DEF Says
  <2> QED BY <2>1, <2>2, SendingIs
<1> QED BY <1>1, <1>4, <1>7, <1>9, <1>11 DEF TypeInv

\* The answer to a message has come.
LEMMA SentTyped ==
  ASSUME TypeInv, NEW x \in Txn, Sent(x)
  PROVE  TypeInv'
<1>1. /\ history' = history /\ client' = client /\ db' = db /\ done' = done /\ shown' = shown
      /\ message[x] = "accepted" /\ message' = [message EXCEPT ![x] = "restoring"]
  BY DEF Sent
<1>2. PICK t : t = Adding(<<Echo(x)>>, FALSE, "set id")
  OBVIOUS
<1>3. PICK p : p = Append(queue, t)
  OBVIOUS
<1>4. queue' = p
  BY <1>2, <1>3 DEF Sent
<1>5. t \in Task(history) /\ t.then = "set id" /\ t.events[1] = Echo(x)
  <2>1. x \in Txn \cap Txns(history)
    BY <1>1 DEF TypeInv, Sending
  <2>2. t \in Task(history)
    BY <1>2, <2>1, TasksAre
  <2>3. PICK es : es = <<Echo(x)>>
    OBVIOUS
  <2>4. t.then = "set id" /\ t.events = es /\ es[1] = Echo(x)
    BY <1>2, <2>3 DEF Adding
  <2> QED BY <2>2, <2>4
<1>6. /\ \A i \in DOMAIN queue : queue[i].then \notin {"send", "set id"}
      /\ \A i \in DOMAIN done : done[i].task.then \notin {"send", "set id"}
      /\ {"send", "set id"} \cap (Thens(queue) \cup DoneThens(done)) = {}
  BY <1>1, NoTask DEF TypeInv
<1>7. IsQueue(p, history) /\ Alone(p, done) /\ Longer(p, queue, t)
    /\ Wider(Thens(p), Thens(queue), t.then)
  <2>1. t.then \notin Thens(queue) \cup DoneThens(done)
    BY <1>5, <1>6
  <2> QED BY <1>3, <1>5, <2>1, QueuePut DEF TypeInv
<1>8. Flags(client, shown, p, done)
  BY <1>5, <1>7 DEF TypeInv, Flags, Wider
<1>9. Sending(message', history, p, done)
  <2>1. Phases(message', history)
    BY <1>1 DEF TypeInv, Sending, Phases, Under, MessageStates
  <2>2. \A i \in DOMAIN done : Says(message', done[i].task)
    BY <1>6 DEF Says
  <2>3. \A i \in DOMAIN p : Says(message', p[i])
    <3>1. Says(message', t)
      <4>1. t.events[1].txn = x
        BY <1>5, EchoIs
      <4>2. message'[x] = "restoring"
        BY <1>1 DEF TypeInv, Sending
      <4> QED BY <1>5, <4>1, <4>2 DEF Says
    <3>2. \A i \in DOMAIN queue : Says(message', queue[i])
      BY <1>6 DEF Says
    <3>3. PICK n : n = Len(queue)
      OBVIOUS
    <3>4. /\ n \in Nat /\ DOMAIN queue = 1 .. n /\ DOMAIN p = 1 .. n + 1
          /\ \A i \in 1 .. n : p[i] = queue[i]
          /\ p[n + 1] = t
      BY <1>7, <3>3 DEF Longer
    <3> QED BY <3>1, <3>2, <3>4, OneMore, Zenon
  <2> QED BY <2>1, <2>2, <2>3, SendingIs
<1> QED BY <1>1, <1>4, <1>7, <1>8, <1>9 DEF TypeInv

\* A message fails.
LEMMA SendFailedTyped ==
  ASSUME TypeInv, NEW x \in Txn, SendFailed(x)
  PROVE  TypeInv'
<1>1. /\ history' = history /\ client' = client /\ db' = db /\ done' = done /\ shown' = shown
      /\ queue' = queue
      /\ message[x] \in {"sending", "accepted"} /\ message' = [message EXCEPT ![x] = "failed"]
  BY DEF SendFailed
<1>2. /\ \A i \in DOMAIN queue : queue[i].then \notin {"send", "set id"}
      /\ \A i \in DOMAIN done : done[i].task.then \notin {"send", "set id"}
      /\ {"send", "set id"} \cap (Thens(queue) \cup DoneThens(done)) = {}
  BY <1>1, NoTask DEF TypeInv
<1>3. Phases(message', history)
  BY <1>1 DEF TypeInv, Sending, Phases, Under, MessageStates
<1>4. /\ \A i \in DOMAIN done : Says(message', done[i].task)
      /\ \A i \in DOMAIN queue : Says(message', queue[i])
  BY <1>2 DEF Says
<1>5. Sending(message', history, queue, done)
  BY <1>3, <1>4, SendingIs
<1> QED BY <1>1, <1>5 DEF TypeInv

-----------------------------------------------------------------------------
(* What follows a task.                                                    *)

\* The set S has one element less than T.
Narrower(S, T, x) == S = T \ {x}

\* A sequence is one of its elements.
LEMMA RangeIs ==
  ASSUME NEW S, NEW s \in Seq(S)
  PROVE  s \in Seq(Range(s))
<1>1. Len(s) \in Nat /\ DOMAIN s = 1 .. Len(s) /\ s = [i \in 1 .. Len(s) |-> s[i]]
  OBVIOUS
<1>2. \A i \in 1 .. Len(s) : s[i] \in Range(s)
  BY <1>1 DEF Range
<1> QED BY <1>1, <1>2

\* q without its first element
Later(r, q) ==
  /\ Len(q) \in Nat /\ Len(q) > 0 /\ Len(r) = Len(q) - 1
  /\ DOMAIN q = 1 .. Len(q) /\ DOMAIN r = 1 .. Len(q) - 1
  /\ \A i \in DOMAIN r : i + 1 \in DOMAIN q /\ r[i] = q[i + 1]

\* A task that has run is taken out.
LEMMA DoneTaken ==
  ASSUME NEW h, NEW q, NEW dn, IsDone(dn, h), Alone(q, dn), dn # <<>>, NEW e, e = Head(dn),
         NEW r, r = Tail(dn)
  PROVE  /\ IsDone(r, h) /\ Alone(q, r) /\ Later(r, dn)
         /\ Narrower(DoneThens(r), DoneThens(dn), e.task.then)
         /\ e.task.then \in DoneThens(dn) /\ e.task.then \notin Thens(q) /\ e.task.then # "nothing"
         /\ e = dn[1] /\ e.task \in Task(h)
         /\ e.task.then = "past" => e.result \in Seq(Plain)
<1>1. dn \in Seq(Range(dn))
  BY DEF IsDone
<1>2. /\ e = dn[1] /\ r \in Seq(Range(dn))
      /\ Len(dn) \in Nat /\ Len(dn) > 0 /\ DOMAIN dn = 1 .. Len(dn)
      /\ DOMAIN r = 1 .. Len(dn) - 1
      /\ \A i \in DOMAIN r : i + 1 \in DOMAIN dn /\ r[i] = dn[i + 1]
  BY <1>1, TakeFirst
<1>3. 1 \in DOMAIN dn /\ \A i \in DOMAIN r : i + 1 # 1
  BY <1>2
<1>4. e.task \in Task(h) /\ (e.task.then = "past" => e.result \in Seq(Plain))
  BY <1>2, <1>3 DEF IsDone
<1>5. IsDone(r, h)
  <2>1. r \in Seq(Range(r))
    BY <1>2, RangeIs
  <2> QED BY <1>2, <2>1 DEF IsDone
<1>6. \A i, j \in DOMAIN dn : dn[i].task.then = dn[j].task.then => i = j
  BY DEF Alone
<1>7. DoneThens(r) = DoneThens(dn) \ {e.task.then}
  <2>1. \A i \in DOMAIN dn : i = 1 \/ (i - 1 \in DOMAIN r /\ r[i - 1] = dn[i])
    <3> SUFFICES ASSUME NEW i \in DOMAIN dn, i # 1
                 PROVE  i - 1 \in DOMAIN r /\ r[i - 1] = dn[i]
      OBVIOUS
    <3>1. i \in 1 .. Len(dn) /\ i - 1 \in 1 .. Len(dn) - 1 /\ (i - 1) + 1 = i
      BY <1>2
    <3> QED BY <1>2, <3>1
  <2>2. \A i \in DOMAIN r : dn[i + 1].task.then # e.task.then
    BY <1>2, <1>3, <1>6
  <2>3. ASSUME NEW then \in DoneThens(r) PROVE then \in DoneThens(dn) \ {e.task.then}
    <3>1. PICK i \in DOMAIN r : r[i].task.then = then
      BY <2>3 DEF DoneThens
    <3> QED BY <1>2, <2>2, <3>1 DEF DoneThens
  <2>4. ASSUME NEW then \in DoneThens(dn), then # e.task.then PROVE then \in DoneThens(r)
    <3>1. PICK i \in DOMAIN dn : dn[i].task.then = then
      BY <2>4 DEF DoneThens
    <3>2. i # 1
      BY <1>2, <2>4, <3>1
    <3> QED BY <2>1, <3>1, <3>2 DEF DoneThens
  <2> QED BY <2>3, <2>4
<1>8. Alone(q, r)
  <2>1. \A i, j \in DOMAIN r : r[i].task.then = r[j].task.then => i = j
    <3> SUFFICES ASSUME NEW i \in DOMAIN r, NEW j \in DOMAIN r, r[i].task.then = r[j].task.then
                 PROVE  i = j
      OBVIOUS
    <3>1. i + 1 = j + 1
      BY <1>2, <1>6
    <3>2. i \in Int /\ j \in Int
      BY <1>2
    <3> QED BY <3>1, <3>2
  <2> QED BY <1>7, <2>1 DEF Alone
<1>9. e.task.then \in DoneThens(dn)
  BY <1>2, <1>3 DEF DoneThens
<1>10. Len(r) = Len(dn) - 1
  BY <1>2
<1> QED BY <1>2, <1>4, <1>5, <1>7, <1>8, <1>9, <1>10 DEF Narrower, Later, Alone

\* What is said of the messages still is said of those whose tasks are left.
LEMMA SendingTaken ==
  ASSUME NEW m, NEW h, NEW q, NEW dn, Sending(m, h, q, dn), NEW r, Later(r, dn)
  PROVE  Sending(m, h, q, r)
<1>1. \A i \in DOMAIN r : Says(m, r[i].task)
  BY SendingIs DEF Later
<1> QED BY <1>1, SendingIs
\* A save of the client is done, and repeated if there was a change meanwhile.
LEMMA ClientSavedTyped ==
  ASSUME TypeInv, ClientSaved
  PROVE  TypeInv'
<1>1. PICK e, r : e = Head(done) /\ r = Tail(done)
  OBVIOUS
<1>2. /\ history' = history /\ shown' = shown /\ message' = message /\ db' = db /\ done' = r
      /\ done # <<>> /\ e.task.then = "saved"
  BY <1>1 DEF ClientSaved, Follows
<1>3. /\ IsDone(r, history) /\ Alone(queue, r) /\ Later(r, done)
      /\ Narrower(DoneThens(r), DoneThens(done), e.task.then)
      /\ e.task.then \in DoneThens(done) /\ e.task.then \notin Thens(queue)
          /\ e.task.then # "nothing"
      /\ e = done[1] /\ e.task \in Task(history)
      /\ e.task.then = "past" => e.result \in Seq(Plain)
  BY <1>1, <1>2, DoneTaken DEF TypeInv
<1>4. Sending(message, history, queue, r)
  BY <1>3, SendingTaken DEF TypeInv
<1>5. CASE client.saving # "pending"
  <2>1. client' = [client EXCEPT !.saving = "no"] /\ queue' = queue
    BY <1>5 DEF ClientSaved
  <2>2. IsClient(client', history) /\ client'.saving = "no" /\ client'.sync = client.sync
    BY <2>1 DEF TypeInv, IsClient
  <2>3. Flags(client', shown, queue, r)
    BY <1>2, <1>3, <2>2 DEF TypeInv, Flags, Narrower
  <2> QED BY <1>2, <1>3, <1>4, <2>1, <2>2, <2>3 DEF TypeInv
<1>6. CASE client.saving = "pending"
  <2>1. PICK t : t = SavingClient(client.since)
    OBVIOUS
  <2>2. PICK p : p = Append(queue, t)
    OBVIOUS
  <2>3. client' = [client EXCEPT !.saving = "saving"] /\ queue' = p
    BY <1>6, <2>1, <2>2 DEF ClientSaved
  <2>4. IsClient(client', history) /\ client'.saving = "saving" /\ client'.sync = client.sync
    BY <2>3 DEF TypeInv, IsClient
  <2>5. t \in Task(history) /\ t.then = "saved"
    <3>1. client.since \in 0 .. Len(history)
      BY DEF TypeInv, IsClient
    <3> QED BY <2>1, <3>1, TasksAre DEF SavingClient
  <2>6. "saved" \notin Thens(queue) \cup DoneThens(r)
    BY <1>2, <1>3 DEF Narrower
  <2>7. /\ IsQueue(p, history) /\ Alone(p, r) /\ Sending(message, history, p, r)
        /\ Longer(p, queue, t) /\ Wider(Thens(p), Thens(queue), t.then)
    BY <1>3, <1>4, <2>2, <2>5, <2>6, PutTyped DEF TypeInv
  <2>8. Flags(client', shown, p, r)
    BY <1>2, <1>3, <2>4, <2>5, <2>7 DEF TypeInv, Flags, Wider, Narrower
  <2> QED BY <1>2, <1>3, <2>3, <2>4, <2>7, <2>8 DEF TypeInv
<1> QED BY <1>5, <1>6

\* The next /sync
LEMMA NextSyncTyped ==
  ASSUME TypeInv, NextSync
  PROVE  TypeInv'
<1>1. PICK e, r : e = Head(done) /\ r = Tail(done)
  OBVIOUS
<1>2. /\ history' = history /\ shown' = shown /\ message' = message /\ db' = db /\ done' = r
      /\ done # <<>> /\ e.task.then = "next sync" /\ queue' = queue
      /\ client' = [client EXCEPT !.sync = "waiting"]
  BY <1>1 DEF NextSync, Follows
<1>3. /\ IsDone(r, history) /\ Alone(queue, r) /\ Later(r, done)
      /\ Narrower(DoneThens(r), DoneThens(done), e.task.then)
      /\ e.task.then \in DoneThens(done) /\ e.task.then \notin Thens(queue)
          /\ e.task.then # "nothing"
      /\ e = done[1] /\ e.task \in Task(history)
      /\ e.task.then = "past" => e.result \in Seq(Plain)
  BY <1>1, <1>2, DoneTaken DEF TypeInv
<1>4. Sending(message, history, queue, r)
  BY <1>3, SendingTaken DEF TypeInv
<1>5. IsClient(client', history) /\ client'.saving = client.saving /\ client'.sync = "waiting"
  BY <1>2 DEF TypeInv, IsClient
<1>6. Flags(client', shown, queue, r)
  BY <1>2, <1>3, <1>5 DEF TypeInv, Flags, Narrower
<1> QED BY <1>2, <1>3, <1>4, <1>5, <1>6 DEF TypeInv

\* What was loaded is stored.
LEMMA HistoryStoredTyped ==
  ASSUME TypeInv, HistoryStored
  PROVE  TypeInv'
<1>1. PICK e, r : e = Head(done) /\ r = Tail(done)
  OBVIOUS
<1>2. /\ history' = history /\ client' = client /\ message' = message /\ db' = db /\ done' = r
      /\ done # <<>> /\ e.task.then = "loaded" /\ queue' = queue
      /\ shown' = [shown EXCEPT !.loading = "no"]
  BY <1>1 DEF HistoryStored, Follows
<1>3. /\ IsDone(r, history) /\ Alone(queue, r) /\ Later(r, done)
      /\ Narrower(DoneThens(r), DoneThens(done), e.task.then)
      /\ e.task.then \in DoneThens(done) /\ e.task.then \notin Thens(queue)
          /\ e.task.then # "nothing"
      /\ e = done[1] /\ e.task \in Task(history)
      /\ e.task.then = "past" => e.result \in Seq(Plain)
  BY <1>1, <1>2, DoneTaken DEF TypeInv
<1>4. Sending(message, history, queue, r)
  BY <1>3, SendingTaken DEF TypeInv
<1>5. IsShown(shown', history) /\ shown'.loading = "no"
  BY <1>2, LoadingSet DEF TypeInv
<1>6. shown.loading = "storing"
  BY <1>2, <1>3 DEF TypeInv, Flags
<1>7. Flags(client, shown', queue, r)
  BY <1>2, <1>3, <1>5, <1>6 DEF TypeInv, Flags, Narrower
<1> QED BY <1>2, <1>3, <1>4, <1>5, <1>7 DEF TypeInv

\* What room_get_past_db_events_cb() makes of the room
PastShown(s, events) ==
  IF events # <<>> THEN [s EXCEPT !.loading = "no", !.list = Shown(s.list, events, FALSE)]
  ELSE IF s.prev_batch = NULL THEN [s EXCEPT !.loading = "no"]
  ELSE [s EXCEPT !.loading = "server", !.from = s.prev_batch]

\* What was in the database is shown, or the server is asked.
LEMMA PastLoadedTyped ==
  ASSUME TypeInv, PastLoaded
  PROVE  TypeInv'
<1>1. PICK e, r : e = Head(done) /\ r = Tail(done)
  OBVIOUS
<1>2. /\ history' = history /\ client' = client /\ message' = message /\ db' = db /\ done' = r
      /\ done # <<>> /\ e.task.then = "past" /\ queue' = queue
      /\ shown' = PastShown(shown, e.result)
  <2>1. shown' = LET events == Head(done).result
                 IN  IF events # <<>>
                     THEN [shown EXCEPT !.loading = "no", !.list = Shown(@, events, FALSE)]
                     ELSE IF shown.prev_batch = NULL THEN [shown EXCEPT !.loading = "no"]
                     ELSE [shown EXCEPT !.loading = "server", !.from = shown.prev_batch]
    BY DEF PastLoaded
  <2>2. [shown EXCEPT !.loading = "no", !.list = Shown(@, e.result, FALSE)] =
          [shown EXCEPT !.loading = "no", !.list = Shown(shown.list, e.result, FALSE)]
    BY DEF TypeInv, IsShown
  <2> QED BY <1>1, <2>1, <2>2 DEF PastLoaded, Follows, PastShown
<1>3. /\ IsDone(r, history) /\ Alone(queue, r) /\ Later(r, done)
      /\ Narrower(DoneThens(r), DoneThens(done), e.task.then)
      /\ e.task.then \in DoneThens(done) /\ e.task.then \notin Thens(queue)
          /\ e.task.then # "nothing"
      /\ e = done[1] /\ e.task \in Task(history)
      /\ e.task.then = "past" => e.result \in Seq(Plain)
  BY <1>1, <1>2, DoneTaken DEF TypeInv
<1>4. Sending(message, history, queue, r)
  BY <1>3, SendingTaken DEF TypeInv
<1>5. shown.loading = "db"
  BY <1>2, <1>3 DEF TypeInv, Flags
<1>6. IsShown(shown', history) /\ shown'.loading \in {"no", "server"}
  <2>1. CASE e.result # <<>>
    <3>1. PICK listed : listed = Shown(shown.list, e.result, FALSE)
      OBVIOUS
    <3>2. listed \in Seq(Plain)
      BY <1>2, <1>3, <3>1, ShownTyped DEF TypeInv, IsShown
    <3>3. shown' = [shown EXCEPT !.loading = "no", !.list = listed]
      BY <1>2, <2>1, <3>1 DEF PastShown
    <3> QED BY <3>2, <3>3 DEF TypeInv, IsShown
  <2>2. CASE e.result = <<>> /\ shown.prev_batch = NULL
    <3>1. shown' = [shown EXCEPT !.loading = "no"]
      BY <1>2, <2>2 DEF PastShown
    <3> QED BY <3>1, LoadingSet DEF TypeInv
  <2>3. CASE e.result = <<>> /\ shown.prev_batch # NULL
    <3>1. shown' = [shown EXCEPT !.loading = "server", !.from = shown.prev_batch]
      BY <1>2, <2>3 DEF PastShown
    <3> QED BY <2>3, <3>1 DEF TypeInv, IsShown
  <2> QED BY <2>1, <2>2, <2>3
<1>7. Flags(client, shown', queue, r)
  BY <1>2, <1>3, <1>5, <1>6 DEF TypeInv, Flags, Narrower
<1> QED BY <1>2, <1>3, <1>4, <1>6, <1>7 DEF TypeInv
\* The worker has stored the message, and it is sent.
LEMMA StartSendingTyped ==
  ASSUME TypeInv, NEW x \in Txn, StartSending(x)
  PROVE  TypeInv'
<1>1. PICK e, r : e = Head(done) /\ r = Tail(done)
  OBVIOUS
<1>2. /\ history' = history /\ client' = client /\ shown' = shown /\ db' = db /\ done' = r
      /\ done # <<>> /\ e.task.then = "send" /\ queue' = queue /\ e.task.events[1].txn = x
      /\ message' = [message EXCEPT ![x] = "sending"]
  BY <1>1 DEF StartSending, Follows
<1>3. /\ IsDone(r, history) /\ Alone(queue, r) /\ Later(r, done)
      /\ Narrower(DoneThens(r), DoneThens(done), e.task.then)
      /\ e.task.then \in DoneThens(done) /\ e.task.then \notin Thens(queue)
          /\ e.task.then # "nothing"
      /\ e = done[1] /\ e.task \in Task(history)
      /\ e.task.then = "past" => e.result \in Seq(Plain)
  BY <1>1, <1>2, DoneTaken DEF TypeInv
<1>4. message[x] = "storing"
  <2>1. 1 \in DOMAIN done
    BY <1>3 DEF Later
  <2> QED BY <1>2, <1>3, <2>1 DEF TypeInv, Sending
<1>5. Phases(message', history)
  BY <1>2, <1>4 DEF TypeInv, Sending, Phases, Under, MessageStates
<1>6. Sending(message, history, queue, r)
  BY <1>3, SendingTaken DEF TypeInv
<1>7. ASSUME NEW t \in Task(history), Says(message, t), t.then # "send"
      PROVE  Says(message', t)
  <2>1. CASE t.then = "set id"
    <3>1. PICK y \in Txn : t.events[1].txn = y
      BY <2>1, SendTask
    <3>2. message[y] = "restoring"
      BY <1>7, <2>1, <3>1 DEF Says
    <3>3. y # x /\ message'[y] = message[y]
      BY <1>2, <1>4, <3>2 DEF TypeInv, Sending
    <3>4. message'[t.events[1].txn] = "restoring"
      BY <3>1, <3>2, <3>3
    <3> QED BY <2>1, <3>4 DEF Says
  <2>2. CASE t.then # "set id"
    BY <1>7, <2>2 DEF Says
  <2> QED BY <2>1, <2>2
<1>8. \A i \in DOMAIN queue : Says(message', queue[i])
  <2>1. \A i \in DOMAIN queue : /\ queue[i] \in Task(history) /\ Says(message, queue[i])
                                /\ queue[i].then \in Thens(queue)
    BY <1>6, SendingIs DEF TypeInv, IsQueue, Thens
  <2>2. "send" \notin Thens(queue)
    BY <1>2, <1>3
  <2> QED BY <1>7, <2>1, <2>2
<1>9. \A i \in DOMAIN r : Says(message', r[i].task)
  <2>1. \A i \in DOMAIN r : /\ r[i].task \in Task(history) /\ Says(message, r[i].task)
                            /\ r[i].task.then \in DoneThens(r)
    BY <1>3, <1>6, SendingIs DEF IsDone, DoneThens
  <2>2. "send" \notin DoneThens(r)
    BY <1>2, <1>3 DEF Narrower
  <2> QED BY <1>7, <2>1, <2>2
<1>10. Sending(message', history, queue, r)
  BY <1>5, <1>8, <1>9, SendingIs
<1>11. Flags(client, shown, queue, r)
  BY <1>2, <1>3 DEF TypeInv, Flags, Narrower
<1> QED BY <1>2, <1>3, <1>10, <1>11 DEF TypeInv

\* The ID the server gave a message of ours
LEMMA UidIs ==
  ASSUME NEW x \in Txn, IsHistory(history), x \in Txns(history)
  PROVE  UidOf(x) \in DOMAIN history /\ history[UidOf(x)].txn = x /\ UidOf(x) \in Uid
<1>1. \E i \in DOMAIN history : history[i].txn = x
  BY DEF Txns
<1>2. UidOf(x) \in DOMAIN history /\ history[UidOf(x)].txn = x
  BY <1>1 DEF UidOf
<1>3. DOMAIN history \subseteq Uid
  <2>1. history \in Seq(Plain) /\ Len(history) <= MaxEvents /\ MaxEvents \in Nat
    BY BoundsAssumption DEF IsHistory
  <2> QED BY <2>1, HistoryAssumption
<1> QED BY <1>2, <1>3

\* The list with the ID of the message
WithId(list, x, uid) ==
  [i \in DOMAIN list |-> IF list[i] = Echo(x) THEN [list[i] EXCEPT !.uid = uid] ELSE list[i]]

\* An ID that is set makes an event of an event.
LEMMA WithIdTyped ==
  ASSUME NEW list \in Seq(Plain), NEW x \in Txn, NEW uid \in Uid
  PROVE  /\ WithId(list, x, uid) \in Seq(Plain) /\ Len(WithId(list, x, uid)) = Len(list)
         /\ \A i \in 1 .. Len(list) :
              WithId(list, x, uid)[i] = IF list[i] = Echo(x) THEN [Echo(x) EXCEPT !.uid = uid]
                                        ELSE list[i]
         /\ [Echo(x) EXCEPT !.uid = uid] \in Plain
<1>1. PICK e : e = [Echo(x) EXCEPT !.uid = uid]
  OBVIOUS
<1>2. e \in Plain
  BY <1>1, EchoIs DEF Plain, Event
<1>3. PICK w : w = WithId(list, x, uid)
  OBVIOUS
<1>4. DOMAIN list = 1 .. Len(list) /\ Len(list) \in Nat /\ \A i \in 1 .. Len(list) :
    list[i] \in Plain
  OBVIOUS
<1>5. w = [i \in 1 .. Len(list) |-> IF list[i] = Echo(x) THEN e ELSE list[i]]
  BY <1>1, <1>3, <1>4 DEF WithId
<1>6. w \in Seq(Plain) /\ Len(w) = Len(list)
      /\ \A i \in 1 .. Len(list) : w[i] = IF list[i] = Echo(x) THEN e ELSE list[i]
  BY <1>2, <1>4, <1>5
<1> QED BY <1>1, <1>2, <1>3, <1>6

\* The message has its ID.
LEMMA SetIdTyped ==
  ASSUME TypeInv, NEW x \in Txn, SetId(x)
  PROVE  TypeInv'
<1>1. PICK e, r : e = Head(done) /\ r = Tail(done)
  OBVIOUS
<1>2. /\ history' = history /\ client' = client /\ db' = db /\ done' = r
      /\ done # <<>> /\ e.task.then = "set id" /\ queue' = queue /\ e.task.events[1].txn = x
      /\ message' = [message EXCEPT ![x] = "sent"]
  BY <1>1 DEF SetId, Follows
<1>3. /\ IsDone(r, history) /\ Alone(queue, r) /\ Later(r, done)
      /\ Narrower(DoneThens(r), DoneThens(done), e.task.then)
      /\ e.task.then \in DoneThens(done) /\ e.task.then \notin Thens(queue)
          /\ e.task.then # "nothing"
      /\ e = done[1] /\ e.task \in Task(history)
      /\ e.task.then = "past" => e.result \in Seq(Plain)
  BY <1>1, <1>2, DoneTaken DEF TypeInv
<1>4. message[x] = "restoring"
  <2>1. 1 \in DOMAIN done
    BY <1>3 DEF Later
  <2> QED BY <1>2, <1>3, <2>1 DEF TypeInv, Sending
<1>5. Phases(message', history)
  BY <1>2, <1>4 DEF TypeInv, Sending, Phases, Under, MessageStates
<1>6. Sending(message, history, queue, r)
  BY <1>3, SendingTaken DEF TypeInv
<1>7. ASSUME NEW t \in Task(history), Says(message, t), t.then # "set id"
      PROVE  Says(message', t)
  <2>1. CASE t.then = "send"
    <3>1. PICK y \in Txn : t.events[1].txn = y
      BY <2>1, SendTask
    <3>2. message[y] = "storing"
      BY <1>7, <2>1, <3>1 DEF Says
    <3>3. y # x /\ message'[y] = message[y]
      BY <1>2, <1>4, <3>2 DEF TypeInv, Sending
    <3>4. message'[t.events[1].txn] = "storing"
      BY <3>1, <3>2, <3>3
    <3> QED BY <2>1, <3>4 DEF Says
  <2>2. CASE t.then # "send"
    BY <1>7, <2>2 DEF Says
  <2> QED BY <2>1, <2>2
<1>8. \A i \in DOMAIN queue : Says(message', queue[i])
  <2>1. \A i \in DOMAIN queue : /\ queue[i] \in Task(history) /\ Says(message, queue[i])
                                /\ queue[i].then \in Thens(queue)
    BY <1>6, SendingIs DEF TypeInv, IsQueue, Thens
  <2>2. "set id" \notin Thens(queue)
    BY <1>2, <1>3
  <2> QED BY <1>7, <2>1, <2>2
<1>9. \A i \in DOMAIN r : Says(message', r[i].task)
  <2>1. \A i \in DOMAIN r : /\ r[i].task \in Task(history) /\ Says(message, r[i].task)
                            /\ r[i].task.then \in DoneThens(r)
    BY <1>3, <1>6, SendingIs DEF IsDone, DoneThens
  <2>2. "set id" \notin DoneThens(r)
    BY <1>2, <1>3 DEF Narrower
  <2> QED BY <1>7, <2>1, <2>2
<1>10. Sending(message', history, queue, r)
  BY <1>5, <1>8, <1>9, SendingIs
<1>11. IsShown(shown', history) /\ shown'.loading = shown.loading
  <2>1. PICK listed : listed = WithId(shown.list, x, UidOf(x))
    OBVIOUS
  <2>2. shown' = [shown EXCEPT !.list = listed]
    BY <2>1 DEF SetId, WithId, TypeInv, IsShown
  <2>3. UidOf(x) \in Uid
    BY <1>4, UidIs DEF TypeInv, Sending
  <2>4. listed \in Seq(Plain)
    BY <2>1, <2>3, WithIdTyped DEF TypeInv, IsShown
  <2> QED BY <2>2, <2>4 DEF TypeInv, IsShown
<1>12. Flags(client, shown', queue, r)
  BY <1>2, <1>3, <1>11 DEF TypeInv, Flags, Narrower
<1> QED BY <1>2, <1>3, <1>10, <1>11, <1>12 DEF TypeInv
-----------------------------------------------------------------------------
(* The worker.                                                             *)

\* What db_save_client() changes, as far as the room is concerned
SavesClient(d, e, batch) ==
  /\ DOMAIN e = DOMAIN d /\ e.events = d.events /\ e.account
  /\ e.rooms = d.rooms /\ e.replaced = d.replaced /\ e.state = d.state
  /\ e.prev_batch = d.prev_batch /\ e.cache = d.cache /\ e.next_batch = batch

\* What db_save_room() changes
SavesRoom(d, e, prev) ==
  /\ DOMAIN e = DOMAIN d /\ e.events = d.events /\ e.account = d.account
  /\ e.rooms = d.rooms \cup {room} /\ e.replaced = d.replaced \ {room}
  /\ e.state = [d.state EXCEPT ![room] = "join"]
  /\ e.prev_batch = [d.prev_batch EXCEPT ![room] = prev]
  /\ e.cache = d.cache /\ e.next_batch = d.next_batch

\* What a task does to the tables
Runs(d, t, run) ==
  \/ t.op = "save_client" /\ SavesClient(d, run.db, t.batch)
  \/ t.op = "save_room" /\ SavesRoom(d, run.db, t.prev)
  \/ t.op = "add_events" /\ room \notin d.rooms /\ run.db = d
  \/ /\ t.op = "add_events" /\ room \in d.rooms /\ Same(d, run.db)
     /\ \E R : /\ RowsAre(R, d.events[room], t.events, FirstPlace(d, room, t.prepend),
                          IF t.prepend THEN -1 ELSE 1)
               /\ R[Len(t.events)] = run.db.events[room]
  \/ /\ t.op = "get_past" /\ run.db = d
     /\ run.result = GetPastEvents(d, room, t.from).result /\ run.result \in Seq(Plain)

\* What a task is
TaskIs(t, h) ==
  \/ t.op = "save_client" /\ t.batch \in 0 .. Len(h) /\ t.then = "saved"
  \/ t.op = "save_room" /\ t.prev \in Tokens(h) /\ t.then = "nothing"
  \/ /\ t.op = "add_events" /\ t.events \in Seq(Plain) /\ t.prepend \in BOOLEAN
     /\ t.prepend <=> t.then = "loaded"
     /\ t.then \in {"next sync", "loaded", "send", "set id"}
  \/ t.op = "get_past" /\ t.from \in Uid \cup {NULL} /\ t.then = "past"

\* A task is one of these.
LEMMA TaskKinds ==
  ASSUME NEW h, NEW t \in Task(h)
  PROVE  TaskIs(t, h)
<1>1. CASE t \in SavingTask(h)
  BY <1>1 DEF SavingTask, TaskIs
<1>2. CASE t \in [op : {"add_events"}, events : Seq(Plain), prepend : {FALSE}, then : {"next sync"}]
  BY <1>2 DEF TaskIs
<1>3. CASE t \in [op : {"add_events"}, events : Seq(Plain), prepend : {TRUE}, then : {"loaded"}]
  BY <1>3 DEF TaskIs
<1>4. ASSUME NEW x \in Txn PROVE <<Echo(x)>> \in Seq(Plain)
  <2>1. PICK e : e = Echo(x)
    OBVIOUS
  <2>2. e \in Plain
    BY <2>1, EchoIs
  <2> QED BY <2>1, <2>2
<1>5. Echoes(Txn) \subseteq Seq(Plain) /\ Echoes(Txn \cap Txns(h)) \subseteq Seq(Plain)
  BY <1>4 DEF Echoes
<1>6. CASE t \in [op : {"add_events"}, events : Echoes(Txn), prepend : {FALSE}, then : {"send"}]
  BY <1>5, <1>6 DEF TaskIs
<1>7. CASE t \in [op : {"add_events"}, events : Echoes(Txn \cap Txns(h)), prepend : {FALSE},
                  then : {"set id"}]
  BY <1>5, <1>7 DEF TaskIs
<1>8. CASE t \in [op : {"get_past"}, from : Uid \cup {NULL}, then : {"past"}]
  BY <1>8 DEF TaskIs
<1> QED BY <1>1, <1>2, <1>3, <1>6, <1>7, <1>8 DEF Task, AddingTask

\* db_save_client()
LEMMA SavesClientIs ==
  ASSUME NEW d, Shape(d), NEW batch, NEW run, run = SaveClient(d, batch, TRUE)
  PROVE  SavesClient(d, run.db, batch)
<1>1. run.db = [WithAccount(d) EXCEPT !.next_batch = batch, !.json = TRUE]
  BY DEF SaveClient, Done
<1>2. PICK a : a = WithAccount(d)
  OBVIOUS
<1>3. /\ DOMAIN a = DOMAIN d /\ a.events = d.events /\ a.account = TRUE
      /\ a.rooms = d.rooms /\ a.replaced = d.replaced /\ a.state = d.state
      /\ a.prev_batch = d.prev_batch /\ a.cache = d.cache
  BY <1>2 DEF WithAccount, Shape, NoTables
<1>4. run.db = [a EXCEPT !.next_batch = batch, !.json = TRUE]
  BY <1>1, <1>2
<1>5. /\ DOMAIN run.db = DOMAIN d /\ run.db.events = d.events /\ run.db.account
      /\ run.db.rooms = d.rooms /\ run.db.replaced = d.replaced /\ run.db.state = d.state
      /\ run.db.prev_batch = d.prev_batch /\ run.db.cache = d.cache /\ run.db.next_batch = batch
  BY <1>3, <1>4 DEF Shape, NoTables
<1> QED BY <1>5 DEF SavesClient

\* db_save_room()
LEMMA SavesRoomIs ==
  ASSUME NEW d, Shape(d), d.account, NEW prev, NEW synced, NEW run,
         run = SaveRoom(d, room, prev, "join", NULL, synced)
  PROVE  SavesRoom(d, run.db, prev)
<1>1. PICK a : a = WithRooms(d, {room, NULL} \ {NULL})
  OBVIOUS
<1>2. run.db = [a EXCEPT !.prev_batch[room] = prev, !.state[room] = "join",
         !.replaced = @ \ {room}, !.synced = IF synced THEN @ \cup {room} ELSE @ \ {room}]
  BY <1>1 DEF SaveRoom, Done
<1>3. {room, NULL} \ {NULL} = {room}
  BY NamesAssumption
<1>4. /\ DOMAIN a = DOMAIN d /\ a.events = d.events /\ a.account = d.account
      /\ a.rooms = d.rooms \cup {room} /\ a.replaced = d.replaced /\ a.state = d.state
      /\ a.prev_batch = d.prev_batch /\ a.cache = d.cache /\ a.next_batch = d.next_batch
  BY <1>1, <1>3 DEF WithRooms, Shape, NoTables
<1>5. PICK v : v = IF synced THEN a.synced \cup {room} ELSE a.synced \ {room}
  OBVIOUS
<1>6. run.db = [a EXCEPT !.prev_batch = [a.prev_batch EXCEPT ![room] = prev],
         !.state = [a.state EXCEPT ![room] = "join"],
         !.replaced = a.replaced \ {room}, !.synced = v]
  BY <1>2, <1>5
<1>7. PICK p, q : p = [a.prev_batch EXCEPT ![room] = prev] /\ q = [a.state EXCEPT ![room] = "join"]
  OBVIOUS
<1>8. run.db = [a EXCEPT !.prev_batch = p, !.state = q, !.replaced = a.replaced \ {room},
         !.synced = v]
  BY <1>6, <1>7
<1>9. /\ "prev_batch" \in DOMAIN a /\ "state" \in DOMAIN a /\ "replaced" \in DOMAIN a
      /\ "synced" \in DOMAIN a /\ "events" \in DOMAIN a /\ "account" \in DOMAIN a
      /\ "rooms" \in DOMAIN a /\ "cache" \in DOMAIN a /\ "next_batch" \in DOMAIN a
  BY <1>4 DEF Shape, NoTables
<1>10. PICK r : r = a.replaced \ {room}
  OBVIOUS
<1>11. run.db = [a EXCEPT !.prev_batch = p, !.state = q, !.replaced = r, !.synced = v]
  BY <1>8, <1>10
<1>12. PICK e : e = run.db
  OBVIOUS
<1>13. /\ DOMAIN e = DOMAIN a /\ e.events = a.events /\ e.account = a.account
       /\ e.rooms = a.rooms /\ e.cache = a.cache /\ e.next_batch = a.next_batch
  BY <1>9, <1>11, <1>12
<1>14. e.replaced = r /\ e.state = q /\ e.prev_batch = p
  BY <1>9, <1>11, <1>12
<1> QED BY <1>4, <1>7, <1>10, <1>12, <1>13, <1>14 DEF SavesRoom

\* Every task does what it is for.
LEMMA RanIs ==
  ASSUME NEW h, IsTables(db, h), NEW t \in Task(h), NEW run, run = Ran(t)
  PROVE  Runs(db, t, run)
<1>1. TaskIs(t, h) /\ Shape(db) /\ db.account /\ db.cache[room] = {}
  BY TaskKinds DEF IsTables
<1>2. CASE t.op = "save_client"
  <2>1. run = SaveClient(db, t.batch, TRUE)
    BY <1>2 DEF Ran
  <2> QED BY <1>1, <1>2, <2>1, SavesClientIs DEF Runs
<1>3. CASE t.op = "save_room"
  <2>1. run = SaveRoom(db, room, t.prev, "join", NULL, shown.synced)
    BY <1>3 DEF Ran
  <2> QED BY <1>1, <1>3, <2>1, SavesRoomIs DEF Runs
<1>4. CASE t.op = "add_events"
  <2>1. run = AddRoomEvents(db, room, t.events, t.prepend)
    BY <1>4 DEF Ran
  <2>2. CASE room \notin db.rooms
    BY <1>4, <2>1, <2>2 DEF AddRoomEvents, Done, Runs
  <2>3. CASE room \in db.rooms
    <3>1. PICK a : a = EventsAdded(db, room, t.events, t.prepend)
      OBVIOUS
    <3>2. run.db = a
      BY <1>1, <2>1, <2>3, <3>1 DEF AddRoomEvents, Done
    <3>3. t.events \in Seq(Plain) /\ t.prepend \in BOOLEAN
      BY <1>1, <1>4 DEF TaskIs
    <3>4. PICK events, prepend : events = t.events /\ prepend = t.prepend
      OBVIOUS
    <3>5. /\ Same(db, a)
          /\ \E R : /\ RowsAre(R, db.events[room], events, FirstPlace(db, room, prepend),
                               IF prepend THEN -1 ELSE 1)
                    /\ R[Len(events)] = a.events[room]
      BY <1>1, <3>1, <3>3, <3>4, EventsAddedIs
    <3> QED BY <1>4, <2>3, <3>2, <3>4, <3>5 DEF Runs
  <2> QED BY <2>2, <2>3
<1>5. CASE t.op = "get_past"
  <2>1. run = GetPastEvents(db, room, t.from)
    BY <1>5 DEF Ran
  <2>2. run.db = db /\ run.result \in Seq(Plain)
    BY <2>1, GetPastTyped DEF IsTables
  <2> QED BY <1>5, <2>1, <2>2 DEF Runs
<1> QED BY <1>1, <1>2, <1>3, <1>4, <1>5 DEF TaskIs

\* The tables stay of their type.
LEMMA RunsTyped ==
  ASSUME NEW h, NEW d, IsTables(d, h), NEW t \in Task(h), NEW run, Runs(d, t, run)
  PROVE  IsTables(run.db, h)
<1>1. TaskIs(t, h)
  BY TaskKinds
<1>2. CASE t.op = "save_client" /\ SavesClient(d, run.db, t.batch)
  <2>1. t.batch \in Tokens(h)
    BY <1>1, <1>2 DEF TaskIs, Tokens
  <2> QED BY <1>2, <2>1 DEF SavesClient, IsTables, Shape
<1>3. CASE t.op = "save_room" /\ SavesRoom(d, run.db, t.prev)
  <2>1. t.prev \in Tokens(h)
    BY <1>1, <1>3 DEF TaskIs
  <2>2. PICK e : e = run.db
    OBVIOUS
  <2>3. /\ DOMAIN e = DOMAIN d /\ e.events = d.events /\ e.account /\ e.cache = d.cache
        /\ e.next_batch = d.next_batch /\ e.prev_batch[room] = t.prev
        /\ DOMAIN e.prev_batch = DOMAIN d.prev_batch /\ DOMAIN e.state = DOMAIN d.state
    BY <1>3, <2>2 DEF SavesRoom, IsTables, Shape
  <2> QED BY <2>1, <2>2, <2>3 DEF IsTables, Shape
<1>4. CASE run.db = d
  BY <1>4
<1>5. ASSUME t.op = "add_events", Same(d, run.db), NEW R,
             RowsAre(R, d.events[room], t.events, FirstPlace(d, room, t.prepend),
                     IF t.prepend THEN -1 ELSE 1),
             R[Len(t.events)] = run.db.events[room]
      PROVE  IsTables(run.db, h)
  <2>1. PICK events, prepend : events = t.events /\ prepend = t.prepend
    OBVIOUS
  <2>2. events \in Seq(Plain) /\ prepend \in BOOLEAN
    BY <1>1, <1>5, <2>1 DEF TaskIs
  <2>3. IsRows(d.events[room])
    BY DEF IsTables
  <2>4. PICK first : first = FirstPlace(d, room, prepend)
    OBVIOUS
  <2>5. first \in Int /\ \A row \in d.events[room] : IF prepend THEN first < row.sorted_id
                                                     ELSE first > row.sorted_id
    BY <2>2, <2>3, <2>4, FirstPlaceIs
  <2>6. RowsAre(R, d.events[room], events, first, IF prepend THEN -1 ELSE 1)
    BY <1>5, <2>1, <2>4
  <2>7. \A k \in 0 .. Len(events) : IsRows(R[k])
    BY <2>2, <2>3, <2>5, <2>6, RowsTyped
  <2>8. IsRows(run.db.events[room])
    <3>1. Len(events) \in 0 .. Len(events)
      BY <2>2
    <3> QED BY <1>5, <2>1, <2>7, <3>1
  <2> QED BY <1>5, <2>8 DEF Same, IsTables, Shape
<1> QED BY <1>2, <1>3, <1>4, <1>5 DEF Runs

\* The worker takes the first task.
LEMMA QueueTaken ==
  ASSUME NEW h, NEW q, IsQueue(q, h), NEW dn, Alone(q, dn), q # <<>>, NEW t, t = Head(q),
         NEW r, r = Tail(q)
  PROVE  /\ IsQueue(r, h) /\ Alone(r, dn) /\ Later(r, q) /\ t = q[1] /\ t \in Task(h)
         /\ Wider(Thens(q), Thens(r), t.then)
         /\ t.then # "nothing" => t.then \notin Thens(r) \cup DoneThens(dn)
<1>1. /\ t \in Task(h) /\ t = q[1] /\ r \in Seq(Task(h)) /\ Len(q) \in Nat /\ Len(q) > 0
      /\ DOMAIN q = 1 .. Len(q) /\ DOMAIN r = 1 .. Len(q) - 1
      /\ \A i \in DOMAIN r : i + 1 \in DOMAIN q /\ r[i] = q[i + 1]
  BY TakeFirst DEF IsQueue
<1>2. 1 \in DOMAIN q /\ \A i \in DOMAIN r : i \in Int /\ i + 1 # 1
  BY <1>1
<1>3. Len(r) = Len(q) - 1
  BY <1>1
<1>4. \A i \in DOMAIN q : i = 1 \/ (i - 1 \in DOMAIN r /\ r[i - 1] = q[i])
  <2> SUFFICES ASSUME NEW i \in DOMAIN q, i # 1
               PROVE  i - 1 \in DOMAIN r /\ r[i - 1] = q[i]
    OBVIOUS
  <2>1. i \in 1 .. Len(q) /\ i - 1 \in 1 .. Len(q) - 1 /\ (i - 1) + 1 = i
    BY <1>1
  <2> QED BY <1>1, <2>1
<1>5. Thens(q) = Thens(r) \cup {t.then}
  <2>1. ASSUME NEW then \in Thens(q), then # t.then PROVE then \in Thens(r)
    <3>1. PICK i \in DOMAIN q : q[i].then = then
      BY <2>1 DEF Thens
    <3>2. i # 1
      BY <1>1, <2>1, <3>1
    <3> QED BY <1>4, <3>1, <3>2 DEF Thens
  <2>2. ASSUME NEW then \in Thens(r) PROVE then \in Thens(q)
    <3>1. PICK i \in DOMAIN r : r[i].then = then
      BY <2>2 DEF Thens
    <3> QED BY <1>1, <3>1 DEF Thens
  <2>3. t.then \in Thens(q)
    BY <1>1, <1>2 DEF Thens
  <2> QED BY <2>1, <2>2, <2>3
<1>6. t.then # "nothing" => t.then \notin Thens(r)
  <2> SUFFICES ASSUME t.then # "nothing", NEW i \in DOMAIN r, r[i].then = t.then
               PROVE  FALSE
    BY DEF Thens
  <2> QED BY <1>1, <1>2 DEF Alone
<1>7. Alone(r, dn)
  <2>1. ASSUME NEW i \in DOMAIN r, NEW j \in DOMAIN r, r[i].then = r[j].then, r[i].then # "nothing"
        PROVE  i = j
    <3>1. i + 1 = j + 1
      BY <1>1, <2>1 DEF Alone
    <3> QED BY <1>2, <3>1
  <2> QED BY <1>5, <2>1 DEF Alone
<1>8. t.then \notin DoneThens(dn)
  BY <1>5 DEF Alone
<1> QED BY <1>1, <1>3, <1>5, <1>6, <1>7, <1>8 DEF IsQueue, Later, Wider

\* The task has run.
LEMMA DonePut ==
  ASSUME NEW h, NEW r, NEW dn, IsDone(dn, h), Alone(r, dn), NEW e, e.task \in Task(h),
         e.task.then = "past" => e.result \in Seq(Plain), e.task.then # "nothing",
         e.task.then \notin Thens(r) \cup DoneThens(dn), NEW p, p = Append(dn, e)
  PROVE  /\ IsDone(p, h) /\ Alone(r, p) /\ Longer(p, dn, e)
         /\ Wider(DoneThens(p), DoneThens(dn), e.task.then)
<1>1. PICK S : S = Range(dn) \cup {e}
  OBVIOUS
<1>2. dn \in Seq(S) /\ e \in S
  BY <1>1 DEF IsDone
<1>3. /\ p \in Seq(S) /\ Len(dn) \in Nat /\ Len(p) = Len(dn) + 1
      /\ DOMAIN dn = 1 .. Len(dn) /\ DOMAIN p = 1 .. Len(dn) + 1
      /\ \A i \in 1 .. Len(dn) : p[i] = dn[i]
      /\ p[Len(dn) + 1] = e
  BY <1>2, PutLast
<1>4. Longer(p, dn, e)
  BY <1>3 DEF Longer
<1>5. PICK n : n = Len(dn)
  OBVIOUS
<1>6. /\ n \in Nat /\ DOMAIN dn = 1 .. n /\ DOMAIN p = 1 .. n + 1 /\ p[n + 1] = e
      /\ \A i \in 1 .. n : p[i] = dn[i]
  BY <1>3, <1>5
<1>7. /\ \A i \in 1 .. n + 1 : i \in 1 .. n \/ i = n + 1
      /\ \A i \in 1 .. n : i \in 1 .. n + 1
      /\ n + 1 \in 1 .. n + 1 /\ n + 1 \notin 1 .. n
  BY <1>6, OneMore
<1>8. DoneThens(p) = DoneThens(dn) \cup {e.task.then}
  BY <1>6, <1>7, Zenon DEF DoneThens
<1>9. p \in Seq(Range(p))
  BY <1>3, RangeIs
<1>10. \A i \in DOMAIN p : /\ p[i].task \in Task(h)
                           /\ p[i].task.then = "past" => p[i].result \in Seq(Plain)
  BY <1>6, <1>7, Zenon DEF IsDone
<1>11. \A i \in 1 .. n : dn[i].task.then \in DoneThens(dn)
  BY <1>6, Zenon DEF DoneThens
<1>12. \A i, j \in DOMAIN p : p[i].task.then = p[j].task.then => i = j
  <2>1. e.task.then \notin DoneThens(dn)
    OBVIOUS
  <2>2. \A i, j \in 1 .. n : dn[i].task.then = dn[j].task.then => i = j
    BY <1>6 DEF Alone
  <2>3. \A i \in 1 .. n : dn[i].task.then # e.task.then
    BY <1>11, <2>1
  <2> SUFFICES ASSUME NEW i \in 1 .. n + 1, NEW j \in 1 .. n + 1,
                      p[i].task.then = p[j].task.then
               PROVE  i = j
    BY <1>6
  <2>4. CASE i \in 1 .. n /\ j \in 1 .. n
    BY <1>6, <2>2, <2>4
  <2>5. CASE i \in 1 .. n /\ j = n + 1
    BY <1>6, <2>3, <2>5
  <2>6. CASE i = n + 1 /\ j \in 1 .. n
    BY <1>6, <2>3, <2>6
  <2> QED BY <1>7, <2>4, <2>5, <2>6
<1>13. Alone(r, p)
  BY <1>8, <1>12 DEF Alone
<1> QED BY <1>4, <1>8, <1>9, <1>10, <1>13 DEF IsDone, Wider

\* The parts of a step of the worker
WorkStep(t, r, run) ==
  /\ queue # <<>> /\ t = Head(queue) /\ r = Tail(queue) /\ run = Ran(t)
  /\ history' = history /\ client' = client /\ shown' = shown /\ message' = message
  /\ db' = run.db /\ queue' = r
  /\ done' = IF t.then = "nothing" THEN done
             ELSE Append(done, [task |-> t, result |-> run.result])

\* What is true of the parts
WorkParts(t, r, run) ==
  /\ IsQueue(r, history) /\ Later(r, queue) /\ t = queue[1] /\ t \in Task(history)
  /\ Wider(Thens(queue), Thens(r), t.then) /\ Runs(db, t, run) /\ TaskIs(t, history)
  /\ t.then # "nothing" => t.then \notin Thens(r) \cup DoneThens(done)

\* Each step of the worker has these parts.
LEMMA WorkIs ==
  ASSUME TypeInv, Work
  PROVE  \E t, r, run : WorkStep(t, r, run) /\ WorkParts(t, r, run)
<1>1. PICK t, r : t = Head(queue) /\ r = Tail(queue)
  OBVIOUS
<1>2. PICK run : run = Ran(t)
  OBVIOUS
<1>3. WorkStep(t, r, run)
  BY <1>1, <1>2 DEF Work, WorkStep
<1>4. /\ IsQueue(r, history) /\ Alone(r, done) /\ Later(r, queue) /\ t = queue[1]
      /\ t \in Task(history) /\ Wider(Thens(queue), Thens(r), t.then)
      /\ t.then # "nothing" => t.then \notin Thens(r) \cup DoneThens(done)
  BY <1>1, <1>3, QueueTaken DEF TypeInv, WorkStep
<1>5. Runs(db, t, run)
  BY <1>2, <1>4, RanIs DEF TypeInv
<1>6. TaskIs(t, history)
  BY <1>4, TaskKinds
<1> QED BY <1>3, <1>4, <1>5, <1>6 DEF WorkParts

\* The worker runs a task.
LEMMA WorkTyped ==
  ASSUME TypeInv, Work
  PROVE  TypeInv'
<1>1. PICK t, r, run : WorkStep(t, r, run) /\ WorkParts(t, r, run)
  BY WorkIs
<1>2. IsTables(db', history)
  <2>1. IsTables(run.db, history)
    BY <1>1, RunsTyped DEF TypeInv, WorkParts
  <2> QED BY <1>1, <2>1 DEF WorkStep
<1>3. /\ IsQueue(r, history) /\ Alone(r, done) /\ Later(r, queue)
      /\ Wider(Thens(queue), Thens(r), t.then)
  BY <1>1, QueueTaken DEF WorkStep, WorkParts, TypeInv
<1>4. Says(message, t) /\ \A i \in DOMAIN r : Says(message, r[i])
  <2>1. \A i \in DOMAIN queue : Says(message, queue[i])
    BY SendingIs DEF TypeInv
  <2>2. 1 \in DOMAIN queue
    BY <1>3 DEF Later
  <2> QED BY <1>1, <1>3, <2>1, <2>2 DEF Later, WorkParts
<1>5. Phases(message, history) /\ \A i \in DOMAIN done : Says(message, done[i].task)
  BY SendingIs DEF TypeInv
<1>6. CASE t.then = "nothing"
  <2>1. done' = done
    BY <1>1, <1>6 DEF WorkStep
  <2>2. Sending(message, history, r, done)
    BY <1>4, <1>5, SendingIs
  <2>3. Flags(client, shown, r, done)
    BY <1>3, <1>6 DEF TypeInv, Flags, Wider
  <2> QED BY <1>1, <1>2, <1>3, <2>1, <2>2, <2>3 DEF TypeInv, WorkStep
<1>7. CASE t.then # "nothing"
  <2>1. PICK e : e = [task |-> t, result |-> run.result]
    OBVIOUS
  <2>2. PICK p : p = Append(done, e)
    OBVIOUS
  <2>3. done' = p
    BY <1>1, <1>7, <2>1, <2>2 DEF WorkStep
  <2>4. e.task = t /\ e.result = run.result
    BY <2>1
  <2>5. t.then = "past" => e.result \in Seq(Plain)
    <3>1. t.then = "past" => t.op = "get_past"
      BY <1>1 DEF WorkParts, TaskIs
    <3>2. t.op = "get_past" => run.result \in Seq(Plain)
      BY <1>1 DEF WorkParts, Runs
    <3> QED BY <2>4, <3>1, <3>2
  <2>6. /\ IsDone(p, history) /\ Alone(r, p) /\ Longer(p, done, e)
        /\ Wider(DoneThens(p), DoneThens(done), e.task.then)
    <3>1. /\ e.task \in Task(history) /\ e.task.then # "nothing"
          /\ e.task.then \notin Thens(r) \cup DoneThens(done)
      BY <1>1, <1>7, <2>4 DEF WorkParts
    <3>2. e.task.then = "past" => e.result \in Seq(Plain)
      BY <2>4, <2>5
    <3>3. IsDone(done, history)
      BY DEF TypeInv
    <3> QED BY <1>3, <2>2, <3>1, <3>2, <3>3, DonePut
  <2>7. Sending(message, history, r, p)
    <3>1. PICK n : n = Len(done)
      OBVIOUS
    <3>2. /\ n \in Nat /\ DOMAIN done = 1 .. n /\ DOMAIN p = 1 .. n + 1
          /\ \A i \in 1 .. n : p[i] = done[i]
          /\ p[n + 1] = e
      BY <2>6, <3>1 DEF Longer
    <3>3. \A i \in DOMAIN p : Says(message, p[i].task)
      BY <1>4, <1>5, <2>4, <3>2, OneMore, Zenon
    <3> QED BY <1>4, <1>5, <3>3, SendingIs
  <2>8. Flags(client, shown, r, p)
    <3>1. Thens(queue) \cup DoneThens(done) = Thens(r) \cup DoneThens(p)
      BY <1>3, <2>4, <2>6 DEF Wider
    <3> QED BY <3>1 DEF TypeInv, Flags
  <2> QED BY <1>1, <1>2, <1>3, <2>3, <2>6, <2>7, <2>8 DEF TypeInv, WorkStep
<1> QED BY <1>6, <1>7

\* What a client is that was loaded again
LEMMA LoadedIs ==
  ASSUME TypeInv, NEW saved, saved = LoadClient(db).result
  PROVE  /\ saved.next_batch = db.next_batch
         /\ room \in DOMAIN saved.rooms <=>
              room \in db.rooms \ db.replaced /\ db.state[room] \notin {"unknown", "leave"}
         /\ room \in DOMAIN saved.rooms => saved.rooms[room] = LoadRoom(db, room)
<1>1. saved = [ migrated |-> ~db.json, next_batch |-> db.next_batch,
                rooms |-> [r \in LoadableRooms(db) |-> LoadRoom(db, r)] ]
  BY DEF LoadClient, Done, TypeInv, IsTables
<1>2. saved.next_batch = db.next_batch
    /\ saved.rooms = [r \in LoadableRooms(db) |-> LoadRoom(db, r)]
  BY <1>1
<1> QED BY <1>2 DEF LoadableRooms

\* The room as it is loaded
Restored ==
  IF room \in DOMAIN LoadClient(db).result.rooms
  THEN LET r == LoadRoom(db, room)
       IN  [NewRoom EXCEPT !.list = r.last, !.prev_batch = r.prev_batch,
                           !.synced = r.synced, !.joined = TRUE]
  ELSE NewRoom

\* What a start of the client makes of the state
LEMMA RestartIs ==
  ASSUME TypeInv, Restart
  PROVE  /\ history' = history /\ db' = db /\ queue' = <<>> /\ done' = <<>>
         /\ client' = [since |-> Place(db.next_batch), sync |-> "listing", saving |-> "no",
                       starts |-> client.starts + 1, empty |-> client.empty]
         /\ shown' = Restored
         /\ message' = [x \in Txn |-> IF message[x] \in Under THEN "failed" ELSE message[x]]
         /\ Crashes \/ (queue = <<>> /\ done = <<>>)
<1>1. PICK saved : saved = LoadClient(db).result
  OBVIOUS
<1>2. /\ saved.next_batch = db.next_batch
      /\ room \in DOMAIN saved.rooms => saved.rooms[room] = LoadRoom(db, room)
  BY <1>1, LoadedIs
<1>3. /\ history' = history /\ db' = db /\ queue' = <<>> /\ done' = <<>>
      /\ client' = [since |-> Place(saved.next_batch), sync |-> "listing", saving |-> "no",
                    starts |-> client.starts + 1, empty |-> client.empty]
      /\ shown' = IF room \notin DOMAIN saved.rooms THEN NewRoom
                  ELSE [NewRoom EXCEPT !.list = saved.rooms[room].last,
                          !.prev_batch = saved.rooms[room].prev_batch,
                          !.synced = saved.rooms[room].synced, !.joined = TRUE]
      /\ Crashes \/ (queue = <<>> /\ done = <<>>)
  BY <1>1 DEF Restart
<1>4. message' = [x \in Txn |-> IF message[x] \in Under THEN "failed" ELSE message[x]]
  BY DEF Restart, UnderWay, Under
<1>5. shown' = Restored
  BY <1>1, <1>2, <1>3 DEF Restored
<1> QED BY <1>2, <1>3, <1>4, <1>5

\* The client is started again.
LEMMA RestartTyped ==
  ASSUME TypeInv, Restart
  PROVE  TypeInv'
<1>1. /\ history' = history /\ db' = db /\ queue' = <<>> /\ done' = <<>>
      /\ client' = [since |-> Place(db.next_batch), sync |-> "listing", saving |-> "no",
                    starts |-> client.starts + 1, empty |-> client.empty]
      /\ shown' = Restored
      /\ message' = [x \in Txn |-> IF message[x] \in Under THEN "failed" ELSE message[x]]
  BY RestartIs
<1>2. Thens(queue') = {} /\ DoneThens(done') = {}
  BY <1>1 DEF Thens, DoneThens
<1>3. IsQueue(queue', history) /\ IsDone(done', history) /\ Alone(queue', done')
  BY <1>1, <1>2 DEF IsQueue, IsDone, Alone, Range
<1>4. IsClient(client', history) /\ client'.saving = "no" /\ client'.sync = "listing"
  <2>1. Place(db.next_batch) \in 0 .. Len(history)
    BY NamesAssumption DEF TypeInv, IsTables, IsHistory, Tokens, Place
  <2>2. client.starts + 1 \in Nat /\ client.empty \in Nat
    BY DEF TypeInv, IsClient
  <2> QED BY <1>1, <2>1, <2>2 DEF IsClient
<1>5. IsShown(shown', history) /\ shown'.loading = "no"
  <2>1. CASE shown' = NewRoom
    BY <2>1 DEF NewRoom, IsShown, Tokens
  <2>2. CASE shown' # NewRoom
    <3>1. PICK r : r = LoadRoom(db, room)
      OBVIOUS
    <3>2. r.last \in Seq(Plain) /\ r.prev_batch \in Tokens(history) /\ r.synced \in BOOLEAN
      BY <3>1, LoadTyped DEF TypeInv
    <3>3. shown' = [NewRoom EXCEPT !.list = r.last, !.prev_batch = r.prev_batch,
                                   !.synced = r.synced, !.joined = TRUE]
      BY <1>1, <2>2, <3>1 DEF Restored
    <3> QED BY <3>2, <3>3 DEF NewRoom, IsShown, Tokens
  <2> QED BY <2>1, <2>2
<1>6. Flags(client', shown', queue', done')
  BY <1>2, <1>4, <1>5 DEF Flags
<1>7. Sending(message', history, queue', done')
  <2>1. Phases(message', history)
    BY <1>1 DEF TypeInv, Sending, Phases, Under, MessageStates
  <2>2. /\ \A i \in DOMAIN queue' : Says(message', queue'[i])
        /\ \A i \in DOMAIN done' : Says(message', done'[i].task)
    BY <1>1
  <2> QED BY <2>1, <2>2, SendingIs
<1> QED BY <1>1, <1>3, <1>4, <1>5, <1>6, <1>7 DEF TypeInv

-----------------------------------------------------------------------------

\* Every step keeps the types and the flags.
LEMMA NextTyped ==
  ASSUME TypeInv, [Next]_vars
  PROVE  TypeInv'
<1>1. ASSUME NEW m \in BOOLEAN, Post(m) PROVE TypeInv'
  BY <1>1, PostTyped
<1>2. ASSUME NEW found \in BOOLEAN, RoomListed(found) PROVE TypeInv'
  BY <1>2, RoomListedTyped
<1>3. ASSUME NEW first \in 1 .. Len(history), SyncDone(first) PROVE TypeInv'
  BY <1>3, SyncDoneTyped
<1>4. ASSUME SyncEmpty PROVE TypeInv'
  BY <1>4, SyncEmptyTyped
<1>5. ASSUME NEW x \in Txn, Send(x) PROVE TypeInv'
  BY <1>5, SendTyped
<1>6. ASSUME NEW x \in Txn, Accept(x) PROVE TypeInv'
  BY <1>6, AcceptTyped
<1>7. ASSUME NEW x \in Txn, Sent(x) PROVE TypeInv'
  BY <1>7, SentTyped
<1>8. ASSUME NEW x \in Txn, SendFailed(x) PROVE TypeInv'
  BY <1>8, SendFailedTyped
<1>9. ASSUME LoadPast PROVE TypeInv'
  BY <1>9, LoadPastTyped
<1>10. ASSUME StateLoaded PROVE TypeInv'
  BY <1>10, StateLoadedTyped
<1>11. ASSUME HistoryLoaded PROVE TypeInv'
  BY <1>11, HistoryLoadedTyped
<1>12. ASSUME LoadFailed PROVE TypeInv'
  BY <1>12, LoadFailedTyped
<1>13. ASSUME Work PROVE TypeInv'
  BY <1>13, WorkTyped
<1>14. ASSUME ClientSaved PROVE TypeInv'
  BY <1>14, ClientSavedTyped
<1>15. ASSUME NextSync PROVE TypeInv'
  BY <1>15, NextSyncTyped
<1>16. ASSUME HistoryStored PROVE TypeInv'
  BY <1>16, HistoryStoredTyped
<1>17. ASSUME PastLoaded PROVE TypeInv'
  BY <1>17, PastLoadedTyped
<1>18. ASSUME NEW x \in Txn, StartSending(x) PROVE TypeInv'
  BY <1>18, StartSendingTyped
<1>19. ASSUME NEW x \in Txn, SetId(x) PROVE TypeInv'
  BY <1>19, SetIdTyped
<1>20. ASSUME Restart PROVE TypeInv'
  BY <1>20, RestartTyped
<1>21. CASE UNCHANGED vars
  BY <1>21 DEF vars, TypeInv
<1> QED BY <1>1, <1>2, <1>3, <1>4, <1>5, <1>6, <1>7, <1>8, <1>9, <1>10, <1>11, <1>12, <1>13,
           <1>14, <1>15, <1>16, <1>17, <1>18, <1>19, <1>20, <1>21 DEF Next

\* The type invariant of the module is a part of this one.
LEMMA TypeInvIs ==
  ASSUME TypeInv
  PROVE  TypeOK
<1>1. Plain \subseteq Event
  BY DEF Plain
<1>2. Range(history) \subseteq Event /\ Range(shown.list) \subseteq Event
  <2>1. history \in Seq(Plain) /\ shown.list \in Seq(Plain)
    BY DEF TypeInv, IsHistory, IsShown
  <2> QED BY <1>1, <2>1 DEF Range
<1>3. ASSUME NEW then PROVE (\E t \in Pending : t.then = then) <=>
                              then \in Thens(queue) \cup DoneThens(done)
  BY DEF Pending, Thens, DoneThens
<1>4. /\ client.saving # "no" <=> \E t \in Pending : t.then = "saved"
      /\ client.sync = "storing" <=> \E t \in Pending : t.then = "next sync"
      /\ shown.loading = "db" <=> \E t \in Pending : t.then = "past"
      /\ shown.loading = "storing" <=> \E t \in Pending : t.then = "loaded"
  BY <1>3 DEF TypeInv, Flags
<1>5. /\ client.since \in 0 .. Len(history)
      /\ client.saving \in {"no", "saving", "pending"}
      /\ client.sync \in {"listing", "waiting", "storing"}
  BY DEF TypeInv, IsClient
<1>6. shown.loading \in {"no", "listed", "state", "db", "server", "storing"}
  BY DEF TypeInv, IsShown
<1>7. \A x \in Txn : message[x] \in MessageStates
  BY DEF TypeInv, Sending
<1> QED BY <1>2, <1>4, <1>5, <1>6, <1>7 DEF TypeOK

\* The variables are of their types, and a flag of the client and of the room is set as long
\* as what it stands for is queued or has not been answered: one save of the client, one
\* storing of an answer, one loading of the history.
THEOREM TimelineTyped == Spec => []TypeOK
<1>1. Init => TypeInv
  BY InitTyped
<1>2. TypeInv /\ [Next]_vars => TypeInv'
  BY NextTyped
<1>3. TypeInv => TypeOK
  BY TypeInvIs
<1> QED BY <1>1, <1>2, <1>3, PTL DEF Spec

===============================================================================
