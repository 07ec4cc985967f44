-------------------------- MODULE GroupSessionProofs --------------------------
(***************************************************************************)
(* The inductive invariant of GroupSession, for any bounds and whatever    *)
(* may fail, what its operators and its steps keep of it, what follows     *)
(* from it, and that the room implements Ratchet.                          *)
(*                                                                         *)
(* Good says that every task is that of one call, that one message is      *)
(* encrypted and one key uploaded at a time, and that the database is      *)
(* asked for a session before anything else happens to the room.  Ahead    *)
(* says of every session that could be used again, in memory, on the       *)
(* stack, in the queue or in a row, that it is ahead of what was sent.     *)
(* Both are operators of the client's record w, the database d and the     *)
(* network x, so that a step between two changes can be spoken of.         *)
(***************************************************************************)
EXTENDS GroupSession, SequenceTheorems, WellFoundedInduction, TLAPS

-----------------------------------------------------------------------------
(* Sequences that grow and shrink at their ends.                           *)

\* A sequence with one more element before all others, as cm_db_add_session()
\* puts its task into the queue.
LEMMA PutFirst ==
  ASSUME NEW S, NEW q \in Seq(S), NEW x \in S
  PROVE  LET r == <<x>> \o q
         IN  /\ r \in Seq(S) /\ Len(r) = Len(q) + 1 /\ DOMAIN r = 1 .. Len(q) + 1
             /\ r[1] = x /\ \A i \in DOMAIN q : r[i + 1] = q[i]
             /\ \A i \in DOMAIN r : i # 1 => i - 1 \in DOMAIN q /\ r[i] = q[i - 1]
             /\ ToSet(r) = ToSet(q) \cup {x}
<1> DEFINE r == <<x>> \o q
<1>1. /\ r \in Seq(S) /\ Len(r) = Len(q) + 1 /\ DOMAIN r = 1 .. Len(q) + 1
      /\ DOMAIN q = 1 .. Len(q) /\ Len(q) \in Nat
      /\ r[1] = x /\ \A i \in 1 .. Len(q) : r[i + 1] = q[i]
  OBVIOUS
<1> HIDE DEF r
<1>2. \A i \in DOMAIN r : i # 1 => i - 1 \in DOMAIN q /\ r[i] = q[i - 1]
  <2> SUFFICES ASSUME NEW i \in DOMAIN r, i # 1
               PROVE  i - 1 \in DOMAIN q /\ r[i] = q[i - 1]
    OBVIOUS
  <2>1. i - 1 \in 1 .. Len(q) /\ (i - 1) + 1 = i
    BY <1>1
  <2> QED BY <1>1, <2>1
<1>3. ToSet(r) \subseteq ToSet(q) \cup {x}
  BY <1>1, <1>2 DEF ToSet
<1>4. x \in ToSet(r)
  BY <1>1 DEF ToSet
<1>5. \A i \in DOMAIN q : q[i] \in ToSet(r)
  <2> SUFFICES ASSUME NEW i \in DOMAIN q PROVE q[i] \in ToSet(r)
    OBVIOUS
  <2>1. i + 1 \in DOMAIN r /\ r[i + 1] = q[i]
    BY <1>1
  <2> QED BY <2>1 DEF ToSet
<1>6. ToSet(q) \subseteq ToSet(r)
  BY <1>5 DEF ToSet
<1> QED BY <1>1, <1>2, <1>3, <1>4, <1>6 DEF r

\* A sequence with one more element behind all others.
LEMMA PutLast ==
  ASSUME NEW S, NEW q \in Seq(S), NEW x \in S
  PROVE  LET r == Append(q, x)
         IN  /\ r \in Seq(S) /\ Len(r) = Len(q) + 1 /\ DOMAIN r = 1 .. Len(q) + 1
             /\ DOMAIN q = 1 .. Len(q) /\ Len(q) \in Nat
             /\ r[Len(q) + 1] = x /\ \A i \in DOMAIN q : r[i] = q[i]
             /\ ToSet(r) = ToSet(q) \cup {x}
<1> DEFINE r == Append(q, x)
<1>1. /\ r \in Seq(S) /\ Len(r) = Len(q) + 1 /\ DOMAIN r = 1 .. Len(q) + 1
      /\ DOMAIN q = 1 .. Len(q) /\ Len(q) \in Nat
      /\ r[Len(q) + 1] = x /\ \A i \in 1 .. Len(q) : r[i] = q[i]
  OBVIOUS
<1> HIDE DEF r
<1>2. ToSet(r) = ToSet(q) \cup {x}
  BY <1>1 DEF ToSet
<1> QED BY <1>1, <1>2 DEF r

\* A sequence without its first element, as a worker leaves its queue.
LEMMA TakeFirst ==
  ASSUME NEW S, NEW q \in Seq(S), q # <<>>
  PROVE  /\ Head(q) \in S /\ Head(q) = q[1] /\ Tail(q) \in Seq(S)
         /\ Len(q) \in Nat /\ Len(q) > 0 /\ DOMAIN q = 1 .. Len(q)
         /\ DOMAIN Tail(q) = 1 .. Len(q) - 1
         /\ \A i \in DOMAIN Tail(q) : i + 1 \in DOMAIN q /\ Tail(q)[i] = q[i + 1]
         /\ ToSet(q) = ToSet(Tail(q)) \cup {Head(q)}
<1> DEFINE r == Tail(q)
<1>1. /\ Head(q) \in S /\ Head(q) = q[1] /\ r \in Seq(S)
      /\ Len(q) \in Nat /\ Len(q) > 0 /\ DOMAIN q = 1 .. Len(q)
      /\ DOMAIN r = 1 .. Len(q) - 1
      /\ \A i \in 1 .. Len(q) - 1 : r[i] = q[i + 1]
  OBVIOUS
<1> HIDE DEF r
<1>2. \A i \in DOMAIN r : i + 1 \in DOMAIN q /\ r[i] = q[i + 1]
  BY <1>1
<1>3. \A i \in DOMAIN q : q[i] \in ToSet(r) \cup {Head(q)}
  <2> SUFFICES ASSUME NEW i \in DOMAIN q, i # 1 PROVE q[i] \in ToSet(r)
    BY <1>1
  <2>1. i - 1 \in 1 .. Len(q) - 1 /\ (i - 1) + 1 = i
    BY <1>1
  <2>2. i - 1 \in DOMAIN r /\ r[i - 1] = q[i]
    BY <1>1, <2>1
  <2> QED BY <2>2 DEF ToSet
<1>4. ToSet(r) \cup {Head(q)} \subseteq ToSet(q)
  BY <1>1, <1>2 DEF ToSet
<1>5. ToSet(q) \subseteq ToSet(r) \cup {Head(q)}
  BY <1>3 DEF ToSet
<1> QED BY <1>1, <1>2, <1>4, <1>5 DEF r

\* A sequence without its last element, as a call leaves the stack.
LEMMA DropLast ==
  ASSUME NEW S, NEW q \in Seq(S), q # <<>>
  PROVE  /\ Front(q) \in Seq(S) /\ Len(Front(q)) = Len(q) - 1
         /\ Len(q) \in Nat /\ Len(q) > 0 /\ DOMAIN q = 1 .. Len(q)
         /\ DOMAIN Front(q) = 1 .. Len(q) - 1 /\ q[Len(q)] \in S
         /\ \A i \in DOMAIN Front(q) : i \in DOMAIN q /\ Front(q)[i] = q[i]
<1> DEFINE r == Front(q)
<1>1. /\ r \in Seq(S) /\ DOMAIN r = 1 .. Len(q) - 1
      /\ \A i \in 1 .. Len(q) - 1 : r[i] = q[i]
      /\ Len(q) \in Nat \ {0} /\ DOMAIN q = 1 .. Len(q)
  BY DEF Front
<1> HIDE DEF r
<1>2. Len(r) = Len(q) - 1
  <2> DEFINE n == Len(q) - 1
  <2>1. n \in Nat /\ \A i \in 1 .. n : q[i] \in S
    BY <1>1
  <2>2. r = SubSeq(q, 1, n)
    BY DEF r, Front
  <2> HIDE DEF n
  <2>3. Len(r) = IF 1 <= n THEN n - 1 + 1 ELSE 0
    BY <2>1, <2>2, SubSeqProperties
  <2>4. Len(r) = n
    BY <2>1, <2>3
  <2> QED BY <2>4 DEF n
<1>3. q[Len(q)] \in S
  BY <1>1
<1> QED BY <1>1, <1>2, <1>3 DEF r

-----------------------------------------------------------------------------
(* Sets of numbers.                                                        *)

\* A set of numbers that is not empty has a least one.
LEMMA LeastOf ==
  ASSUME NEW T \in SUBSET Nat, T # {}
  PROVE  \E x \in T : \A y \in T : x <= y
<1> DEFINE R == {p \in Nat \X Nat : p[1] < p[2]}
<1>1. IsWellFoundedOn(R, Nat)
  BY NatLessThanWellFounded DEF OpToRel
<1>2. \E x \in T : \A y \in T : <<y, x>> \notin R
  <2> HIDE DEF R
  <2> QED BY <1>1, WFMin
<1>3. PICK x \in T : \A y \in T : <<y, x>> \notin R
  BY <1>2
<1>4. \A y \in T : ~ (y < x)
  BY <1>3
<1> QED BY <1>4

\* A set of numbers up to n that is not empty has a greatest one, and Max finds it.
LEMMA MaxOf ==
  ASSUME NEW n \in Nat, NEW T \in SUBSET (0..n), T # {}
  PROVE  Max(T) \in T
<1> DEFINE U == {u \in Nat : \A y \in T : y <= u}
<1>1. n \in U
  OBVIOUS
<1>2. PICK u \in U : \A v \in U : u <= v
  <2> HIDE DEF U
  <2>1. U \in SUBSET Nat
    BY DEF U
  <2> QED BY <1>1, <2>1, LeastOf
<1>3. u \in T
  <2> SUFFICES ASSUME u \notin T PROVE FALSE
    OBVIOUS
  <2>1. PICK y \in T : TRUE
    OBVIOUS
  <2>2. u # 0
    BY <1>2, <2>1
  <2>3. u - 1 \in U
    BY <1>2, <2>2
  <2> QED BY <1>2, <2>3
<1>4. \E x \in T : \A y \in T : x >= y
  BY <1>2, <1>3
<1> QED BY <1>4 DEF Max

-----------------------------------------------------------------------------
ClientType ==
  [room : Room, enc : Enc, calls : Seq(Frame), queue : Seq(Task), created : 0..MaxSessions]

Row == [type : Kind \cup {"none"}, pickle : Kind, index : Index, state : State]

Typed(w, d, x) ==
  /\ w \in ClientType /\ Len(w.calls) <= MaxDepth
  /\ d.running \in Seq(Task) /\ Len(d.running) <= 1
  /\ d.row \in [Session -> Row]
  /\ x.shared \in [Session -> Index \cup {Nothing}]
  /\ x.last \in [Session -> Index \cup {Nothing}]
  /\ x.given \in 0..MaxMessages

TasksOf(queue, running) == ToSet(queue) \cup ToSet(running)

\* A task is that of a call that waits for it.
Matches(t, f) ==
  /\ ~f.done
  /\ f.call \in {"encrypt", "set", "rm"} => t.kind = "out"
  /\ f.call = "set_in" => t.kind = "in"
  /\ f.call = "lookup" <=> t.kind = "lookup"
  /\ t.kind # "lookup" => t.session = f.session /\ t.session \in Session
  /\ f.call = "rm" => t.state # "usable"

\* ... and of no other.
Tasks(cs, queue, running) ==
  /\ \A t \in TasksOf(queue, running) : t.at \in DOMAIN cs /\ Matches(t, cs[t.at])
  /\ \A i, j \in DOMAIN queue : queue[i].at = queue[j].at => i = j
  /\ \A t \in ToSet(running), u \in ToSet(queue) : t.at # u.at

\* The calls that look for a session are answered in their order.
InOrder(cs, queue, running) ==
  /\ \A p, q \in DOMAIN cs : p < q /\ cs[q].done => cs[p].done
  /\ \A p \in DOMAIN cs : ~cs[p].done => \E t \in TasksOf(queue, running) : t.at = p
  /\ \A i, j \in DOMAIN queue : i < j => queue[i].at < queue[j].at
  /\ \A t \in ToSet(running), u \in ToSet(queue) : t.at < u.at

-----------------------------------------------------------------------------
(* The calls and their tasks.                                              *)

\* A call waits for a task that was put before all others.
LEMMA TaskSaved ==
  ASSUME NEW cs \in Seq(Frame), NEW queue \in Seq(Task), NEW running,
         Tasks(cs, queue, running),
         NEW f \in Frame, NEW t \in Task, t.at = Len(cs) + 1, Matches(t, f)
  PROVE  /\ Tasks(Append(cs, f), <<t>> \o queue, running)
         /\ TasksOf(<<t>> \o queue, running) = TasksOf(queue, running) \cup {t}
<1> DEFINE c == Append(cs, f)
           q == <<t>> \o queue
<1>1. /\ DOMAIN cs = 1 .. Len(cs) /\ Len(cs) \in Nat
      /\ DOMAIN c = 1 .. Len(cs) + 1
      /\ c[Len(cs) + 1] = f /\ \A p \in DOMAIN cs : c[p] = cs[p]
  BY PutLast
<1>2. /\ DOMAIN q = 1 .. Len(queue) + 1 /\ Len(queue) \in Nat
      /\ q[1] = t
      /\ \A i \in DOMAIN q : i # 1 => i - 1 \in DOMAIN queue /\ q[i] = queue[i - 1]
      /\ ToSet(q) = ToSet(queue) \cup {t}
  BY PutFirst
<1> HIDE DEF c, q
<1>3. \A u \in TasksOf(queue, running) : u.at \in 1 .. Len(cs) /\ u.at # t.at
  BY <1>1 DEF Tasks
<1>4. \A u \in TasksOf(q, running) : u.at \in DOMAIN c /\ Matches(u, c[u.at])
  BY <1>1, <1>2, <1>3 DEF Tasks, TasksOf
<1>5. \A i \in DOMAIN queue : queue[i] \in TasksOf(queue, running)
  BY DEF TasksOf, ToSet
<1>6. \A i, j \in DOMAIN q : q[i].at = q[j].at => i = j
  <2> SUFFICES ASSUME NEW i \in DOMAIN q, NEW j \in DOMAIN q, q[i].at = q[j].at, i # j
               PROVE  FALSE
    OBVIOUS
  <2>1. CASE i = 1 \/ j = 1
    BY <1>2, <1>3, <1>5, <2>1
  <2>2. CASE i # 1 /\ j # 1
    <3>1. i - 1 = j - 1
      BY <1>2, <2>2 DEF Tasks
    <3> QED BY <1>2, <3>1
  <2> QED BY <2>1, <2>2
<1>7. \A u \in ToSet(running), v \in ToSet(q) : u.at # v.at
  BY <1>2, <1>3 DEF Tasks, TasksOf
<1>8. TasksOf(q, running) = TasksOf(queue, running) \cup {t}
  BY <1>2 DEF TasksOf
<1> QED BY <1>4, <1>6, <1>7, <1>8 DEF Tasks, c, q

\* A call waits for a task that was put behind all others.
LEMMA TaskAdded ==
  ASSUME NEW cs \in Seq(Frame), NEW queue \in Seq(Task), NEW running,
         Tasks(cs, queue, running), InOrder(cs, queue, running),
         NEW f \in Frame, NEW t \in Task, t.at = Len(cs) + 1, Matches(t, f)
  PROVE  /\ Tasks(Append(cs, f), Append(queue, t), running)
         /\ InOrder(Append(cs, f), Append(queue, t), running)
         /\ TasksOf(Append(queue, t), running) = TasksOf(queue, running) \cup {t}
<1> DEFINE c == Append(cs, f)
           q == Append(queue, t)
<1>1. /\ DOMAIN cs = 1 .. Len(cs) /\ Len(cs) \in Nat
      /\ DOMAIN c = 1 .. Len(cs) + 1
      /\ c[Len(cs) + 1] = f /\ \A p \in DOMAIN cs : c[p] = cs[p]
  BY PutLast
<1>2. /\ DOMAIN queue = 1 .. Len(queue) /\ Len(queue) \in Nat
      /\ DOMAIN q = 1 .. Len(queue) + 1
      /\ q[Len(queue) + 1] = t /\ \A i \in DOMAIN queue : q[i] = queue[i]
      /\ ToSet(q) = ToSet(queue) \cup {t}
  BY PutLast
<1> HIDE DEF c, q
<1>3. \A u \in TasksOf(queue, running) : u.at \in 1 .. Len(cs) /\ u.at < t.at
  BY <1>1 DEF Tasks
<1>4. \A u \in TasksOf(q, running) : u.at \in DOMAIN c /\ Matches(u, c[u.at])
  BY <1>1, <1>2, <1>3 DEF Tasks, TasksOf
<1>5. \A i \in DOMAIN queue : queue[i] \in TasksOf(queue, running)
  BY DEF TasksOf, ToSet
<1>6. \A i, j \in DOMAIN q : i < j => q[i].at < q[j].at
  <2> SUFFICES ASSUME NEW i \in DOMAIN q, NEW j \in DOMAIN q, i < j
               PROVE  q[i].at < q[j].at
    OBVIOUS
  <2>1. i \in DOMAIN queue /\ q[i] = queue[i]
    BY <1>2
  <2>2. CASE j = Len(queue) + 1
    BY <1>2, <1>3, <1>5, <2>1, <2>2
  <2>3. CASE j \in DOMAIN queue
    BY <1>2, <2>1, <2>3 DEF InOrder
  <2> QED BY <1>2, <2>2, <2>3
<1>7. \A i \in DOMAIN q : q[i].at \in Int
  BY <1>1, <1>2, <1>3, <1>5
<1>8. \A i, j \in DOMAIN q : q[i].at = q[j].at => i = j
  <2> SUFFICES ASSUME NEW i \in DOMAIN q, NEW j \in DOMAIN q, i # j PROVE q[i].at # q[j].at
    OBVIOUS
  <2>1. i < j \/ j < i
    BY <1>2
  <2> QED BY <1>6, <1>7, <2>1
<1>9. \A u \in ToSet(running), v \in ToSet(q) : u.at < v.at /\ u.at # v.at
  BY <1>2, <1>3 DEF Tasks, TasksOf, InOrder
<1>10. TasksOf(q, running) = TasksOf(queue, running) \cup {t}
  BY <1>2 DEF TasksOf
<1>11. \A p \in DOMAIN c : ~c[p].done => \E u \in TasksOf(q, running) : u.at = p
  BY <1>1, <1>10 DEF InOrder
<1>12. \A p, r \in DOMAIN c : p < r /\ c[r].done => c[p].done
  BY <1>1 DEF InOrder, Matches
<1> QED BY <1>4, <1>6, <1>8, <1>9, <1>10, <1>11, <1>12 DEF Tasks, InOrder, c, q

\* The innermost call returns, once its task was run.
LEMMA CallReturned ==
  ASSUME NEW cs \in Seq(Frame), NEW queue, NEW running,
         Tasks(cs, queue, running), cs # <<>>, cs[Len(cs)].done
  PROVE  /\ Tasks(Front(cs), queue, running)
         /\ InOrder(cs, queue, running) => InOrder(Front(cs), queue, running)
<1> DEFINE c == Front(cs)
<1>1. /\ DOMAIN cs = 1 .. Len(cs) /\ Len(cs) \in Nat /\ Len(cs) > 0
      /\ DOMAIN c = 1 .. Len(cs) - 1
      /\ \A p \in DOMAIN c : p \in DOMAIN cs /\ c[p] = cs[p]
  BY DropLast
<1> HIDE DEF c
<1>2. \A u \in TasksOf(queue, running) : u.at \in DOMAIN c /\ Matches(u, c[u.at])
  BY <1>1 DEF Tasks, Matches
<1>3. Tasks(c, queue, running)
  BY <1>2 DEF Tasks
<1>4. InOrder(cs, queue, running) => InOrder(c, queue, running)
  BY <1>1 DEF InOrder
<1> QED BY <1>3, <1>4 DEF c

\* The worker takes the first task.
LEMMA TaskTaken ==
  ASSUME NEW cs \in Seq(Frame), NEW queue \in Seq(Task),
         Tasks(cs, queue, <<>>), queue # <<>>
  PROVE  /\ Tasks(cs, Tail(queue), <<Head(queue)>>)
         /\ InOrder(cs, queue, <<>>) => InOrder(cs, Tail(queue), <<Head(queue)>>)
         /\ TasksOf(Tail(queue), <<Head(queue)>>) = TasksOf(queue, <<>>)
<1> DEFINE q == Tail(queue)
           h == Head(queue)
<1>1. /\ h = queue[1] /\ 1 \in DOMAIN queue /\ DOMAIN queue \subseteq Nat
      /\ \A i \in DOMAIN q : i \in Nat /\ i > 0 /\ i + 1 \in DOMAIN queue /\ q[i] = queue[i + 1]
      /\ ToSet(queue) = ToSet(q) \cup {h}
  BY TakeFirst
<1>2. ToSet(<<h>>) = {h} /\ ToSet(<<>>) = {}
  BY DEF ToSet
<1> HIDE DEF q, h
<1>3. TasksOf(q, <<h>>) = TasksOf(queue, <<>>)
  BY <1>1, <1>2 DEF TasksOf
<1>4. \A i, j \in DOMAIN q : q[i].at = q[j].at => i = j
  <2> SUFFICES ASSUME NEW i \in DOMAIN q, NEW j \in DOMAIN q, q[i].at = q[j].at
               PROVE  i = j
    OBVIOUS
  <2>1. i + 1 = j + 1
    BY <1>1 DEF Tasks
  <2> QED BY <1>1, <2>1
<1>5. \A i \in DOMAIN q : h.at # q[i].at
  <2> SUFFICES ASSUME NEW i \in DOMAIN q, h.at = q[i].at PROVE FALSE
    OBVIOUS
  <2>1. i + 1 = 1
    BY <1>1 DEF Tasks
  <2> QED BY <1>1, <2>1
<1>6. Tasks(cs, q, <<h>>)
  BY <1>2, <1>3, <1>4, <1>5 DEF Tasks, ToSet
<1>7. ASSUME InOrder(cs, queue, <<>>)
      PROVE  InOrder(cs, q, <<h>>)
  <2>1. \A i, j \in DOMAIN q : i < j => q[i].at < q[j].at
    <3> SUFFICES ASSUME NEW i \in DOMAIN q, NEW j \in DOMAIN q, i < j
                 PROVE  q[i].at < q[j].at
      OBVIOUS
    <3>1. i + 1 < j + 1
      BY <1>1
    <3> QED BY <1>1, <1>7, <3>1 DEF InOrder
  <2>2. \A i \in DOMAIN q : h.at < q[i].at
    <3> SUFFICES ASSUME NEW i \in DOMAIN q PROVE h.at < q[i].at
      OBVIOUS
    <3>1. 1 < i + 1
      BY <1>1
    <3> QED BY <1>1, <1>7, <3>1 DEF InOrder
  <2>3. \A t \in ToSet(<<h>>), u \in ToSet(q) : t.at < u.at
    BY <1>2, <2>2 DEF ToSet
  <2>4. \A p \in DOMAIN cs : ~cs[p].done => \E t \in TasksOf(q, <<h>>) : t.at = p
    BY <1>3, <1>7 DEF InOrder
  <2> QED BY <1>7, <2>1, <2>3, <2>4 DEF InOrder
<1> QED BY <1>3, <1>6, <1>7 DEF q, h

\* g is what the call of task t knows once that was run.
Run(cs, queue, running, t, g, c) ==
  /\ c \in Seq(Frame) /\ Len(c) = Len(cs) /\ DOMAIN c = DOMAIN cs
  /\ t.at \in DOMAIN cs /\ c[t.at] = g
  /\ \A p \in DOMAIN cs : p # t.at => c[p] = cs[p]
  /\ Tasks(c, queue, <<>>)
  /\ TasksOf(queue, <<>>) \subseteq TasksOf(queue, running)
  /\ InOrder(cs, queue, running) => InOrder(c, queue, <<>>)

\* The worker has run its task, and its call knows.
LEMMA TaskRun ==
  ASSUME NEW cs \in Seq(Frame), NEW queue \in Seq(Task), NEW running \in Seq(Task),
         Len(running) <= 1, Tasks(cs, queue, running),
         NEW t \in ToSet(running), NEW g \in Frame, g.done,
         NEW c, c = [cs EXCEPT ![t.at] = g]
  PROVE  Run(cs, queue, running, t, g, c)
<1>1. t.at \in DOMAIN cs
  BY DEF Tasks, TasksOf
<1>2. /\ c \in Seq(Frame) /\ Len(c) = Len(cs) /\ DOMAIN c = DOMAIN cs
      /\ c[t.at] = g /\ \A p \in DOMAIN cs : p # t.at => c[p] = cs[p]
  BY <1>1
<1>3. ToSet(running) = {t} /\ ToSet(<<>>) = {}
  <2>1. DOMAIN running = 1 .. Len(running) /\ Len(running) \in Nat
    OBVIOUS
  <2>2. DOMAIN running = {1}
    BY <2>1 DEF ToSet
  <2> QED BY <2>2 DEF ToSet
<1>4. \A u \in TasksOf(queue, <<>>) : u \in TasksOf(queue, running) /\ u.at # t.at
  BY <1>3 DEF Tasks, TasksOf
<1>5. Tasks(c, queue, <<>>)
  BY <1>2, <1>3, <1>4 DEF Tasks
<1>6. ASSUME InOrder(cs, queue, running)
      PROVE  InOrder(c, queue, <<>>)
  <2>1. \A p \in DOMAIN c : ~c[p].done => \E u \in TasksOf(queue, <<>>) : u.at = p
    BY <1>2, <1>3, <1>6 DEF InOrder, TasksOf
  <2>2. DOMAIN cs \subseteq Nat
    OBVIOUS
  <2>3. \A p \in DOMAIN cs : p < t.at => cs[p].done
    <3> SUFFICES ASSUME NEW p \in DOMAIN cs, p < t.at, ~cs[p].done PROVE FALSE
      OBVIOUS
    <3>1. PICK u \in TasksOf(queue, running) : u.at = p
      BY <1>6 DEF InOrder
    <3>2. u # t
      BY <1>1, <2>2, <3>1
    <3>3. t.at < u.at
      BY <1>3, <1>6, <3>2 DEF InOrder, TasksOf
    <3> QED BY <1>1, <2>2, <3>1, <3>3
  <2>4. \A p, q \in DOMAIN c : p < q /\ c[q].done => c[p].done
    BY <1>2, <1>6, <2>3 DEF InOrder
  <2> QED BY <1>3, <1>6, <2>1, <2>4 DEF InOrder
<1> QED BY <1>1, <1>2, <1>4, <1>5, <1>6 DEF Run

-----------------------------------------------------------------------------
(* The invariant.                                                          *)

\* What is in the queue, or was taken from it for a file, is yet to be encrypted.
ToCome(w) == w.room.queue + (IF w.room.sending = "file" THEN 1 ELSE 0)

\* No index exceeds the messages that were given, less n that are yet to come.
Bounded(w, d, x, n) ==
  LET Within(i) == i + n <= x.given
  IN  /\ Within(0)
      /\ \A s \in Session : /\ Within(w.enc.index[s]) /\ Within(w.enc.inbound[s])
                             /\ Within(d.row[s].index)
      /\ \A t \in TasksOf(w.queue, d.running) : Within(t.index)
      /\ \A p \in DOMAIN w.calls : Within(w.calls[p].index)

\* One message is encrypted at a time.
Encrypting(w) ==
  /\ \A p \in DOMAIN w.calls : w.calls[p].call = "encrypt" =>
       LET s == w.calls[p].session
       IN  s \in Session /\ w.room.sending = "encrypting" /\ w.enc.index[s] = w.calls[p].index + 1
  /\ \A p, q \in DOMAIN w.calls :
       w.calls[p].call = "encrypt" /\ w.calls[q].call = "encrypt" => p = q

\* One key is uploaded at a time, and its session set afterwards; meanwhile nothing
\* is encrypted.
Uploading(w) ==
  /\ w.room.busy = "upload" => w.room.keys /\ w.room.sending = "no"
  /\ w.room.upload # None => w.room.busy = "upload" /\ w.room.from = w.enc.index[w.room.upload]
  /\ \A p \in DOMAIN w.calls : w.calls[p].call \in {"set", "set_in"} =>
       LET s == w.calls[p].session
       IN  w.room.busy = "upload" /\ w.room.upload = None
           /\ s \in Session /\ w.enc.inbound[s] # Nothing
  /\ \A p, q \in DOMAIN w.calls :
       w.calls[p].call \in {"set", "set_in"} /\ w.calls[q].call \in {"set", "set_in"} => p = q

Quiet(w) == /\ ~w.room.claimed /\ w.room.upload = None
            /\ w.room.sending = "no" /\ w.room.busy # "upload"

LooksUp(w) == \E p \in DOMAIN w.calls : w.calls[p].call = "lookup"

\* A row that a lookup finds
IsOut(row) == row.type = "out" /\ row.pickle = "out" /\ row.state = "usable"

\* The database is asked for a session before anything else happens to the room,
\* and all that ask it have their answers before anything else does.
Lookups(w, d) ==
  /\ ~w.room.checked \/ LooksUp(w) =>
       /\ Quiet(w)
       /\ \A p \in DOMAIN w.calls :
            w.calls[p].call = "lookup" /\ (w.room.checked => w.calls[p].done)
  /\ ~w.room.checked =>
       /\ w.enc.out = {} /\ w.enc.key = None /\ w.room.busy = "no"
       /\ InOrder(w.calls, w.queue, d.running)
  /\ \A p \in DOMAIN w.calls :
       w.calls[p].call = "lookup" /\ w.calls[p].done /\ w.calls[p].session # None =>
         /\ IsOut(d.row[w.calls[p].session])
         /\ w.calls[p].index = d.row[w.calls[p].session].index

Sound(w, d) ==
  Tasks(w.calls, w.queue, d.running) /\ Encrypting(w) /\ Uploading(w) /\ Lookups(w, d)

Good(w, d, x) == Typed(w, d, x) /\ Bounded(w, d, x, ToCome(w)) /\ Sound(w, d)

-----------------------------------------------------------------------------
(* A call that stores a session and waits for that.                        *)

\* A room that is known to the database is looked up no more.
LEMMA LookedUp ==
  ASSUME NEW w, NEW d, w.room.checked, ~LooksUp(w)
  PROVE  Lookups(w, d)
BY DEF Lookups, LooksUp

\* What a call has is of its type.
LEMMA FrameTyped ==
  ASSUME NEW cs \in Seq(Frame), NEW p \in DOMAIN cs
  PROVE  cs[p] \in Frame /\ cs[p].index \in Nat
<1>1. cs[p] \in Frame
  OBVIOUS
<1> HIDE DEF Frame
<1>2. \A f \in Frame : f.index \in Nat
  BY DEF Frame, Index
<1> QED BY <1>1, <1>2

\* What a task has is of its type.
LEMMA TaskTyped ==
  ASSUME NEW queue \in Seq(Task), NEW running \in Seq(Task), NEW t \in TasksOf(queue, running)
  PROVE  t \in Task /\ t.index \in Nat
<1>1. t \in Task
  BY DEF TasksOf, ToSet
<1>2. \A u \in Task : u.index \in Nat
  BY DEF Task, Index
<1> QED BY <1>1, <1>2

\* v is w with a call f that waits for the task t.
WaitsFor(w, v, f, t) ==
  /\ f \in Frame /\ t \in Task
  /\ t.at = Len(w.calls) + 1 /\ ~f.done
  /\ v \in ClientType /\ Len(v.calls) <= MaxDepth
  /\ v.room = w.room /\ v.enc = w.enc /\ v.created = w.created
  /\ v.calls = Append(w.calls, f) /\ v.queue = <<t>> \o w.queue

\* To store a session is to wait for the task that stores it.
LEMMA Waits ==
  ASSUME NEW w \in ClientType, NEW s \in Session, NEW i \in Index, NEW index \in Index,
         NEW call \in {"encrypt", "set", "set_in", "rm"}, NEW kind \in Kind, NEW state \in State,
         Len(w.calls) < MaxDepth
  PROVE  WaitsFor(w, Save(Wait(w, call, s, i), s, kind, index, state),
                  [call |-> call, session |-> s, index |-> i, done |-> FALSE],
                  [at |-> Len(w.calls) + 1, kind |-> kind, session |-> s, index |-> index,
                   state |-> state])
<1> DEFINE f == [call |-> call, session |-> s, index |-> i, done |-> FALSE]
           t == [at |-> Len(w.calls) + 1, kind |-> kind, session |-> s, index |-> index,
                 state |-> state]
           c == Append(w.calls, f)
           q == <<t>> \o w.queue
           v == Save(Wait(w, call, s, i), s, kind, index, state)
<1>1. w.calls \in Seq(Frame) /\ w.queue \in Seq(Task)
  BY DEF ClientType
<1>2. f \in Frame /\ ~f.done
  BY DEF Frame
<1>3. Len(w.calls) \in Nat /\ MaxDepth \in Nat
  BY <1>1, GroupSessionAssumption
<1>4. t \in Task /\ t.at = Len(w.calls) + 1
  BY <1>3 DEF Task
<1>5. c \in Seq(Frame) /\ Len(c) = Len(w.calls) + 1
  BY <1>1, <1>2
<1>6. q \in Seq(Task)
  BY <1>1, <1>4
<1>7. v = [w EXCEPT !.calls = c, !.queue = q]
  <2>1. Wait(w, call, s, i) = [w EXCEPT !.calls = c]
    BY DEF Wait
  <2>2. Wait(w, call, s, i).calls = c /\ Wait(w, call, s, i).queue = w.queue
    BY <2>1 DEF ClientType
  <2>3. v = [Wait(w, call, s, i) EXCEPT !.queue = q]
    BY <1>5, <2>2 DEF Save
  <2> QED BY <2>1, <2>3
<1> HIDE DEF c, q, v, f, t
<1>8. /\ v \in ClientType /\ v.calls = c /\ v.queue = q
      /\ v.room = w.room /\ v.enc = w.enc /\ v.created = w.created
  BY <1>5, <1>6, <1>7 DEF ClientType
<1>9. WaitsFor(w, v, f, t)
  BY <1>2, <1>3, <1>4, <1>5, <1>8 DEF WaitsFor, c, q
<1> QED BY <1>9 DEF f, t, v

\* v is w with a message encrypted with session s.
TakesIndex(w, v, s, f, t) ==
  /\ s \in Session /\ s \in w.enc.out /\ s = w.enc.key
  /\ f \in Frame /\ t \in Task
  /\ f.call = "encrypt" /\ f.session = s /\ f.index = w.enc.index[s] /\ ~f.done
  /\ t.at = Len(w.calls) + 1 /\ t.kind = "out" /\ t.session = s
  /\ t.index = w.enc.index[s] + 1
  /\ v \in ClientType /\ Len(v.calls) <= MaxDepth
  /\ v.room = [w.room EXCEPT !.sending = "encrypting"] /\ v.created = w.created
  /\ v.enc.key = w.enc.key /\ v.enc.out = w.enc.out /\ v.enc.inbound = w.enc.inbound
  /\ v.enc.index = [w.enc.index EXCEPT ![s] = @ + 1]
  /\ v.calls = Append(w.calls, f) /\ v.queue = <<t>> \o w.queue

\* cm_enc_encrypt_for_chat() takes the next index of the session.
LEMMA EncryptedIs ==
  ASSUME NEW w \in ClientType, NEW late \in BOOLEAN,
         OutSession(w) # None, w.enc.index[OutSession(w)] + 1 \in Index,
         Len(w.calls) < MaxDepth
  PROVE  \E f, t : TakesIndex(w, Encrypted(w, late), OutSession(w), f, t)
<1> DEFINE s    == OutSession(w)
           i    == w.enc.index[s]
           over == late \/ s \in w.enc.old \/ i + 1 >= RotationCount
           next == [w EXCEPT !.room.sending = "encrypting", !.enc.index[s] = i + 1,
                             !.enc.state[s] = IF over /\ @ = "usable" THEN "rotated" ELSE @]
           v    == Encrypted(w, late)
<1>1. v = SaveOut(Wait(next, "encrypt", s, i), s)
  BY DEF Encrypted
<1>2. s \in Session /\ s \in w.enc.out /\ s = w.enc.key /\ i \in Index
  BY DEF OutSession, ClientType, Enc
<1>3. /\ next \in ClientType
      /\ next.room = [w.room EXCEPT !.sending = "encrypting"]
      /\ next.calls = w.calls /\ next.queue = w.queue /\ next.created = w.created
      /\ next.enc.index = [w.enc.index EXCEPT ![s] = i + 1]
      /\ next.enc.state \in [Session -> State]
      /\ next.enc.key = w.enc.key /\ next.enc.out = w.enc.out /\ next.enc.inbound = w.enc.inbound
  BY <1>2 DEF ClientType, Room, Enc, State
<1>4. i + 1 \in Index
  OBVIOUS
<1> HIDE DEF next, s, v
<1>5. Wait(next, "encrypt", s, i).enc = next.enc
  BY <1>3 DEF Wait, ClientType
<1>6. v = Save(Wait(next, "encrypt", s, i), s, "out", i + 1, next.enc.state[s])
  BY <1>1, <1>2, <1>3, <1>5 DEF SaveOut, ClientType, Enc
<1>7. next.enc.state[s] \in State /\ "out" \in Kind
  BY <1>2, <1>3 DEF Kind
<1> DEFINE f == [call |-> "encrypt", session |-> s, index |-> i, done |-> FALSE]
           t == [at |-> Len(next.calls) + 1, kind |-> "out", session |-> s, index |-> i + 1,
                 state |-> next.enc.state[s]]
<1>8. WaitsFor(next, v, f, t)
  BY <1>2, <1>3, <1>4, <1>6, <1>7, Waits
<1>9. f.call = "encrypt" /\ f.session = s /\ f.index = i
  OBVIOUS
<1>10. t.at = Len(w.calls) + 1 /\ t.kind = "out" /\ t.session = s /\ t.index = i + 1
  BY <1>3
<1> HIDE DEF f, t
<1>11. TakesIndex(w, v, s, f, t)
  BY <1>2, <1>3, <1>8, <1>9, <1>10 DEF WaitsFor, TakesIndex
<1> QED BY <1>11 DEF s, v

\* ... and keeps the invariant, for a message that was yet to come.
LEMMA EncryptedGood ==
  ASSUME NEW w, NEW d, NEW x, Typed(w, d, x), Sound(w, d), Bounded(w, d, x, w.room.queue + 1),
         NEW late \in BOOLEAN, OutSession(w) # None,
         w.room.checked, ~LooksUp(w), w.room.sending # "encrypting", w.room.busy # "upload",
         Len(w.calls) < MaxDepth
  PROVE  /\ Good(Encrypted(w, late), d, x)
         /\ \E f, t : TakesIndex(w, Encrypted(w, late), OutSession(w), f, t)
<1> DEFINE s == OutSession(w)
           v == Encrypted(w, late)
           i == w.enc.index[s]
<1>1. /\ w \in ClientType /\ x.given \in Nat /\ x.given <= MaxMessages /\ MaxMessages \in Nat
      /\ w.room.queue \in Nat /\ w.calls \in Seq(Frame) /\ w.queue \in Seq(Task)
  BY GroupSessionAssumption DEF Typed, ClientType, Room
<1>2. s \in Session /\ i \in Index
  BY <1>1 DEF OutSession, ClientType, Enc
<1>3. i + 1 \in Index /\ i + 1 + w.room.queue <= x.given
  <2>1. i + (w.room.queue + 1) <= x.given
    BY <1>2 DEF Bounded
  <2>2. i \in Nat
    BY <1>2 DEF Index
  <2> HIDE DEF i
  <2> QED BY <1>1, <2>1, <2>2 DEF Index
<1>4. PICK f, t : TakesIndex(w, v, s, f, t)
  BY <1>1, <1>3, EncryptedIs
<1> HIDE DEF v, s, i
<1>5. Matches(t, f)
  BY <1>4 DEF Matches, TakesIndex
<1>6. /\ Tasks(v.calls, v.queue, d.running)
      /\ TasksOf(v.queue, d.running) = TasksOf(w.queue, d.running) \cup {t}
  BY <1>1, <1>4, <1>5, TaskSaved DEF Sound, TakesIndex
<1>7. /\ DOMAIN w.calls = 1 .. Len(w.calls) /\ Len(w.calls) \in Nat
      /\ DOMAIN v.calls = 1 .. Len(w.calls) + 1
      /\ v.calls[Len(w.calls) + 1] = f /\ \A p \in DOMAIN w.calls : v.calls[p] = w.calls[p]
  BY <1>1, <1>4, PutLast DEF TakesIndex
<1>8. \A p \in DOMAIN w.calls : w.calls[p].call \notin {"encrypt", "lookup"}
  BY DEF Sound, Encrypting, LooksUp
<1>9. /\ v.room.sending = "encrypting" /\ v.room.queue = w.room.queue
      /\ v.room.busy = w.room.busy /\ v.room.upload = w.room.upload /\ v.room.keys = w.room.keys
      /\ v.room.checked = w.room.checked
  BY <1>1, <1>4 DEF ClientType, Room, TakesIndex
<1>10. v.enc.index[s] = i + 1 /\ \A r \in Session : r # s => v.enc.index[r] = w.enc.index[r]
  BY <1>1, <1>2, <1>4 DEF ClientType, Enc, TakesIndex, i
<1>11. Bounded(v, d, x, ToCome(v))
  <2>1. ToCome(v) = w.room.queue
    BY <1>1, <1>9 DEF ToCome
  <2>2. \A y \in Int : y + (w.room.queue + 1) <= x.given => y + w.room.queue <= x.given
    BY <1>1
  <2>3. ASSUME NEW r \in Session
        PROVE  /\ v.enc.index[r] + w.room.queue <= x.given
               /\ v.enc.inbound[r] + w.room.queue <= x.given
               /\ d.row[r].index + w.room.queue <= x.given
    <3>1. /\ w.enc.index[r] \in Int /\ v.enc.inbound[r] \in Int /\ d.row[r].index \in Int
          /\ v.enc.inbound[r] = w.enc.inbound[r]
      BY SMTT(20), <1>1, <1>4 DEF Typed, ClientType, Enc, Row, Index, Nothing, TakesIndex
    <3>2. /\ w.enc.index[r] + w.room.queue <= x.given
          /\ v.enc.inbound[r] + w.room.queue <= x.given
          /\ d.row[r].index + w.room.queue <= x.given
      BY <2>2, <3>1 DEF Bounded
    <3> QED BY <1>3, <1>10, <3>2
  <2>4. ASSUME NEW u \in TasksOf(v.queue, d.running)
        PROVE  u.index + w.room.queue <= x.given
    <3>1. CASE u = t
      BY <1>3, <1>4, <3>1 DEF TakesIndex, i
    <3>2. CASE u \in TasksOf(w.queue, d.running)
      <4>1. u.index \in Int
        BY <1>1, <3>2, TaskTyped DEF Typed
      <4> QED BY <2>2, <3>2, <4>1 DEF Bounded
    <3> QED BY <1>6, <3>1, <3>2
  <2>5. ASSUME NEW p \in DOMAIN v.calls
        PROVE  v.calls[p].index + w.room.queue <= x.given
    <3>1. CASE p = Len(w.calls) + 1
      <4>1. f.index \in Int /\ f.index + (w.room.queue + 1) <= x.given
        BY <1>2, <1>4 DEF TakesIndex, Bounded, Index, i
      <4> QED BY <1>7, <2>2, <3>1, <4>1
    <3>2. CASE p \in DOMAIN w.calls
      <4>1. w.calls[p].index \in Int
        BY <1>1, <3>2, FrameTyped
      <4> QED BY <1>7, <2>2, <3>2, <4>1 DEF Bounded
    <3> QED BY <1>7, <3>1, <3>2
  <2>6. 0 + w.room.queue <= x.given
    BY <2>2 DEF Bounded
  <2> QED BY <2>1, <2>3, <2>4, <2>5, <2>6 DEF Bounded
<1>12. Encrypting(v)
  <2>1. f.call = "encrypt" /\ f.session = s /\ f.index = i
    BY <1>4 DEF TakesIndex, i
  <2>2. \A p \in DOMAIN v.calls : v.calls[p].call = "encrypt" => p = Len(w.calls) + 1
    BY <1>7, <1>8
  <2> QED BY <1>2, <1>7, <1>9, <1>10, <2>1, <2>2 DEF Encrypting
<1>13. Uploading(v)
  <2>1. /\ w.room.upload = None
        /\ \A p \in DOMAIN w.calls : w.calls[p].call \notin {"set", "set_in"}
    BY DEF Uploading, Sound
  <2>2. \A p \in DOMAIN v.calls : v.calls[p].call \notin {"set", "set_in"}
    BY <1>4, <1>7, <2>1 DEF TakesIndex
  <2> QED BY <1>9, <2>1, <2>2 DEF Uploading
<1>14. Lookups(v, d)
  <2>1. v.room.checked
    BY <1>9
  <2>2. ~LooksUp(v)
    BY <1>4, <1>8 DEF LooksUp, TakesIndex
  <2> QED BY <2>1, <2>2, LookedUp
<1>15. Typed(v, d, x)
  BY <1>4 DEF Typed, TakesIndex
<1> QED BY <1>4, <1>6, <1>11, <1>12, <1>13, <1>14, <1>15 DEF Good, Sound, v, s

-----------------------------------------------------------------------------
(* A look at the queue.                                                    *)

\* v differs from w in its room and in what sessions there are.
LEMMA RoomChanged ==
  ASSUME NEW w, NEW d, NEW x, NEW v, Typed(w, d, x), Sound(w, d),
         v \in ClientType, v.calls = w.calls, v.queue = w.queue,
         v.enc = w.enc \/ (v.enc.index = w.enc.index /\ w.room.checked),
         \/ w.room.sending = "encrypting" => v.room.sending = "encrypting"
         \/ \A p \in DOMAIN w.calls : w.calls[p].call # "encrypt",
         v.room.checked = w.room.checked,
         Uploading(v),
         Quiet(w) => Quiet(v) \/ (w.room.checked /\ ~LooksUp(w)),
         ~w.room.checked => v.room.busy = "no"
  PROVE  Typed(v, d, x) /\ Sound(v, d)
<1>1. Typed(v, d, x)
  BY DEF Typed
<1>2. Encrypting(v)
  BY DEF Sound, Encrypting
<1>3. Lookups(v, d)
  <2>1. Lookups(w, d) /\ v.calls = w.calls /\ v.queue = w.queue
        /\ (LooksUp(v) <=> LooksUp(w))
    BY DEF Sound, LooksUp
  <2>2. ~v.room.checked \/ LooksUp(v) => Quiet(v)
    BY <2>1 DEF Lookups
  <2> QED BY <2>1, <2>2 DEF Lookups
<1> QED BY <1>1, <1>2, <1>3 DEF Sound

\* Fewer messages are yet to come.
LEMMA LessToCome ==
  ASSUME NEW w, NEW d, NEW x, NEW n \in Nat, NEW m \in Nat, m <= n,
         NEW v, Typed(w, d, x), Bounded(w, d, x, n),
         v.enc = w.enc, v.calls = w.calls, v.queue = w.queue
  PROVE  Bounded(v, d, x, m)
<1>1. x.given \in Nat
  BY GroupSessionAssumption DEF Typed
<1>2. \A y \in Int : y + n <= x.given => y + m <= x.given
  BY <1>1
<1>3. ASSUME NEW r \in Session
      PROVE  /\ w.enc.index[r] + m <= x.given /\ w.enc.inbound[r] + m <= x.given
             /\ d.row[r].index + m <= x.given
  <2>1. w.enc.index[r] \in Int /\ w.enc.inbound[r] \in Int /\ d.row[r].index \in Int
    BY DEF Typed, ClientType, Enc, Row, Index, Nothing
  <2> QED BY <1>2, <2>1 DEF Bounded
<1>4. ASSUME NEW u \in TasksOf(w.queue, d.running)
      PROVE  u.index + m <= x.given
  <2>1. u.index \in Int
    BY TaskTyped DEF Typed, ClientType
  <2> QED BY <1>2, <2>1 DEF Bounded
<1>5. ASSUME NEW p \in DOMAIN w.calls
      PROVE  w.calls[p].index + m <= x.given
  <2>1. w.calls[p].index \in Int
    BY FrameTyped DEF Typed, ClientType
  <2> QED BY <1>2, <2>1 DEF Bounded
<1>6. 0 + m <= x.given
  BY <1>2 DEF Bounded
<1> QED BY <1>3, <1>4, <1>5, <1>6 DEF Bounded

\* cm_enc_create_out_group_keys() keeps the invariant.
LEMMA UploadKeysGood ==
  ASSUME NEW w, NEW d, NEW x, Good(w, d, x),
         w.room.checked, w.room.claimed, w.room.keys, w.room.sending = "no", w.room.busy = "no"
  PROVE  Good(UploadKeys(w), d, x)
<1> DEFINE old == OutSession(w)
           s   == IF old = None THEN w.created + 1 ELSE old
           v   == UploadKeys(w)
<1>1. CASE s \notin Session
  BY <1>1 DEF UploadKeys
<1>2. CASE s \in Session
  <2>1. /\ Typed(w, d, x) /\ Sound(w, d) /\ Bounded(w, d, x, ToCome(w))
        /\ w \in ClientType /\ w.enc.index[s] \in Index
    BY <1>2 DEF Good, Typed, ClientType, Enc
  <2>2. s \in 1..MaxSessions /\ w.created \in 0..MaxSessions
    BY <1>2, <2>1 DEF Session, ClientType
  <2> HIDE DEF s
  <2> DEFINE room1 == [w.room EXCEPT !.busy = "upload", !.upload = s, !.from = w.enc.index[s]]
             created1 == IF old = None THEN s ELSE w.created
  <2>3. v = [w EXCEPT !.room = room1, !.created = created1]
    BY <1>2, <2>1 DEF UploadKeys, ClientType, s
  <2>4. created1 \in 0..MaxSessions
    BY <2>2
  <2> HIDE DEF created1
  <2>5. room1 \in Room
    BY <1>2, <2>1 DEF ClientType, Room, s
  <2>13. v \in ClientType
    BY <2>1, <2>3, <2>4, <2>5 DEF ClientType
  <2>12. v.room = room1 /\ v.created = created1 /\ v.enc = w.enc /\ v.calls = w.calls
        /\ v.queue = w.queue
    BY <2>1, <2>3 DEF ClientType
  <2>6. /\ room1.busy = "upload" /\ room1.upload = s /\ room1.from = w.enc.index[s]
        /\ room1.keys = w.room.keys /\ room1.sending = w.room.sending
        /\ room1.checked = w.room.checked /\ room1.queue = w.room.queue
    BY <2>1 DEF ClientType, Room
  <2> HIDE DEF v, room1
  <2>7. Uploading(v)
    BY <2>1, <2>12, <2>6 DEF Uploading, Sound
  <2>8. ~LooksUp(w)
    BY <2>1 DEF Sound, Lookups, Quiet
  <2>9. Typed(v, d, x) /\ Sound(v, d)
    BY <2>1, <2>6, <2>7, <2>8, <2>12, <2>13, RoomChanged
  <2>10. ToCome(v) = ToCome(w)
    BY <2>12, <2>6 DEF ToCome
  <2>11. Bounded(v, d, x, ToCome(v))
    BY <2>1, <2>12, <2>10 DEF Bounded
  <2> QED BY <2>9, <2>11 DEF Good, v
<1> QED BY <1>1, <1>2

\* ensure_encryption_keys() keeps the invariant.
LEMMA EnsureKeysGood ==
  ASSUME NEW w, NEW d, NEW x, Good(w, d, x), w.room.checked, w.room.sending = "no"
  PROVE  Good(EnsureKeys(w), d, x)
<1> DEFINE v == [w EXCEPT !.room.busy = "claim"]
<1>1. w \in ClientType /\ Typed(w, d, x) /\ Sound(w, d) /\ Bounded(w, d, x, ToCome(w))
  BY DEF Good, Typed
<1>2. ASSUME w.room.busy = "no", ~w.room.claimed
      PROVE  Good(v, d, x)
  <2>1. /\ v \in ClientType /\ v.created = w.created /\ v.enc = w.enc /\ v.calls = w.calls
        /\ v.queue = w.queue
        /\ v.room.busy = "claim" /\ v.room.upload = w.room.upload /\ v.room.claimed = w.room.claimed
        /\ v.room.keys = w.room.keys /\ v.room.sending = w.room.sending
        /\ v.room.checked = w.room.checked /\ v.room.queue = w.room.queue
    BY <1>1 DEF ClientType, Room
  <2> HIDE DEF v
  <2>3. Uploading(v)
    BY <1>1, <1>2, <2>1 DEF Uploading, Sound
  <2>2. /\ w.room.sending = "encrypting" => v.room.sending = "encrypting"
        /\ Quiet(w) => Quiet(v) \/ (w.room.checked /\ ~LooksUp(w))
        /\ ~w.room.checked => v.room.busy = "no"
    BY <2>1 DEF Quiet
  <2>5. Typed(v, d, x) /\ Sound(v, d)
    BY <1>1, <2>1, <2>2, <2>3, RoomChanged
  <2>6. ToCome(v) = ToCome(w)
    BY <2>1 DEF ToCome
  <2>7. Bounded(v, d, x, ToCome(v))
    BY <1>1, <2>1, <2>6 DEF Bounded
  <2> QED BY <2>5, <2>7 DEF Good
<1> QED BY <1>2, UploadKeysGood DEF EnsureKeys

\* So does a call that asks the database for a session.
LEMMA LookupGood ==
  ASSUME NEW w, NEW d, NEW x, Good(w, d, x), ~w.room.checked, Len(w.calls) < MaxDepth
  PROVE  Good(Lookup(w), d, x)
<1> DEFINE f == [call |-> "lookup", session |-> None, index |-> 0, done |-> FALSE]
           t == [at |-> Len(w.calls) + 1, kind |-> "lookup", session |-> None, index |-> 0,
                 state |-> "usable"]
           v == Lookup(w)
<1>1. /\ w \in ClientType /\ Typed(w, d, x) /\ Sound(w, d) /\ Bounded(w, d, x, ToCome(w))
      /\ w.calls \in Seq(Frame) /\ w.queue \in Seq(Task)
  BY DEF Good, Typed, ClientType
<1>2. Len(w.calls) \in Nat /\ MaxDepth \in Nat /\ MaxMessages \in Nat
  BY <1>1, GroupSessionAssumption
<1>3. f \in Frame /\ t \in Task
  BY <1>2 DEF Frame, Task, Index, State
<1>4. Len(Append(w.calls, f)) = Len(w.calls) + 1
  BY <1>1
<1>5. /\ v.room = w.room /\ v.enc = w.enc /\ v.created = w.created
      /\ v.calls = Append(w.calls, f) /\ v.queue = Append(w.queue, t) /\ v \in ClientType
  <2>1. Wait(w, "lookup", None, 0) = [w EXCEPT !.calls = Append(w.calls, f)]
    BY DEF Wait
  <2>2. v = [w EXCEPT !.calls = Append(w.calls, f), !.queue = Append(w.queue, t)]
    BY <1>1, <1>4, <2>1 DEF Lookup, ClientType
  <2>3. Append(w.calls, f) \in Seq(Frame) /\ Append(w.queue, t) \in Seq(Task)
    BY <1>1, <1>3, PutLast
  <2> HIDE DEF v, f, t
  <2> QED BY <1>1, <2>2, <2>3 DEF ClientType
<1>6. /\ f.call = "lookup" /\ ~f.done /\ f.index = 0 /\ t.at = Len(w.calls) + 1 /\ t.index = 0
      /\ t.kind = "lookup"
  OBVIOUS
<1> HIDE DEF v, f, t
<1>7. Matches(t, f)
  BY <1>6 DEF Matches
<1>8. /\ Tasks(v.calls, v.queue, d.running) /\ InOrder(v.calls, v.queue, d.running)
      /\ TasksOf(v.queue, d.running) = TasksOf(w.queue, d.running) \cup {t}
  BY SMTT(20), <1>1, <1>3, <1>5, <1>6, <1>7, TaskAdded DEF Sound, Lookups
<1>9. /\ DOMAIN w.calls = 1 .. Len(w.calls) /\ Len(w.calls) \in Nat
      /\ DOMAIN v.calls = 1 .. Len(w.calls) + 1 /\ Len(v.calls) = Len(w.calls) + 1
      /\ v.calls[Len(w.calls) + 1] = f /\ \A p \in DOMAIN w.calls : v.calls[p] = w.calls[p]
  BY <1>1, <1>3, <1>5, PutLast
<1>10. Typed(v, d, x)
  BY <1>1, <1>2, <1>5, <1>9 DEF Typed
<1>11. Bounded(v, d, x, ToCome(v))
  BY <1>1, <1>5, <1>6, <1>8, <1>9 DEF Bounded, ToCome
<1>12. Encrypting(v)
  BY <1>1, <1>5, <1>6, <1>9 DEF Encrypting, Sound
<1>13. Uploading(v)
  BY <1>1, <1>5, <1>6, <1>9 DEF Uploading, Sound
<1>14. /\ Quiet(v) /\ v.enc.out = {} /\ v.enc.key = None /\ v.room.busy = "no"
       /\ v.room.checked = w.room.checked
  BY <1>1, <1>5 DEF Sound, Lookups, Quiet
<1>15. Lookups(v, d)
  <2>1. Lookups(w, d) /\ ~v.room.checked
    BY <1>1, <1>14 DEF Sound
  <2>2. \A p \in DOMAIN v.calls : v.calls[p].call = "lookup"
    BY <1>6, <1>9, <2>1 DEF Lookups
  <2>3. \A p \in DOMAIN v.calls : v.calls[p].done =>
          p \in DOMAIN w.calls /\ v.calls[p] = w.calls[p]
    BY <1>6, <1>9
  <2>4. \A p \in DOMAIN v.calls : v.calls[p].done /\ v.calls[p].session # None =>
          IsOut(d.row[v.calls[p].session])
          /\ v.calls[p].index = d.row[v.calls[p].session].index
    BY <2>1, <2>2, <2>3 DEF Lookups, IsOut
  <2> QED BY <1>8, <1>14, <2>1, <2>2, <2>4 DEF Lookups, IsOut
<1> QED BY <1>8, <1>10, <1>11, <1>12, <1>13, <1>15 DEF Good, Sound, v

\* Only the room changes.
LEMMA RoomSet ==
  ASSUME NEW w \in ClientType, NEW r \in Room, NEW v, v = [w EXCEPT !.room = r]
  PROVE  /\ v \in ClientType /\ v.room = r /\ v.enc = w.enc /\ v.calls = w.calls
         /\ v.queue = w.queue /\ v.created = w.created
<1> QED BY DEF ClientType

\* The message at the head of the queue is about to be encrypted in v.
Ready(w, v, d, x) ==
  /\ Typed(v, d, x) /\ Sound(v, d) /\ Bounded(v, d, x, v.room.queue + 1)
  /\ v.room.checked /\ ~LooksUp(v) /\ v.room.sending = "no" /\ v.room.busy # "upload"
  /\ v.room.upload = w.room.upload /\ v.room.from = w.room.from
  /\ v.enc = w.enc /\ v.calls = w.calls /\ v.queue = w.queue /\ v.created = w.created

\* A message is taken from the queue of a room that can encrypt it.
LEMMA OneLess ==
  ASSUME NEW w, NEW d, NEW x, Good(w, d, x), w.room.checked, w.room.sending = "no",
         w.room.claimed, ~w.room.keys, w.room.queue > 0
  PROVE  Ready(w, [w EXCEPT !.room.queue = @ - 1], d, x)
<1> DEFINE r == [w.room EXCEPT !.queue = @ - 1]
           v == [w EXCEPT !.room.queue = @ - 1]
<1>1. /\ Typed(w, d, x) /\ Sound(w, d) /\ Bounded(w, d, x, ToCome(w)) /\ w \in ClientType
      /\ w.room \in Room /\ w.room.queue \in Nat
      /\ w.room.queue <= MaxMessages /\ MaxMessages \in Nat
  BY GroupSessionAssumption DEF Good, Typed, ClientType, Room
<1>2. w.room.queue - 1 \in 0..MaxMessages
  BY <1>1
<1>3. /\ r \in Room /\ r.queue = w.room.queue - 1 /\ r.busy = w.room.busy
      /\ r.upload = w.room.upload /\ r.from = w.room.from /\ r.keys = w.room.keys
      /\ r.sending = "no" /\ r.claimed /\ r.checked
  BY <1>1, <1>2 DEF Room
<1>4. w.room.busy # "upload" /\ ~LooksUp(w) /\ ~Quiet(w)
  BY <1>1 DEF Sound, Uploading, Lookups, Quiet
<1>5. v = [w EXCEPT !.room = r]
  OBVIOUS
<1> HIDE DEF v, r
<1>6. /\ v \in ClientType /\ v.room = r /\ v.enc = w.enc /\ v.calls = w.calls
      /\ v.queue = w.queue /\ v.created = w.created
  BY <1>1, <1>3, <1>5, RoomSet
<1>7. Uploading(v)
  BY <1>1, <1>3, <1>6 DEF Uploading, Sound
<1>8. Typed(v, d, x) /\ Sound(v, d)
  BY <1>1, <1>3, <1>4, <1>6, <1>7, RoomChanged
<1>9. ToCome(w) = v.room.queue + 1
  BY <1>1, <1>3, <1>6 DEF ToCome
<1>10. Bounded(v, d, x, v.room.queue + 1)
  BY <1>1, <1>6, <1>9 DEF Bounded
<1>11. ~LooksUp(v)
  BY <1>4, <1>6 DEF LooksUp
<1>12. Ready(w, v, d, x)
  BY <1>3, <1>4, <1>6, <1>8, <1>10, <1>11 DEF Ready
<1> QED BY <1>12 DEF v

\* The message is a file, which is uploaded first.
LEMMA FileGood ==
  ASSUME NEW w, NEW d, NEW x, Ready(w, w, d, x)
  PROVE  Good([w EXCEPT !.room.sending = "file"], d, x)
<1> DEFINE r == [w.room EXCEPT !.sending = "file"]
           v == [w EXCEPT !.room.sending = "file"]
<1>1. Typed(w, d, x) /\ Sound(w, d) /\ Bounded(w, d, x, w.room.queue + 1) /\ w \in ClientType
  BY DEF Ready, Typed
<1>2. /\ r \in Room /\ r.queue = w.room.queue /\ r.busy = w.room.busy
      /\ r.upload = w.room.upload /\ r.from = w.room.from /\ r.keys = w.room.keys
      /\ r.sending = "file" /\ r.checked
  BY <1>1 DEF Room, ClientType, Ready
<1>3. v = [w EXCEPT !.room = r]
  OBVIOUS
<1> HIDE DEF v, r
<1>4. /\ v \in ClientType /\ v.room = r /\ v.enc = w.enc /\ v.calls = w.calls
      /\ v.queue = w.queue
  BY <1>1, <1>2, <1>3, RoomSet
<1>5. Uploading(v)
  BY <1>1, <1>2, <1>4 DEF Uploading, Sound, Ready
<1>6. Typed(v, d, x) /\ Sound(v, d)
  BY <1>1, <1>2, <1>4, <1>5, RoomChanged DEF Ready
<1>7. ToCome(v) = w.room.queue + 1
  BY <1>2, <1>4 DEF ToCome
<1>8. Bounded(v, d, x, ToCome(v))
  BY <1>1, <1>4, <1>7 DEF Bounded
<1> QED BY <1>6, <1>8 DEF Good, v

\* room_send_message_from_queue() keeps the invariant once it knows of the session.
LEMMA ProceedGood ==
  ASSUME NEW w, NEW d, NEW x, Good(w, d, x), w.room.checked, w.room.sending = "no",
         NEW found \in BOOLEAN, found => OutSession(w) # None,
         w.room.claimed => w.room.queue > 0, Len(w.calls) < MaxDepth,
         NEW file \in BOOLEAN, NEW late \in BOOLEAN
  PROVE  Good(Proceed(w, found, file, late), d, x)
<1>1. CASE ~found \/ ~w.room.claimed \/ w.room.keys
  BY <1>1, EnsureKeysGood DEF Proceed
<1>2. CASE found /\ w.room.claimed /\ ~w.room.keys
  <2> DEFINE v == [w EXCEPT !.room.queue = @ - 1]
  <2>1. Ready(w, v, d, x)
    BY <1>2, OneLess
  <2>2. Proceed(w, found, file, late)
          = IF file THEN [v EXCEPT !.room.sending = "file"] ELSE Encrypt(v, late)
    BY <1>2 DEF Proceed
  <2> HIDE DEF v
  <2>3. Ready(v, v, d, x)
    BY <2>1 DEF Ready
  <2>4. OutSession(v) = OutSession(w) /\ OutSession(v) # None
    BY <1>2, <2>1 DEF OutSession, Ready
  <2>5. Len(v.calls) < MaxDepth
    BY <2>1 DEF Ready
  <2>6. CASE file
    <3>1. Proceed(w, found, file, late) = [v EXCEPT !.room.sending = "file"]
      BY <2>2, <2>6
    <3>2. Good([v EXCEPT !.room.sending = "file"], d, x)
      BY <2>3, FileGood
    <3> QED BY <3>1, <3>2
  <2>7. CASE ~file
    <3>1. Good(Encrypted(v, late), d, x)
      BY <2>3, <2>4, <2>5, EncryptedGood DEF Ready
    <3> QED BY <2>2, <2>4, <2>7, <3>1 DEF Encrypt
  <2> QED BY <2>6, <2>7
<1> QED BY <1>1, <1>2

\* room_send_message_from_queue() keeps the invariant.
LEMMA SendFromQueueGood ==
  ASSUME NEW w, NEW d, NEW x, Good(w, d, x), Len(w.calls) < MaxDepth,
         NEW file \in BOOLEAN, NEW late \in BOOLEAN
  PROVE  Good(SendFromQueue(w, file, late), d, x)
<1>1. /\ w \in ClientType /\ w.room.queue \in Nat /\ Sound(w, d) /\ w.room.checked \in BOOLEAN
  BY DEF Good, Typed, ClientType, Room
<1>2. CASE w.room.queue = 0 \/ w.room.sending # "no"
  BY <1>2 DEF SendFromQueue
<1>3. CASE ~(w.room.queue = 0 \/ w.room.sending # "no") /\ w.enc.key = None /\ ~w.room.checked
  BY <1>3, LookupGood DEF SendFromQueue
<1>4. CASE ~(w.room.queue = 0 \/ w.room.sending # "no") /\ ~(w.enc.key = None /\ ~w.room.checked)
  <2> DEFINE found == OutSession(w) # None
  <2>1. SendFromQueue(w, file, late) = Proceed(w, found, file, late)
    BY <1>4 DEF SendFromQueue
  <2>2. w.room.checked
    BY <1>1, <1>4 DEF Sound, Lookups
  <2>3. w.room.sending = "no" /\ w.room.queue > 0 /\ found \in BOOLEAN
    BY <1>1, <1>4
  <2> HIDE DEF found
  <2> QED BY <2>1, <2>2, <2>3, ProceedGood DEF found
<1> QED BY <1>2, <1>3, <1>4

-----------------------------------------------------------------------------
(* The parts of a step.                                                    *)

\* So does any call that stores a session and waits, whatever session it is.
LEMMA WaitsGood ==
  ASSUME NEW w, NEW d, NEW x, Good(w, d, x), NEW v, NEW f, NEW t,
         WaitsFor(w, v, f, t), Matches(t, f), f.call \in {"set", "set_in", "rm"},
         f.index + ToCome(w) <= x.given, t.index + ToCome(w) <= x.given,
         w.room.checked, ~LooksUp(w),
         f.call \in {"set", "set_in"} =>
           /\ w.room.busy = "upload" /\ w.room.upload = None
           /\ w.enc.inbound[f.session] # Nothing
           /\ \A p \in DOMAIN w.calls : w.calls[p].call \notin {"set", "set_in"}
  PROVE  Good(v, d, x)
<1>1. /\ w \in ClientType /\ Typed(w, d, x) /\ Sound(w, d) /\ Bounded(w, d, x, ToCome(w))
      /\ w.calls \in Seq(Frame) /\ w.queue \in Seq(Task)
  BY DEF Good, Typed, ClientType
<1>2. /\ v.room = w.room /\ v.enc = w.enc /\ f \in Frame /\ t \in Task /\ ~f.done
      /\ v.calls = Append(w.calls, f) /\ v.queue = <<t>> \o w.queue /\ t.at = Len(w.calls) + 1
      /\ v \in ClientType /\ Len(v.calls) <= MaxDepth
  BY DEF WaitsFor
<1>3. /\ Tasks(v.calls, v.queue, d.running)
      /\ TasksOf(v.queue, d.running) = TasksOf(w.queue, d.running) \cup {t}
  BY <1>1, <1>2, TaskSaved DEF Sound
<1>4. /\ DOMAIN w.calls = 1 .. Len(w.calls) /\ Len(w.calls) \in Nat
      /\ DOMAIN v.calls = 1 .. Len(w.calls) + 1
      /\ v.calls[Len(w.calls) + 1] = f /\ \A p \in DOMAIN w.calls : v.calls[p] = w.calls[p]
  BY <1>1, <1>2, PutLast
<1>5. f.session \in Session
  BY DEF Matches
<1>6. Bounded(v, d, x, ToCome(v))
  BY <1>1, <1>2, <1>3, <1>4 DEF Bounded, ToCome
<1>7. Encrypting(v)
  BY <1>1, <1>2, <1>4 DEF Encrypting, Sound
<1>8. Uploading(v)
  BY <1>1, <1>2, <1>4, <1>5 DEF Uploading, Sound
<1>9. Lookups(v, d)
  <2>1. ~LooksUp(v)
    BY <1>2, <1>4 DEF LooksUp
  <2> QED BY <1>2, <2>1, LookedUp
<1>10. Typed(v, d, x)
  BY <1>1, <1>2 DEF Typed
<1> QED BY <1>3, <1>6, <1>7, <1>8, <1>9, <1>10 DEF Good, Sound

\* v is w without its innermost call, f.
CallDone(w, v, f) ==
  /\ v \in ClientType /\ v.room = w.room /\ v.enc = w.enc /\ v.queue = w.queue
  /\ v.created = w.created /\ v.calls = Front(w.calls) /\ Len(v.calls) < MaxDepth
  /\ DOMAIN v.calls = 1 .. Len(w.calls) - 1
  /\ DOMAIN w.calls = 1 .. Len(w.calls) /\ Len(w.calls) \in Nat
  /\ Len(w.calls) \in DOMAIN w.calls /\ f = w.calls[Len(w.calls)] /\ f \in Frame
  /\ \A p \in DOMAIN v.calls : /\ p \in DOMAIN w.calls /\ p # Len(w.calls)
                               /\ v.calls[p] = w.calls[p]

\* A call that returns keeps the invariant, and knows what it waited for.
LEMMA ReturnedGood ==
  ASSUME NEW w, NEW d, NEW x, Good(w, d, x), w.calls # <<>>, w.calls[Len(w.calls)].done
  PROVE  Good(Returned(w), d, x) /\ CallDone(w, Returned(w), w.calls[Len(w.calls)])
<1> DEFINE v == Returned(w)
           c == Front(w.calls)
<1>1. /\ w \in ClientType /\ Typed(w, d, x) /\ Sound(w, d) /\ Bounded(w, d, x, ToCome(w))
      /\ w.calls \in Seq(Frame) /\ w.queue \in Seq(Task) /\ Len(w.calls) <= MaxDepth
      /\ MaxDepth \in Nat
  BY GroupSessionAssumption DEF Good, Typed, ClientType
<1>2. /\ c \in Seq(Frame) /\ Len(c) = Len(w.calls) - 1 /\ DOMAIN w.calls = 1 .. Len(w.calls)
      /\ Len(w.calls) \in Nat /\ Len(w.calls) > 0 /\ DOMAIN c = 1 .. Len(w.calls) - 1
      /\ w.calls[Len(w.calls)] \in Frame
      /\ \A p \in DOMAIN c : p \in DOMAIN w.calls /\ c[p] = w.calls[p]
  BY <1>1, DropLast
<1> HIDE DEF c
<1>3. /\ v \in ClientType /\ v.room = w.room /\ v.enc = w.enc /\ v.queue = w.queue
      /\ v.created = w.created /\ v.calls = c
  BY <1>1, <1>2 DEF Returned, ClientType, c
<1> HIDE DEF v
<1>4. CallDone(w, v, w.calls[Len(w.calls)])
  <2>1. \A p \in DOMAIN c : p # Len(w.calls)
    BY <1>2
  <2>2. v.calls = Front(w.calls)
    BY <1>3 DEF c
  <2>3. Len(c) < MaxDepth /\ Len(w.calls) \in DOMAIN w.calls
    BY <1>1, <1>2
  <2> QED BY <1>2, <1>3, <2>1, <2>2, <2>3 DEF CallDone
<1>5. /\ Tasks(v.calls, v.queue, d.running)
      /\ InOrder(w.calls, w.queue, d.running) => InOrder(v.calls, v.queue, d.running)
  BY <1>1, <1>3, CallReturned DEF Sound, c
<1>6. Bounded(v, d, x, ToCome(v))
  BY <1>1, <1>2, <1>3 DEF Bounded, ToCome
<1>13. \A p \in DOMAIN v.calls : p \in DOMAIN w.calls /\ v.calls[p] = w.calls[p]
  BY <1>2, <1>3
<1>14. Encrypting(w) /\ Uploading(w) /\ Lookups(w, d)
  BY <1>1 DEF Sound
<1>7. Encrypting(v)
  BY <1>3, <1>13, <1>14 DEF Encrypting
<1>8. Uploading(v)
  BY <1>3, <1>13, <1>14 DEF Uploading
<1>9. LooksUp(v) => LooksUp(w)
  BY <1>2, <1>3 DEF LooksUp
<1>10. Quiet(w) => Quiet(v)
  BY <1>3 DEF Quiet
<1>11. Lookups(v, d)
  BY <1>3, <1>5, <1>9, <1>10, <1>13, <1>14 DEF Lookups
<1>12. Typed(v, d, x)
  BY <1>1, <1>2, <1>3 DEF Typed
<1> QED BY <1>4, <1>5, <1>6, <1>7, <1>8, <1>11, <1>12 DEF Good, Sound, v

\* What else the worker and the network have does not matter.
LEMMA SameGood ==
  ASSUME NEW w, NEW d, NEW x, Good(w, d, x), NEW e, NEW y,
         e.running = d.running, e.row = d.row, y.given = x.given,
         y.shared \in [Session -> Index \cup {Nothing}],
         y.last \in [Session -> Index \cup {Nothing}]
  PROVE  Good(w, e, y)
<1>1. Typed(w, e, y)
  BY DEF Good, Typed
<1>2. Bounded(w, e, y, ToCome(w))
  BY DEF Good, Bounded
<1>3. Sound(w, e)
  BY DEF Good, Sound, Lookups
<1> QED BY <1>1, <1>2, <1>3 DEF Good

GoodState == TypeOK /\ Good(Client, db, wire)

\* The client's state is of its type.
LEMMA ClientIs ==
  ASSUME TypeOK
  PROVE  /\ Client \in ClientType /\ Client.room = room /\ Client.enc = enc /\ Client.calls = calls
         /\ Client.queue = db.queue /\ Client.created = wire.created
<1> QED BY DEF TypeOK, Client, ClientType, Db, Wire

\* What a step makes of the client is the state after it.
LEMMA StepGood ==
  ASSUME TypeOK, NEW v, Good(v, db, wire'), Becomes(v), wire' \in Wire, v.created = wire'.created
  PROVE  GoodState' /\ Client' = v /\ db'.running = db.running /\ db'.row = db.row
<1>1. v \in ClientType /\ Len(v.calls) <= MaxDepth
  BY DEF Good, Typed
<1>2. /\ db' = [db EXCEPT !.queue = v.queue]
      /\ db'.queue = v.queue /\ db'.running = db.running /\ db'.row = db.row /\ db' \in Db
  BY <1>1 DEF Becomes, TypeOK, Db, ClientType
<1>3. Client' = v
  BY <1>1, <1>2 DEF Becomes, Client, ClientType
<1>4. TypeOK'
  BY <1>1, <1>2 DEF Becomes, TypeOK, ClientType
<1>5. /\ wire'.given = wire'.given /\ wire'.shared \in [Session -> Index \cup {Nothing}]
      /\ wire'.last \in [Session -> Index \cup {Nothing}]
  BY DEF Wire
<1>6. Good(v, db', wire')
  BY <1>2, <1>5, SameGood
<1>7. Good(Client', db', wire')
  BY <1>3, <1>6
<1> QED BY <1>2, <1>3, <1>4, <1>7 DEF GoodState

-----------------------------------------------------------------------------
(* The sessions that are in use are ahead of what was sent with them.      *)

\* Index i of session s was shared, and no message has it or a later one.
Fresh(x, s, i) == x.shared[s] # Nothing /\ x.shared[s] <= i /\ x.last[s] < i

\* Nothing is known of a session before it is created.
New(w, d, x) ==
  /\ \A s \in Session : s > w.created =>
       /\ x.shared[s] = Nothing /\ x.last[s] = Nothing
       /\ w.enc.index[s] = 0 /\ d.row[s].type = "none"
  /\ w.enc.key <= w.created /\ w.room.upload <= w.created
  /\ \A s \in w.enc.out : s <= w.created
  /\ \A p \in DOMAIN w.calls : w.calls[p].session <= w.created

\* What is stored as usable is the session as it is now.
Current(w, d) ==
  \A t \in TasksOf(w.queue, d.running) :
    t.kind = "out" /\ t.state = "usable" => t.index = w.enc.index[t.session]

Kept(w, x) ==
  /\ \A s \in w.enc.out : Fresh(x, s, w.enc.index[s])
  /\ \A p \in DOMAIN w.calls :
       LET s == w.calls[p].session
       IN  /\ w.calls[p].call = "set" => Fresh(x, s, w.enc.index[s])
           /\ w.calls[p].call = "encrypt" => Fresh(x, s, w.calls[p].index)
  /\ w.room.upload # None =>
       x.shared[w.room.upload] <= w.room.from /\ x.last[w.room.upload] < w.room.from

Saved(d, x) == \A s \in Session : IsOut(d.row[s]) => Fresh(x, s, d.row[s].index)

InUse(w, s) ==
  \/ s \in w.enc.out \/ s = w.room.upload
  \/ \E p \in DOMAIN w.calls : w.calls[p].call \in {"encrypt", "set"} /\ w.calls[p].session = s

ToBeStored(w, s) ==
  \E p \in DOMAIN w.calls : /\ w.calls[p].call = "encrypt" /\ w.calls[p].session = s
                            /\ ~w.calls[p].done

\* The row of a session in use is the session, but while a message waits for that.
Written(w, d) ==
  \A s \in Session : InUse(w, s) /\ IsOut(d.row[s]) =>
    d.row[s].index = w.enc.index[s] \/ ToBeStored(w, s)

Ahead(w, d, x) == New(w, d, x) /\ Current(w, d) /\ Kept(w, x) /\ Saved(d, x) /\ Written(w, d)

\* A room that uses fewer sessions stays ahead.
LEMMA RoomAhead ==
  ASSUME NEW w, NEW d, NEW x, NEW v, Ahead(w, d, x), w \in ClientType,
         v.calls = w.calls, v.queue = w.queue, v.created = w.created,
         v.enc.index = w.enc.index, v.enc.out \subseteq w.enc.out, v.enc.key \in {w.enc.key, None},
         v.room.upload = None \/ (v.room.upload = w.room.upload /\ v.room.from = w.room.from)
  PROVE  Ahead(v, d, x)
<1>1. New(w, d, x) /\ Current(w, d) /\ Kept(w, x) /\ Saved(d, x) /\ Written(w, d)
  BY DEF Ahead
<1>2. w.created \in Nat /\ None <= w.created
  BY GroupSessionAssumption DEF ClientType, None
<1>3. New(v, d, x)
  BY <1>1, <1>2 DEF New
<1>4. Current(v, d)
  BY <1>1 DEF Current
<1>5. Kept(v, x)
  BY <1>1 DEF Kept
<1>6. \A s \in Session : InUse(v, s) => InUse(w, s)
  BY DEF InUse, Session, None
<1>7. Written(v, d)
  BY <1>1, <1>6 DEF Written, ToBeStored
<1> QED BY <1>1, <1>3, <1>4, <1>5, <1>7 DEF Ahead

\* What the network was given otherwise does not matter to that.
LEMMA SameAhead ==
  ASSUME NEW w, NEW d, NEW x, Ahead(w, d, x), NEW e, NEW y,
         e.running = d.running, e.row = d.row, y.shared = x.shared, y.last = x.last
  PROVE  Ahead(w, e, y)
<1> QED BY DEF Ahead, New, Current, Kept, Saved, Written, Fresh

\* A call that returns leaves all that is stored.
LEMMA ReturnedAhead ==
  ASSUME NEW w, NEW d, NEW x, NEW v, NEW f, Ahead(w, d, x), CallDone(w, v, f), f.done
  PROVE  Ahead(v, d, x)
<1>1. New(w, d, x) /\ Current(w, d) /\ Kept(w, x) /\ Saved(d, x) /\ Written(w, d)
  BY DEF Ahead
<1>2. /\ v.room = w.room /\ v.enc = w.enc /\ v.queue = w.queue /\ v.created = w.created
      /\ \A p \in DOMAIN v.calls : p \in DOMAIN w.calls /\ v.calls[p] = w.calls[p]
      /\ \A p \in DOMAIN w.calls : ~w.calls[p].done => p \in DOMAIN v.calls
  BY DEF CallDone
<1>3. New(v, d, x)
  BY <1>1, <1>2 DEF New
<1>4. Current(v, d)
  BY <1>1, <1>2 DEF Current
<1>5. Kept(v, x)
  BY <1>1, <1>2 DEF Kept
<1>6. \A s \in Session : InUse(v, s) => InUse(w, s)
  BY <1>2 DEF InUse
<1>7. \A s \in Session : ToBeStored(w, s) => ToBeStored(v, s)
  BY <1>2 DEF ToBeStored
<1>8. Written(v, d)
  BY <1>1, <1>2, <1>6, <1>7 DEF Written
<1> QED BY <1>1, <1>3, <1>4, <1>5, <1>8 DEF Ahead

\* A call that stores a session which is no longer used, or is as it was.
LEMMA WaitsAhead ==
  ASSUME NEW w, NEW d, NEW x, Good(w, d, x), Ahead(w, d, x), NEW v, NEW f, NEW t,
         WaitsFor(w, v, f, t), Matches(t, f), f.call \in {"set", "set_in", "rm"},
         f.session <= w.created,
         t.kind = "out" => t.index = w.enc.index[t.session],
         f.call = "set" => f.session \in w.enc.out
  PROVE  Ahead(v, d, x)
<1>1. /\ New(w, d, x) /\ Current(w, d) /\ Kept(w, x) /\ Saved(d, x) /\ Written(w, d)
      /\ w \in ClientType /\ w.calls \in Seq(Frame) /\ w.queue \in Seq(Task) /\ Sound(w, d)
  BY DEF Ahead, Good, Typed, ClientType
<1>2. /\ v.room = w.room /\ v.enc = w.enc /\ f \in Frame /\ t \in Task /\ v.created = w.created
      /\ v.calls = Append(w.calls, f) /\ v.queue = <<t>> \o w.queue /\ t.at = Len(w.calls) + 1
  BY DEF WaitsFor
<1>3. /\ Tasks(v.calls, v.queue, d.running)
      /\ TasksOf(v.queue, d.running) = TasksOf(w.queue, d.running) \cup {t}
  BY <1>1, <1>2, TaskSaved DEF Sound
<1>4. \A p \in DOMAIN v.calls : v.calls[p] = f \/ (p \in DOMAIN w.calls /\ v.calls[p] = w.calls[p])
  BY <1>1, <1>2, PutLast
<1>5. \A p \in DOMAIN w.calls : p \in DOMAIN v.calls /\ v.calls[p] = w.calls[p]
  BY <1>1, <1>2, PutLast
<1>6. New(v, d, x)
  BY <1>1, <1>2, <1>4 DEF New
<1>7. Current(v, d)
  BY <1>1, <1>2, <1>3 DEF Current
<1>8. Kept(v, x)
  BY <1>1, <1>2, <1>4 DEF Kept
<1>9. \A s \in Session : InUse(v, s) => InUse(w, s)
  BY <1>2, <1>4 DEF InUse
<1>10. \A s \in Session : ToBeStored(w, s) => ToBeStored(v, s)
  BY <1>5 DEF ToBeStored
<1>11. Written(v, d)
  BY <1>1, <1>2, <1>9, <1>10 DEF Written
<1> QED BY <1>1, <1>6, <1>7, <1>8, <1>11 DEF Ahead

\* The session is ahead of the message it encrypts, and is stored like that.
LEMMA EncryptedAhead ==
  ASSUME NEW w, NEW d, NEW x, Typed(w, d, x), Sound(w, d), Ahead(w, d, x),
         NEW v, NEW s, NEW f, NEW t, TakesIndex(w, v, s, f, t),
         w.room.sending # "encrypting", w.room.busy # "upload"
  PROVE  Ahead(v, d, x)
<1>1. /\ New(w, d, x) /\ Current(w, d) /\ Kept(w, x) /\ Saved(d, x) /\ Written(w, d)
      /\ w \in ClientType /\ w.calls \in Seq(Frame) /\ w.queue \in Seq(Task)
      /\ Tasks(w.calls, w.queue, d.running)
      /\ x.shared \in [Session -> Index \cup {Nothing}]
      /\ x.last \in [Session -> Index \cup {Nothing}]
  BY DEF Ahead, Typed, ClientType, Sound
<1>2. /\ s \in Session /\ s \in w.enc.out /\ f \in Frame /\ t \in Task /\ v.created = w.created
      /\ f.call = "encrypt" /\ f.session = s /\ f.index = w.enc.index[s] /\ ~f.done
      /\ t.at = Len(w.calls) + 1 /\ t.kind = "out" /\ t.session = s
      /\ v.enc.key = w.enc.key /\ v.enc.out = w.enc.out
      /\ t.index = w.enc.index[s] + 1
      /\ v.calls = Append(w.calls, f) /\ v.queue = <<t>> \o w.queue
  BY DEF TakesIndex
<1>3. /\ v.room.upload = w.room.upload /\ w.room.upload = None
  BY <1>1 DEF TakesIndex, ClientType, Room, Sound, Uploading
<1>4. /\ w.enc.index[s] \in Nat /\ v.enc.index[s] = w.enc.index[s] + 1
      /\ \A r \in Session : r # s => v.enc.index[r] = w.enc.index[r]
  BY <1>1, <1>2 DEF ClientType, Enc, TakesIndex, Index
<1>5. Matches(t, f)
  BY <1>2 DEF Matches
<1>6. /\ Tasks(v.calls, v.queue, d.running)
      /\ TasksOf(v.queue, d.running) = TasksOf(w.queue, d.running) \cup {t}
  BY SMTT(20), <1>1, <1>2, <1>5, TaskSaved
<1>7. \A p \in DOMAIN v.calls : v.calls[p] = f \/ (p \in DOMAIN w.calls /\ v.calls[p] = w.calls[p])
  BY <1>1, <1>2, PutLast
<1>8. /\ Len(w.calls) + 1 \in DOMAIN v.calls /\ v.calls[Len(w.calls) + 1] = f
      /\ \A p \in DOMAIN w.calls : p \in DOMAIN v.calls /\ v.calls[p] = w.calls[p]
  BY <1>1, <1>2, PutLast
<1>9. \A p \in DOMAIN w.calls : w.calls[p].call \notin {"encrypt", "set", "set_in"}
  BY DEF Sound, Encrypting, Uploading
<1>10. s <= w.created /\ s \in Nat /\ w.created \in Nat
  BY <1>1, <1>2 DEF New, ClientType, Session
<1>11. New(v, d, x)
  <2>1. \A r \in Session : r > w.created => v.enc.index[r] = w.enc.index[r]
    BY <1>4, <1>10
  <2>2. \A p \in DOMAIN v.calls : v.calls[p].session <= w.created
    BY <1>1, <1>2, <1>7, <1>10 DEF New
  <2> QED BY <1>1, <1>2, <1>3, <2>1, <2>2 DEF New
<1>12. Current(v, d)
  <2>1. \A p \in DOMAIN w.calls : w.calls[p].call \in {"encrypt", "set", "set_in", "rm", "lookup"}
    <3>1. \A p \in DOMAIN w.calls : w.calls[p] \in Frame
      BY <1>1
    <3>2. \A g \in Frame : g.call \in {"encrypt", "set", "set_in", "rm", "lookup"}
      BY DEF Frame
    <3> QED BY <3>1, <3>2
  <2>2. \A u \in TasksOf(w.queue, d.running) : ~(u.kind = "out" /\ u.state = "usable")
    BY <1>1, <1>9, <2>1 DEF Tasks, Matches
  <2> QED BY <1>2, <1>4, <1>6, <2>2 DEF Current
<1>13. Fresh(x, s, w.enc.index[s]) /\ Fresh(x, s, w.enc.index[s] + 1)
  <2>1. Fresh(x, s, w.enc.index[s])
    BY <1>1, <1>2 DEF Kept
  <2>2. x.shared[s] \in Int /\ x.last[s] \in Int
    BY <1>1, <1>2 DEF Index, Nothing
  <2> QED BY <1>4, <2>1, <2>2 DEF Fresh
<1>14. \A r \in w.enc.out : Fresh(x, r, v.enc.index[r])
  <2>1. w.enc.out \subseteq Session
    BY <1>1 DEF ClientType, Enc
  <2> QED BY <1>1, <1>4, <1>13, <2>1 DEF Kept
<1>15. Kept(v, x)
  BY <1>2, <1>3, <1>7, <1>9, <1>13, <1>14 DEF Kept
<1>16. \A r \in Session : InUse(v, r) => r = s \/ InUse(w, r)
  BY <1>2, <1>3, <1>7 DEF InUse
<1>17. ToBeStored(v, s) /\ \A r \in Session : ~ToBeStored(w, r)
  BY <1>2, <1>8, <1>9 DEF ToBeStored
<1>18. Written(v, d)
  BY <1>1, <1>4, <1>16, <1>17 DEF Written
<1> QED BY <1>1, <1>11, <1>12, <1>15, <1>18 DEF Ahead

\* The key that is uploaded is that of a message no other key was shared for.
LEMMA UploadKeysAhead ==
  ASSUME NEW w, NEW d, NEW x, Good(w, d, x), Ahead(w, d, x), w.room.busy = "no"
  PROVE  Ahead(UploadKeys(w), d, x)
<1> DEFINE old == OutSession(w)
           s   == IF old = None THEN w.created + 1 ELSE old
           v   == UploadKeys(w)
<1>1. CASE s \notin Session
  BY <1>1 DEF UploadKeys
<1>2. CASE s \in Session
  <2>1. /\ New(w, d, x) /\ Current(w, d) /\ Kept(w, x) /\ Saved(d, x) /\ Written(w, d)
        /\ w \in ClientType /\ w.enc.index[s] \in Nat /\ w.created \in Nat
        /\ x.shared \in [Session -> Index \cup {Nothing}]
        /\ x.last \in [Session -> Index \cup {Nothing}]
    BY <1>2 DEF Good, Typed, Ahead, ClientType, Enc, Index
  <2>2. /\ v.room.upload = s /\ v.room.from = w.enc.index[s] /\ v.enc = w.enc
        /\ v.calls = w.calls /\ v.queue = w.queue
        /\ v.created = IF old = None THEN s ELSE w.created
    BY <1>2, <2>1 DEF UploadKeys, ClientType, Room
  <2>3. old # None => old \in w.enc.out /\ old <= w.created
    BY <2>1 DEF OutSession, New
  <2>4. s \in Nat /\ s > 0 /\ s <= v.created /\ v.created >= w.created /\ v.created \in Nat
    BY <1>2, <2>1, <2>2, <2>3 DEF Session
  <2> HIDE DEF v
  <2>5. New(v, d, x)
    <3>1. \A r \in Int : r <= w.created => r <= v.created
      BY <2>1, <2>4
    <3>2. w.enc.key \in Int /\ w.enc.out \subseteq Int
      BY <2>1 DEF ClientType, Enc, Session, None
    <3>3. \A p \in DOMAIN w.calls : w.calls[p].session \in Int
      <4>1. \A p \in DOMAIN w.calls : w.calls[p] \in Frame
        BY <2>1 DEF ClientType
      <4>2. \A g \in Frame : g.session \in Int
        BY DEF Frame, Session, None
      <4> QED BY <4>1, <4>2
    <3>4. \A r \in Session : r > v.created => r > w.created
      BY <2>1, <2>4 DEF Session
    <3> HIDE DEF s
    <3> QED BY <2>1, <2>2, <2>4, <3>1, <3>2, <3>3, <3>4 DEF New
  <2>6. Current(v, d)
    BY <2>1, <2>2 DEF Current
  <2>7. x.shared[s] <= w.enc.index[s] /\ x.last[s] < w.enc.index[s]
    <3>1. CASE old = None
      BY <1>2, <2>1, <3>1 DEF New, Nothing
    <3>2. CASE old # None
      BY <2>1, <2>3, <3>2 DEF Kept, Fresh
    <3> QED BY <3>1, <3>2
  <2>8. Kept(v, x)
    <3> HIDE DEF s
    <3> QED BY <2>1, <2>2, <2>7 DEF Kept
  <2>9. Written(v, d)
    <3>1. \A r \in Session : InUse(v, r) => InUse(w, r) \/ r = s
      BY <2>2 DEF InUse
    <3>2. InUse(w, s) \/ ~IsOut(d.row[s])
      <4>1. CASE old = None
        BY <1>2, <2>1, <4>1 DEF New, IsOut
      <4>2. CASE old # None
        BY <2>3, <4>2 DEF InUse
      <4> QED BY <4>1, <4>2
    <3> HIDE DEF s
    <3> QED BY <2>1, <2>2, <3>1, <3>2 DEF Written, ToBeStored
  <2> QED BY <2>1, <2>5, <2>6, <2>8, <2>9 DEF Ahead, v
<1> QED BY <1>1, <1>2

\* ensure_encryption_keys() uploads such a key or none.
LEMMA EnsureKeysAhead ==
  ASSUME NEW w, NEW d, NEW x, Good(w, d, x), Ahead(w, d, x)
  PROVE  Ahead(EnsureKeys(w), d, x)
<1> DEFINE v == [w EXCEPT !.room.busy = "claim"]
<1>1. w \in ClientType
  BY DEF Good, Typed
<1>2. Ahead(v, d, x)
  <2>1. /\ v.calls = w.calls /\ v.queue = w.queue /\ v.created = w.created /\ v.enc = w.enc
        /\ v.room.upload = w.room.upload /\ v.room.from = w.room.from
    BY <1>1 DEF ClientType, Room
  <2> HIDE DEF v
  <2> QED BY <1>1, <2>1, RoomAhead
<1> QED BY <1>2, UploadKeysAhead DEF EnsureKeys

\* room_send_message_from_queue() keeps the room ahead once it knows of the session.
LEMMA ProceedAhead ==
  ASSUME NEW w, NEW d, NEW x, Good(w, d, x), Ahead(w, d, x),
         w.room.checked, w.room.sending = "no",
         NEW found \in BOOLEAN, found => OutSession(w) # None,
         w.room.claimed => w.room.queue > 0, Len(w.calls) < MaxDepth,
         NEW file \in BOOLEAN, NEW late \in BOOLEAN
  PROVE  Ahead(Proceed(w, found, file, late), d, x)
<1>1. CASE ~found \/ ~w.room.claimed \/ w.room.keys
  BY <1>1, EnsureKeysAhead DEF Proceed
<1>2. CASE found /\ w.room.claimed /\ ~w.room.keys
  <2> DEFINE v == [w EXCEPT !.room.queue = @ - 1]
  <2>1. Ready(w, v, d, x)
    BY <1>2, OneLess
  <2>2. Proceed(w, found, file, late)
          = IF file THEN [v EXCEPT !.room.sending = "file"] ELSE Encrypt(v, late)
    BY <1>2 DEF Proceed
  <2>3. w \in ClientType
    BY DEF Good, Typed
  <2> HIDE DEF v
  <2>4. Ahead(v, d, x)
    BY <2>1, <2>3, RoomAhead DEF Ready
  <2>5. v \in ClientType /\ Len(v.calls) < MaxDepth
    BY <2>1 DEF Ready, Typed
  <2>6. CASE file
    <3> DEFINE u == [v EXCEPT !.room.sending = "file"]
    <3>1. /\ u.calls = v.calls /\ u.queue = v.queue /\ u.created = v.created /\ u.enc = v.enc
          /\ u.room.upload = v.room.upload /\ u.room.from = v.room.from
      BY <2>5 DEF ClientType, Room
    <3>2. Proceed(w, found, file, late) = u
      BY <2>2, <2>6
    <3> HIDE DEF u
    <3> QED BY <2>4, <2>5, <3>1, <3>2, RoomAhead
  <2>7. CASE ~file
    <3>1. OutSession(v) # None
      BY <1>2, <2>1 DEF OutSession, Ready
    <3>2. PICK f, t : TakesIndex(v, Encrypted(v, late), OutSession(v), f, t)
      BY <2>1, <2>5, <3>1, EncryptedGood DEF Ready
    <3>3. Ahead(Encrypted(v, late), d, x)
      BY <2>1, <2>4, <3>2, EncryptedAhead DEF Ready
    <3> QED BY <2>2, <2>7, <3>1, <3>3 DEF Encrypt
  <2> QED BY <2>6, <2>7
<1> QED BY <1>1, <1>2

\* To look for a session changes none.
LEMMA LookupAhead ==
  ASSUME NEW w, NEW d, NEW x, Good(w, d, x), Ahead(w, d, x), ~w.room.checked,
         Len(w.calls) < MaxDepth
  PROVE  Ahead(Lookup(w), d, x)
<1> DEFINE f == [call |-> "lookup", session |-> None, index |-> 0, done |-> FALSE]
           t == [at |-> Len(w.calls) + 1, kind |-> "lookup", session |-> None, index |-> 0,
                 state |-> "usable"]
           v == Lookup(w)
<1>1. /\ w \in ClientType /\ Sound(w, d) /\ w.calls \in Seq(Frame) /\ w.queue \in Seq(Task)
      /\ New(w, d, x) /\ Current(w, d) /\ Kept(w, x) /\ Saved(d, x) /\ Written(w, d)
  BY DEF Good, Typed, ClientType, Ahead
<1>2. Len(w.calls) \in Nat /\ MaxDepth \in Nat /\ MaxMessages \in Nat
  BY <1>1, GroupSessionAssumption
<1>3. f \in Frame /\ t \in Task
  BY <1>2 DEF Frame, Task, Index, State
<1>4. Len(Append(w.calls, f)) = Len(w.calls) + 1
  BY <1>1
<1>5. /\ v.room = w.room /\ v.enc = w.enc /\ v.created = w.created
      /\ v.calls = Append(w.calls, f) /\ v.queue = Append(w.queue, t)
  <2>1. Wait(w, "lookup", None, 0) = [w EXCEPT !.calls = Append(w.calls, f)]
    BY DEF Wait
  <2>2. v = [w EXCEPT !.calls = Append(w.calls, f), !.queue = Append(w.queue, t)]
    BY <1>1, <1>4, <2>1 DEF Lookup, ClientType
  <2> HIDE DEF v, f, t
  <2> QED BY <1>1, <2>2 DEF ClientType
<1>6. f.call = "lookup" /\ f.session = None /\ t.kind = "lookup" /\ t.at = Len(w.calls) + 1
      /\ ~f.done
  OBVIOUS
<1> HIDE DEF v, f, t
<1>7. Matches(t, f)
  BY <1>6 DEF Matches
<1>8. /\ Tasks(v.calls, v.queue, d.running) /\ InOrder(v.calls, v.queue, d.running)
      /\ TasksOf(v.queue, d.running) = TasksOf(w.queue, d.running) \cup {t}
  BY <1>1, <1>3, <1>5, <1>6, <1>7, TaskAdded DEF Sound, Lookups
<1>9. \A p \in DOMAIN v.calls : v.calls[p] = f \/ (p \in DOMAIN w.calls /\ v.calls[p] = w.calls[p])
  BY <1>1, <1>3, <1>5, PutLast
<1>10. \A p \in DOMAIN w.calls : p \in DOMAIN v.calls /\ v.calls[p] = w.calls[p]
  BY <1>1, <1>3, <1>5, PutLast
<1>11. New(v, d, x)
  <2>1. None <= w.created
    BY <1>1, GroupSessionAssumption DEF ClientType, None
  <2> QED BY <1>1, <1>5, <1>6, <1>9, <2>1 DEF New
<1>12. Current(v, d)
  BY <1>1, <1>5, <1>6, <1>8 DEF Current
<1>13. Kept(v, x)
  BY <1>1, <1>5, <1>6, <1>9 DEF Kept
<1>14. \A s \in Session : InUse(v, s) => InUse(w, s)
  BY <1>5, <1>6, <1>9 DEF InUse
<1>15. \A s \in Session : ToBeStored(w, s) => ToBeStored(v, s)
  BY <1>10 DEF ToBeStored
<1>16. Written(v, d)
  BY <1>1, <1>5, <1>14, <1>15 DEF Written
<1> QED BY <1>1, <1>11, <1>12, <1>13, <1>16 DEF Ahead, v

\* room_send_message_from_queue() keeps the room ahead.
LEMMA SendFromQueueAhead ==
  ASSUME NEW w, NEW d, NEW x, Good(w, d, x), Ahead(w, d, x), Len(w.calls) < MaxDepth,
         NEW file \in BOOLEAN, NEW late \in BOOLEAN
  PROVE  Ahead(SendFromQueue(w, file, late), d, x)
<1>1. /\ w \in ClientType /\ w.room.queue \in Nat /\ Sound(w, d) /\ w.room.checked \in BOOLEAN
  BY DEF Good, Typed, ClientType, Room
<1>2. CASE w.room.queue = 0 \/ w.room.sending # "no"
  BY <1>2 DEF SendFromQueue
<1>3. CASE ~(w.room.queue = 0 \/ w.room.sending # "no") /\ w.enc.key = None /\ ~w.room.checked
  BY <1>3, LookupAhead DEF SendFromQueue
<1>4. CASE ~(w.room.queue = 0 \/ w.room.sending # "no") /\ ~(w.enc.key = None /\ ~w.room.checked)
  <2> DEFINE found == OutSession(w) # None
  <2>1. SendFromQueue(w, file, late) = Proceed(w, found, file, late)
    BY <1>4 DEF SendFromQueue
  <2>2. w.room.checked
    BY <1>1, <1>4 DEF Sound, Lookups
  <2>3. w.room.sending = "no" /\ w.room.queue > 0 /\ found \in BOOLEAN
    BY <1>1, <1>4
  <2> HIDE DEF found
  <2> QED BY <2>1, <2>2, <2>3, ProceedAhead DEF found
<1> QED BY <1>2, <1>3, <1>4

-----------------------------------------------------------------------------
(* The steps.                                                               *)

AheadState == Ahead(Client, db, wire)

\* What a step makes of the client and of the network is the state after it.
LEMMA StepAhead ==
  ASSUME TypeOK, NEW v, Good(v, db, wire'), Becomes(v), wire' \in Wire, v.created = wire'.created
  PROVE  GoodState' /\ (Ahead(v, db, wire') => AheadState')
<1>1. GoodState' /\ Client' = v /\ db'.running = db.running /\ db'.row = db.row
  BY StepGood
<1>2. ASSUME Ahead(v, db, wire')
      PROVE  Ahead(v, db', wire')
  BY <1>1, <1>2, SameAhead
<1>3. ASSUME Ahead(v, db, wire')
      PROVE  Ahead(Client', db', wire')
  BY <1>1, <1>2, <1>3
<1> QED BY <1>1, <1>3 DEF AheadState

\* A step that hands nothing to the network, and may create a session.
LEMMA CreatedStep ==
  ASSUME GoodState, NEW v, Good(v, db, wire), Becomes(v),
         wire' = [wire EXCEPT !.created = v.created]
  PROVE  GoodState' /\ (Ahead(v, db, wire) => AheadState')
<1>1. TypeOK /\ wire \in Wire /\ v.created \in 0..MaxSessions
  BY DEF GoodState, TypeOK, Good, Typed, ClientType
<1>2. /\ wire' \in Wire /\ wire'.created = v.created /\ wire'.given = wire.given
      /\ wire'.shared = wire.shared /\ wire'.last = wire.last
      /\ wire.shared \in [Session -> Index \cup {Nothing}]
      /\ wire.last \in [Session -> Index \cup {Nothing}]
  BY <1>1 DEF Wire
<1>3. Good(v, db, wire')
  BY <1>2, SameGood
<1>4. Ahead(v, db, wire) => Ahead(v, db, wire')
  BY <1>2, SameAhead
<1> QED BY <1>1, <1>2, <1>3, <1>4, StepAhead

\* A step that ends with a look at the queue.
LEMMA GoesOnStep ==
  ASSUME GoodState, NEW w, Good(w, db, wire), Len(w.calls) < MaxDepth, GoesOn(w)
  PROVE  GoodState' /\ (Ahead(w, db, wire) => AheadState')
<1>1. PICK file \in BOOLEAN, late \in BOOLEAN :
        LET v == SendFromQueue(w, file, late)
        IN  Becomes(v) /\ wire' = [wire EXCEPT !.created = v.created]
  BY DEF GoesOn
<1> DEFINE v == SendFromQueue(w, file, late)
<1>2. Good(v, db, wire) /\ (Ahead(w, db, wire) => Ahead(v, db, wire))
  BY SendFromQueueGood, SendFromQueueAhead
<1> HIDE DEF v
<1>3. Becomes(v) /\ wire' = [wire EXCEPT !.created = v.created]
  BY <1>1 DEF v
<1> QED BY <1>2, <1>3, CreatedStep

\* A step that leaves what was shared and sent.
LEMMA PlainStep ==
  ASSUME GoodState, NEW v, Good(v, db, wire), Becomes(v), v.created = wire.created,
         wire' \in Wire, wire'.created = wire.created, wire'.given = wire.given,
         wire'.shared = wire.shared, wire'.last = wire.last
  PROVE  GoodState' /\ (Ahead(v, db, wire) => AheadState')
<1>1. /\ TypeOK /\ wire'.shared \in [Session -> Index \cup {Nothing}]
      /\ wire'.last \in [Session -> Index \cup {Nothing}]
  BY DEF GoodState, Wire
<1>2. Good(v, db, wire')
  BY <1>1, SameGood
<1>3. Ahead(v, db, wire) => Ahead(v, db, wire')
  BY SameAhead
<1> QED BY <1>1, <1>2, <1>3, StepAhead

\* When the main loop runs and the room was looked up, no call looks for it any more.
LEMMA LoopRuns ==
  ASSUME GoodState, Iterates
  PROVE  /\ Len(calls) < MaxDepth /\ Len(Client.calls) < MaxDepth
         /\ room.checked => ~LooksUp(Client)
<1>1. /\ calls \in Seq(Frame) /\ Client.calls = calls /\ Client.room = room
      /\ Lookups(Client, db)
  BY ClientIs DEF GoodState, TypeOK, Good, Sound
<1>2. Len(calls) < MaxDepth
  BY <1>1, GroupSessionAssumption DEF Iterates
<1>3. ASSUME room.checked, LooksUp(Client)
      PROVE  FALSE
  <2>1. \A p \in DOMAIN calls : calls[p].done
    BY <1>1, <1>3 DEF Lookups
  <2>2. calls # <<>>
    BY <1>1, <1>3 DEF LooksUp
  <2>3. Len(calls) \in DOMAIN calls
    BY <1>1, <2>2
  <2> QED BY <2>1, <2>2, <2>3 DEF Iterates, Top
<1> QED BY <1>1, <1>2, <1>3

\* A call that returns finds the state good without it.
LEMMA CallReturns ==
  ASSUME GoodState, NEW call, Returns(call)
  PROVE  /\ Good(Returned(Client), db, wire) /\ CallDone(Client, Returned(Client), Top)
         /\ AheadState => Ahead(Returned(Client), db, wire)
         /\ Top.call = call /\ Top.done
<1>1. /\ Client.calls = calls /\ calls # <<>> /\ calls[Len(calls)].done /\ Top.call = call
      /\ Top = calls[Len(calls)]
  BY ClientIs DEF GoodState, Returns, Top
<1>2. Good(Returned(Client), db, wire) /\ CallDone(Client, Returned(Client), Top)
  BY <1>1, ReturnedGood DEF GoodState
<1>3. AheadState => Ahead(Returned(Client), db, wire)
  BY <1>1, <1>2, ReturnedAhead DEF AheadState
<1> QED BY <1>1, <1>2, <1>3

-----------------------------------------------------------------------------
(* The steps.                                                              *)

\* EncryptReturns: the message that leaves is behind the session that is stored.
LEMMA EncryptReturnsStep ==
  ASSUME GoodState, EncryptReturns
  PROVE  GoodState' /\ (AheadState => AheadState')
<1> DEFINE w == Client
           u == Returned(w)
           r == [u.room EXCEPT !.sending = "sent"]
           v == [u EXCEPT !.room.sending = "sent"]
           s == Top.session
           i == Top.index
<1>1. /\ Good(u, db, wire) /\ CallDone(w, u, Top) /\ (AheadState => Ahead(u, db, wire))
      /\ Top.call = "encrypt" /\ Top.done
  BY CallReturns DEF EncryptReturns
<1>2. /\ TypeOK /\ Sound(w, db) /\ w \in ClientType /\ wire \in Wire /\ Typed(u, db, wire)
      /\ Sound(u, db) /\ Bounded(u, db, wire, ToCome(u)) /\ u \in ClientType
      /\ wire.created = w.created
  BY <1>1, ClientIs DEF GoodState, Good, TypeOK, Typed
<1>3. /\ w.room.sending = "encrypting" /\ s \in Session /\ w.enc.index[s] = i + 1
      /\ \A p \in DOMAIN u.calls : u.calls[p].call # "encrypt"
      /\ i \in Index /\ u.room = w.room /\ u.created = w.created /\ u.enc = w.enc
      /\ w.room.busy # "upload" /\ w.room.checked /\ ~LooksUp(w) /\ w.room.upload = None
  <2>1. Encrypting(w) /\ Uploading(w) /\ Lookups(w, db)
    BY <1>2 DEF Sound
  <2>2. Len(w.calls) \in DOMAIN w.calls /\ w.calls[Len(w.calls)] = Top /\ Top \in Frame
    BY <1>1 DEF CallDone
  <2>3. i \in Index
    BY <2>2 DEF Frame
  <2>4. w.room.sending = "encrypting" /\ s \in Session /\ w.enc.index[s] = i + 1
    BY <1>1, <2>1, <2>2 DEF Encrypting
  <2>5. \A p \in DOMAIN u.calls : u.calls[p].call # "encrypt"
    BY <1>1, <2>1, <2>2 DEF Encrypting, CallDone
  <2>6. w.room.busy # "upload" /\ w.room.checked /\ ~LooksUp(w) /\ w.room.upload = None
    BY <2>1, <2>4 DEF Uploading, Lookups, Quiet
  <2>7. u.room = w.room /\ u.created = w.created /\ u.enc = w.enc
    BY <1>1 DEF CallDone
  <2> QED BY <2>3, <2>4, <2>5, <2>6, <2>7
<1>4. /\ r \in Room /\ r.queue = u.room.queue /\ r.busy = u.room.busy
      /\ r.upload = u.room.upload /\ r.from = u.room.from /\ r.keys = u.room.keys
      /\ r.sending = "sent" /\ r.checked = u.room.checked
  BY <1>2 DEF Room, ClientType
<1>5. v = [u EXCEPT !.room = r]
  OBVIOUS
<1>6. Becomes(v) /\ wire' = [wire EXCEPT !.last[s] = i]
  BY DEF EncryptReturns
<1> HIDE DEF w, u, v, r, s, i
<1>7. /\ v \in ClientType /\ v.room = r /\ v.enc = u.enc /\ v.calls = u.calls
      /\ v.queue = u.queue /\ v.created = u.created
  BY <1>2, <1>4, <1>5, RoomSet
<1>8. Uploading(v)
  BY <1>2, <1>3, <1>4, <1>7 DEF Uploading, Sound
<1>9. ~LooksUp(u)
  BY <1>1, <1>3 DEF LooksUp, CallDone
<1>10. Typed(v, db, wire) /\ Sound(v, db)
  BY <1>2, <1>3, <1>4, <1>7, <1>8, <1>9, RoomChanged
<1>11. ToCome(v) = ToCome(u)
  BY <1>3, <1>4, <1>7 DEF ToCome
<1>12. Good(v, db, wire)
  BY <1>2, <1>7, <1>10, <1>11 DEF Bounded, Good
<1>13. /\ wire' \in Wire /\ wire'.created = wire.created /\ wire'.given = wire.given
       /\ wire'.shared = wire.shared /\ wire'.last = [wire.last EXCEPT ![s] = i]
       /\ wire'.shared \in [Session -> Index \cup {Nothing}]
       /\ wire'.last \in [Session -> Index \cup {Nothing}]
       /\ wire.last \in [Session -> Index \cup {Nothing}]
  BY <1>2, <1>3, <1>6 DEF Wire
<1>14. Good(v, db, wire')
  BY <1>12, <1>13, SameGood
<1>15. ASSUME AheadState
       PROVE  Ahead(v, db, wire')
  <2>1. /\ New(w, db, wire) /\ Current(w, db) /\ Kept(w, wire) /\ Saved(db, wire)
        /\ Written(w, db) /\ Ahead(u, db, wire)
    BY <1>1, <1>15 DEF AheadState, Ahead, w
  <2>2. Ahead(v, db, wire)
    BY <1>2, <1>7, <1>4, <2>1, RoomAhead
  <2>3. s <= w.created /\ Fresh(wire, s, i)
    BY <1>1, <2>1 DEF New, Kept, CallDone, s, i
  <2>4. i \in Nat /\ s \in Nat /\ w.created \in Nat
    BY <1>2, <1>3 DEF Index, Session, ClientType
  <2>5. /\ wire'.last[s] = i /\ \A q \in Session : q # s => wire'.last[q] = wire.last[q]
    BY <1>3, <1>13
  <2>6. \A q \in Session : v.enc.index[q] = w.enc.index[q]
    BY <1>3, <1>7
  <2>7. Fresh(wire', s, w.enc.index[s])
    BY <1>3, <1>13, <2>3, <2>4, <2>5 DEF Fresh, Index
  <2>8. New(v, db, wire')
    <3>1. \A q \in Session : q > v.created => q # s
      BY <1>3, <1>7, <2>3, <2>4 DEF Session
    <3> QED BY <1>13, <2>2, <2>5, <3>1 DEF New, Ahead
  <2>9. Kept(v, wire')
    <3>1. \A q \in Session : q # s => \A j \in Int : Fresh(wire, q, j) => Fresh(wire', q, j)
      BY <1>13, <2>5 DEF Fresh
    <3>2. v.enc.out \subseteq Session /\ \A q \in Session : v.enc.index[q] \in Int
      BY <1>7 DEF ClientType, Enc, Index
    <3>3. \A q \in v.enc.out : Fresh(wire', q, v.enc.index[q])
      BY <2>2, <2>6, <2>7, <3>1, <3>2 DEF Kept, Ahead
    <3>4. \A p \in DOMAIN v.calls : v.calls[p].call \notin {"set", "set_in", "encrypt"}
      BY <1>3, <1>4, <1>7, <1>10 DEF Sound, Uploading
    <3> QED BY <1>3, <1>4, <1>7, <3>3, <3>4 DEF Kept
  <2>10. Saved(db, wire')
    <3>1. ~ToBeStored(w, s)
      BY <1>1, <1>2 DEF ToBeStored, CallDone, Sound, Encrypting
    <3>2. InUse(w, s)
      BY <1>1 DEF InUse, CallDone, s
    <3>3. IsOut(db.row[s]) => db.row[s].index = w.enc.index[s]
      BY <1>3, <2>1, <3>1, <3>2 DEF Written
    <3> QED BY <1>13, <2>1, <2>5, <2>7, <3>3 DEF Saved, Fresh
  <2> QED BY <2>2, <2>8, <2>9, <2>10 DEF Ahead
<1>16. v.created = wire'.created
  BY <1>2, <1>3, <1>7, <1>13
<1> QED BY <1>2, <1>6, <1>13, <1>14, <1>15, <1>16, StepAhead

\* The call that set the session, or its inbound pair, is the only one.
LEMMA SettingIs ==
  ASSUME GoodState, NEW call \in {"set", "set_in"}, Returns(call)
  PROVE  LET u == Returned(Client)
         IN  /\ Good(u, db, wire) /\ CallDone(Client, u, Top) /\ u \in ClientType
             /\ AheadState => Ahead(u, db, wire)
             /\ u.room = room /\ u.enc = enc /\ u.created = wire.created /\ Len(u.calls) < MaxDepth
             /\ Top.session \in Session /\ enc.inbound[Top.session] # Nothing
             /\ room.busy = "upload" /\ room.upload = None /\ room.checked /\ ~LooksUp(u)
             /\ room.sending = "no"
             /\ \A p \in DOMAIN u.calls : u.calls[p].call \notin {"set", "set_in"}
<1> DEFINE u == Returned(Client)
<1>1. /\ Good(u, db, wire) /\ CallDone(Client, u, Top) /\ (AheadState => Ahead(u, db, wire))
      /\ Top.call = call
  BY CallReturns
<1>2. /\ Client.room = room /\ Client.enc = enc /\ Client.created = wire.created
  BY ClientIs DEF GoodState
<1>3. Uploading(Client) /\ Lookups(Client, db)
  BY DEF GoodState, Good, Sound
<1> HIDE DEF u
<1>4. /\ u \in ClientType /\ u.room = room /\ u.enc = enc /\ u.created = wire.created
      /\ Len(u.calls) < MaxDepth
      /\ Len(Client.calls) \in DOMAIN Client.calls /\ Client.calls[Len(Client.calls)] = Top
      /\ \A p \in DOMAIN u.calls : /\ p \in DOMAIN Client.calls /\ p # Len(Client.calls)
                                   /\ u.calls[p] = Client.calls[p]
  BY <1>1, <1>2 DEF CallDone
<1>5. /\ Top.session \in Session /\ enc.inbound[Top.session] # Nothing
      /\ room.busy = "upload" /\ room.upload = None /\ room.sending = "no"
  BY <1>1, <1>2, <1>3, <1>4 DEF Uploading
<1>6. \A p \in DOMAIN u.calls : u.calls[p].call \notin {"set", "set_in"}
  BY <1>1, <1>3, <1>4 DEF Uploading
<1>7. room.checked /\ ~LooksUp(Client)
  BY <1>2, <1>3, <1>5 DEF Lookups, Quiet
<1>8. ~LooksUp(u)
  BY <1>4, <1>7 DEF LooksUp
<1> QED BY <1>1, <1>4, <1>5, <1>6, <1>7, <1>8 DEF u

\* SetReturns: the session is stored, and its inbound pair is to be.
LEMMA SetReturnsStep ==
  ASSUME GoodState, SetReturns
  PROVE  GoodState' /\ (AheadState => AheadState')
<1> DEFINE u == Returned(Client)
           s == Top.session
           i == enc.inbound[s]
           v == Save(Wait(u, "set_in", s, 0), s, "in", i, "usable")
           f == [call |-> "set_in", session |-> s, index |-> 0, done |-> FALSE]
           t == [at |-> Len(u.calls) + 1, kind |-> "in", session |-> s, index |-> i,
                 state |-> "usable"]
<1>1. /\ Good(u, db, wire) /\ u \in ClientType /\ CallDone(Client, u, Top)
      /\ AheadState => Ahead(u, db, wire)
      /\ u.room = room /\ u.enc = enc /\ u.created = wire.created /\ Len(u.calls) < MaxDepth
      /\ s \in Session /\ i # Nothing
      /\ room.busy = "upload" /\ room.upload = None /\ room.checked /\ ~LooksUp(u)
      /\ \A p \in DOMAIN u.calls : u.calls[p].call \notin {"set", "set_in"}
  BY SettingIs DEF SetReturns
<1>2. Becomes(v) /\ UNCHANGED wire
  BY DEF SetReturns
<1>3. i \in Index /\ 0 \in Index /\ "in" \in Kind /\ "usable" \in State
  BY <1>1, GroupSessionAssumption DEF GoodState, TypeOK, Enc, Index, Kind, State
<1>4. WaitsFor(u, v, f, t)
  BY <1>1, <1>3, Waits
<1>5. /\ f.call = "set_in" /\ f.session = s /\ f.index = 0 /\ ~f.done
      /\ t.kind = "in" /\ t.session = s /\ t.index = i
  OBVIOUS
<1> HIDE DEF u, v, f, t, i, s
<1>6. Matches(t, f)
  BY <1>1, <1>5 DEF Matches
<1>7. 0 + ToCome(u) <= wire.given /\ i + ToCome(u) <= wire.given
  BY <1>1 DEF Good, Bounded, i
<1>8. Good(v, db, wire)
  BY <1>1, <1>4, <1>5, <1>6, <1>7, WaitsGood DEF i
<1>9. AheadState => Ahead(v, db, wire)
  <2>1. AheadState => s <= u.created
    <3>1. AheadState => New(Client, db, wire)
      BY DEF AheadState, Ahead
    <3>2. Client.created = u.created
      BY <1>1 DEF CallDone
    <3> QED BY <1>1, <3>1, <3>2 DEF New, CallDone, s
  <2> QED BY <1>1, <1>4, <1>5, <1>6, <2>1, WaitsAhead
<1>10. v.created = wire.created
  BY <1>1, <1>4 DEF WaitsFor
<1>11. wire' \in Wire
  BY <1>2 DEF GoodState, TypeOK
<1> QED BY <1>2, <1>8, <1>9, <1>10, <1>11, PlainStep

\* The keys of the room are sent, and its session, if any, is the one that was uploaded.
LEMMA KeysSetGood ==
  ASSUME NEW u, NEW d, NEW x, Good(u, d, x), u.room.checked, ~LooksUp(u),
         \A p \in DOMAIN u.calls : u.calls[p].call \notin {"set", "set_in"}
  PROVE  /\ Good(KeysSet(u), d, x) /\ (Ahead(u, d, x) => Ahead(KeysSet(u), d, x))
         /\ KeysSet(u).calls = u.calls /\ KeysSet(u).created = u.created
<1> DEFINE r == [u.room EXCEPT !.upload = None, !.from = 0, !.busy = "no", !.keys = FALSE]
           v == KeysSet(u)
<1>1. u \in ClientType /\ Typed(u, d, x) /\ Sound(u, d) /\ Bounded(u, d, x, ToCome(u))
  BY DEF Good, Typed
<1>2. /\ r \in Room /\ r.queue = u.room.queue /\ r.busy = "no"
      /\ r.upload = None /\ r.from = 0 /\ r.keys = FALSE
      /\ r.sending = u.room.sending /\ r.checked = u.room.checked
  <2>1. u.room \in Room /\ 0 \in Index
    BY <1>1, GroupSessionAssumption DEF ClientType, Index
  <2> QED BY <2>1 DEF Room
<1>3. v = [u EXCEPT !.room = r]
  BY <1>1 DEF KeysSet, NoUpload, ClientType
<1> HIDE DEF v, r
<1>4. /\ v \in ClientType /\ v.room = r /\ v.enc = u.enc /\ v.calls = u.calls
      /\ v.queue = u.queue /\ v.created = u.created
  BY <1>1, <1>2, <1>3, RoomSet
<1>5. Uploading(v)
  BY <1>1, <1>2, <1>4 DEF Uploading
<1>6. Typed(v, d, x) /\ Sound(v, d)
  BY <1>1, <1>2, <1>4, <1>5, RoomChanged
<1>7. ToCome(v) = ToCome(u)
  BY <1>2, <1>4 DEF ToCome
<1>8. Good(v, d, x)
  BY <1>1, <1>4, <1>6, <1>7 DEF Bounded, Good
<1>9. Ahead(u, d, x) => Ahead(v, d, x)
  BY <1>1, <1>2, <1>4, RoomAhead
<1> QED BY <1>4, <1>8, <1>9 DEF v

\* SetInReturns: the room has the session whose key was uploaded.
LEMMA SetInReturnsStep ==
  ASSUME GoodState, SetInReturns
  PROVE  GoodState' /\ (AheadState => AheadState')
<1> DEFINE u == Returned(Client)
           v == KeysSet(u)
<1>1. /\ Good(u, db, wire) /\ (AheadState => Ahead(u, db, wire))
      /\ u.room = room /\ Len(u.calls) < MaxDepth /\ room.checked /\ ~LooksUp(u)
      /\ \A p \in DOMAIN u.calls : u.calls[p].call \notin {"set", "set_in"}
  BY SettingIs DEF SetInReturns
<1> HIDE DEF u
<1>2. /\ Good(v, db, wire) /\ (Ahead(u, db, wire) => Ahead(v, db, wire))
      /\ v.calls = u.calls
  BY <1>1, KeysSetGood
<1>3. GoesOn(v)
  BY DEF SetInReturns, u
<1> HIDE DEF v
<1> QED BY <1>1, <1>2, <1>3, GoesOnStep

\* A room without a session needs its keys again, and stays ahead.
LEMMA RemovedGood ==
  ASSUME NEW u, NEW d, NEW x, Good(u, d, x), ~u.room.checked => u.enc.key = None
  PROVE  /\ Good(Removed(u), d, x) /\ (Ahead(u, d, x) => Ahead(Removed(u), d, x))
         /\ Removed(u).created = u.created
<1> DEFINE r == [u.room EXCEPT !.claimed = FALSE]
           e == [u.enc EXCEPT !.key = None]
           v == Removed(u)
<1>1. /\ u \in ClientType /\ Typed(u, d, x) /\ Sound(u, d) /\ Bounded(u, d, x, ToCome(u))
      /\ Len(u.calls) <= MaxDepth
  BY DEF Good, Typed
<1>2. /\ r \in Room /\ r.queue = u.room.queue /\ r.busy = u.room.busy
      /\ r.upload = u.room.upload /\ r.from = u.room.from /\ r.keys = u.room.keys
      /\ r.sending = u.room.sending /\ r.checked = u.room.checked /\ ~r.claimed
  BY <1>1 DEF ClientType, Room
<1>3. /\ e \in Enc /\ e.index = u.enc.index /\ e.out = u.enc.out /\ e.inbound = u.enc.inbound
      /\ e.key = None
  BY <1>1 DEF ClientType, Enc
<1>4. v = [u EXCEPT !.room = r, !.enc = e]
  BY <1>1 DEF Removed, ClientType
<1> HIDE DEF v, r, e
<1>5. /\ v \in ClientType /\ v.room = r /\ v.enc = e /\ v.calls = u.calls
      /\ v.queue = u.queue /\ v.created = u.created
  BY <1>1, <1>2, <1>3, <1>4 DEF ClientType
<1>6. Encrypting(v)
  BY <1>1, <1>2, <1>3, <1>5 DEF Encrypting, Sound
<1>7. Uploading(v)
  BY <1>1, <1>2, <1>3, <1>5 DEF Uploading, Sound
<1>8. Lookups(v, d)
  BY SMTT(20), <1>1, <1>2, <1>3, <1>5 DEF Lookups, Sound, Quiet, LooksUp
<1>9. Typed(v, d, x)
  BY <1>1, <1>5 DEF Typed
<1>10. ToCome(v) = ToCome(u)
  BY <1>2, <1>5 DEF ToCome
<1>11. Bounded(v, d, x, ToCome(v))
  BY <1>1, <1>3, <1>5, <1>10 DEF Bounded
<1>12. Good(v, d, x)
  BY <1>1, <1>5, <1>6, <1>7, <1>8, <1>9, <1>11 DEF Good, Sound
<1>13. Ahead(u, d, x) => Ahead(v, d, x)
  BY <1>1, <1>2, <1>3, <1>5, RoomAhead
<1> QED BY <1>5, <1>12, <1>13 DEF v

\* RmReturns: the room has lost its session.
LEMMA RmReturnsStep ==
  ASSUME GoodState, RmReturns
  PROVE  GoodState' /\ (AheadState => AheadState')
<1> DEFINE u == Returned(Client)
           v == Removed(u)
<1>1. /\ Good(u, db, wire) /\ (AheadState => Ahead(u, db, wire)) /\ CallDone(Client, u, Top)
  BY CallReturns DEF RmReturns
<1>2. /\ Good(v, db, wire) /\ (Ahead(u, db, wire) => Ahead(v, db, wire))
      /\ v.created = u.created
  <2>1. ~u.room.checked => u.enc.key = None
    BY <1>1 DEF Good, Sound, Lookups
  <2> HIDE DEF u
  <2> QED BY <1>1, <2>1, RemovedGood
<1>3. Becomes(v) /\ UNCHANGED wire
  BY DEF RmReturns
<1> HIDE DEF u, v
<1>4. v.created = wire.created /\ wire' \in Wire
  BY <1>1, <1>2, <1>3, ClientIs DEF CallDone, GoodState, TypeOK
<1> QED BY <1>1, <1>2, <1>3, <1>4, PlainStep

\* What cm_enc_has_room_group_key() makes of the sessions, as one change of enc.
Known(v, s, i) ==
  [v EXCEPT !.enc.key = s, !.enc.out = @ \cup {s}, !.enc.index[s] = i,
            !.enc.state[s] = "usable", !.enc.old = @ \cup {s}, !.enc.inbound[s] = i]

KnownEnc(v, s, i) ==
  [v.enc EXCEPT !.key = s, !.out = @ \cup {s}, !.index[s] = i,
                !.state[s] = "usable", !.old = @ \cup {s}, !.inbound[s] = i]

\* What LookupReturns makes of a session it found, field by field.
LEMMA KnownIs ==
  ASSUME NEW v \in ClientType, NEW s, NEW i
  PROVE  Known(v, s, i) = [v EXCEPT !.enc = KnownEnc(v, s, i)]
<1> DEFINE out == v.enc.out \cup {s}
           old == v.enc.old \cup {s}
           e1 == [v.enc EXCEPT !.key = s]
           v1 == [v EXCEPT !.enc.key = s]
           e2 == [e1 EXCEPT !.out = out]
           v2 == [v1 EXCEPT !.enc.out = out]
           e3 == [e2 EXCEPT !.index[s] = i]
           v3 == [v2 EXCEPT !.enc.index[s] = i]
           e4 == [e3 EXCEPT !.state[s] = "usable"]
           v4 == [v3 EXCEPT !.enc.state[s] = "usable"]
           e5 == [e4 EXCEPT !.old = old]
           v5 == [v4 EXCEPT !.enc.old = old]
           e6 == [e5 EXCEPT !.inbound[s] = i]
           v6 == [v5 EXCEPT !.enc.inbound[s] = i]
<1> HIDE DEF out, old
<1>1. v1 = [v EXCEPT !.enc = e1]
  BY DEF ClientType
<1> HIDE DEF e1, v1
<1>2. v2 = [v EXCEPT !.enc = e2]
  BY <1>1 DEF ClientType
<1> HIDE DEF e2, v2
<1>3. v3 = [v EXCEPT !.enc = e3]
  BY <1>2 DEF ClientType
<1> HIDE DEF e3, v3
<1>4. v4 = [v EXCEPT !.enc = e4]
  BY <1>3 DEF ClientType
<1> HIDE DEF e4, v4
<1>5. v5 = [v EXCEPT !.enc = e5]
  BY <1>4 DEF ClientType
<1> HIDE DEF e5, v5
<1>6. v6 = [v EXCEPT !.enc = e6]
  BY <1>5 DEF ClientType
<1> HIDE DEF e6, v6
<1> QED BY <1>6 DEF e1, e2, e3, e4, e5, e6, v1, v2, v3, v4, v5, v6, out, old,
                 Known, KnownEnc

\* LookupReturns: the session the row was taken from is ahead, as the row is.
LEMMA LookupReturnsStep ==
  ASSUME GoodState, LookupReturns
  PROVE  GoodState' /\ (AheadState => AheadState')
<1> DEFINE w == Client
           u == Returned(w)
           s == Top.session
           i == Top.index
           v == [u EXCEPT !.room.checked = TRUE]
           known == [v EXCEPT !.enc.key = s, !.enc.out = @ \cup {s}, !.enc.index[s] = i,
                              !.enc.state[s] = "usable", !.enc.old = @ \cup {s},
                              !.enc.inbound[s] = i]
           z == IF s = None THEN v ELSE known
<1>1. /\ Good(u, db, wire) /\ (AheadState => Ahead(u, db, wire)) /\ CallDone(w, u, Top)
      /\ Top.call = "lookup" /\ Top.done
  BY CallReturns DEF LookupReturns
<1>2. PICK file \in BOOLEAN, late \in BOOLEAN :
        /\ Becomes(Proceed(z, s # None, file, late))
        /\ wire' = [wire EXCEPT !.created = Proceed(z, s # None, file, late).created]
  BY DEF LookupReturns
<1>3. /\ u \in ClientType /\ Typed(u, db, wire) /\ Sound(u, db) /\ Bounded(u, db, wire, ToCome(u))
      /\ Lookups(w, db) /\ wire.given \in Nat
  BY <1>1, GroupSessionAssumption DEF GoodState, Good, Typed, Sound
<1>4. /\ u.room = w.room /\ u.enc = w.enc /\ Top \in Frame
      /\ u.created = w.created /\ u.queue = w.queue
      /\ Len(u.calls) < MaxDepth
      /\ Len(w.calls) \in DOMAIN w.calls /\ w.calls[Len(w.calls)] = Top
      /\ DOMAIN w.calls = 1 .. Len(w.calls) /\ Len(w.calls) \in Nat
      /\ \A p \in DOMAIN u.calls : p \in DOMAIN w.calls /\ u.calls[p] = w.calls[p]
                                  /\ p # Len(w.calls)
  BY <1>1 DEF CallDone
<1>5. Quiet(w) /\ \A p \in DOMAIN w.calls : w.calls[p].call = "lookup" /\ w.calls[p].done
  <2>1. LooksUp(w)
    BY <1>1, <1>4 DEF LooksUp
  <2>2. Quiet(w) /\ \A p \in DOMAIN w.calls :
          w.calls[p].call = "lookup" /\ (w.room.checked => w.calls[p].done)
    BY <1>3, <2>1 DEF Lookups
  <2>3. ASSUME ~w.room.checked
        PROVE  \A p \in DOMAIN w.calls : w.calls[p].done
    BY <1>1, <1>3, <1>4, <2>3 DEF Lookups, InOrder
  <2>4. w.room.checked \in BOOLEAN
    BY <1>3, <1>4 DEF ClientType, Room
  <2> QED BY <2>2, <2>3, <2>4
<1>6. Quiet(u) /\ \A p \in DOMAIN u.calls : u.calls[p].call = "lookup" /\ u.calls[p].done
  BY <1>4, <1>5 DEF Quiet
<1> DEFINE r == [u.room EXCEPT !.checked = TRUE]
<1>7. /\ r \in Room /\ r.queue = u.room.queue /\ r.sending = "no" /\ r.busy = u.room.busy
      /\ r.upload = None /\ r.keys = u.room.keys /\ ~r.claimed /\ r.checked /\ r.busy # "upload"
  BY <1>3, <1>6 DEF ClientType, Room, Quiet
<1>8. v = [u EXCEPT !.room = r]
  OBVIOUS
<1> HIDE DEF w, u, r, v
<1>9. /\ v \in ClientType /\ v.room = r /\ v.enc = u.enc /\ v.calls = u.calls
      /\ v.queue = u.queue /\ v.created = u.created
  BY <1>3, <1>7, <1>8, RoomSet
<1>10. s \in Session \cup {None} /\ i \in Index
  BY <1>4 DEF Frame
<1> DEFINE e == [v.enc EXCEPT !.key = s, !.out = @ \cup {s}, !.index[s] = i,
                              !.state[s] = "usable", !.old = @ \cup {s}, !.inbound[s] = i]
<1>11. s # None =>
         /\ s \in Session /\ e \in Enc /\ e.key = s /\ e.out = u.enc.out \cup {s} /\ e.index[s] = i
         /\ e.inbound[s] = i
         /\ \A q \in Session : q # s => /\ e.index[q] = u.enc.index[q]
                                        /\ e.inbound[q] = u.enc.inbound[q]
  <2>1. v.enc \in Enc /\ v.enc = u.enc
    BY <1>9 DEF ClientType
  <2> QED BY <1>10, <2>1 DEF Enc, State
<1>12. known = [v EXCEPT !.enc = e]
  <2>1. v \in ClientType
    BY <1>9
  <2>2. known = Known(v, s, i) /\ e = KnownEnc(v, s, i)
    BY DEF Known, KnownEnc
  <2> HIDE DEF s, i, known, e
  <2> QED BY <2>1, <2>2, KnownIs
<1> HIDE DEF e, known
<1>13. /\ z \in ClientType /\ z.room = r /\ z.calls = u.calls /\ z.queue = u.queue
       /\ z.created = u.created
       /\ \/ s = None /\ z.enc = u.enc
          \/ s # None /\ z.enc = e
  BY <1>9, <1>11, <1>12 DEF ClientType
<1> HIDE DEF z, s, i
<1>14. Good(z, db, wire)
  <2>1. Typed(z, db, wire)
    BY <1>3, <1>13 DEF Typed
  <2>2. Encrypting(z)
    BY <1>6, <1>13 DEF Encrypting
  <2>3. Uploading(z)
    BY <1>6, <1>7, <1>13 DEF Uploading
  <2>4. Quiet(z) /\ z.room.checked
    BY <1>7, <1>13 DEF Quiet
  <2>5. Lookups(z, db)
    BY SMTT(20), <1>3, <1>6, <1>13, <2>4 DEF Lookups, Sound
  <2>6. ToCome(z) = ToCome(u)
    BY <1>6, <1>7, <1>13 DEF ToCome, Quiet
  <2>7. i + ToCome(u) <= wire.given
    <3>1. i + ToCome(w) <= wire.given
      BY <1>4 DEF GoodState, Good, Bounded, w, i
    <3> QED BY <1>4, <3>1 DEF ToCome
  <2>8. Bounded(z, db, wire, ToCome(z))
    <3>1. CASE s = None
      BY <1>3, <1>13, <2>6, <3>1 DEF Bounded
    <3>2. CASE s # None
      <4>1. \A q \in Session : z.enc.index[q] + ToCome(u) <= wire.given
                            /\ z.enc.inbound[q] + ToCome(u) <= wire.given
        BY <1>3, <1>11, <1>13, <2>7, <3>2 DEF Bounded
      <4> QED BY <1>3, <1>13, <2>6, <4>1 DEF Bounded
    <3> QED BY <3>1, <3>2
  <2> QED BY <1>3, <1>13, <2>1, <2>2, <2>3, <2>5, <2>8 DEF Good, Sound
<1>15. ASSUME AheadState
       PROVE  Ahead(z, db, wire)
  <2>1. /\ Ahead(u, db, wire) /\ New(w, db, wire) /\ New(u, db, wire) /\ Current(u, db)
        /\ Kept(u, wire) /\ Saved(db, wire) /\ Written(u, db)
    BY <1>1, <1>15 DEF AheadState, Ahead, w
  <2>2. CASE s = None
    BY <1>3, <1>7, <1>13, <2>1, <2>2, RoomAhead
  <2>3. CASE s # None
    <3>1. s <= u.created /\ IsOut(db.row[s]) /\ i = db.row[s].index
      BY <1>1, <1>3, <1>4, <2>1, <2>3 DEF New, Lookups, IsOut, s, i
    <3>2. Fresh(wire, s, i)
      BY <1>11, <2>1, <2>3, <3>1 DEF Saved
    <3>3. u.created \in Nat /\ s \in Nat
      BY <1>3, <1>11, <2>3 DEF ClientType, Session
    <3>4. New(z, db, wire)
      <4>1. \A q \in Session : q > u.created => q # s
        BY <3>1, <3>3 DEF Session
      <4>2. \A q \in Session : q > z.created => z.enc.index[q] = 0
        BY <1>11, <1>13, <2>1, <2>3, <4>1 DEF New
      <4>3. z.room.upload = None /\ None <= z.created
        BY <1>7, <1>13, <3>3 DEF None
      <4> QED BY <1>11, <1>13, <2>1, <2>3, <3>1, <4>2, <4>3 DEF New
    <3>5. Current(z, db)
      <4>1. \A t \in TasksOf(z.queue, db.running) : t.kind # "out"
        BY <1>3, <1>6, <1>13 DEF Sound, Tasks, Matches
      <4> QED BY <4>1 DEF Current
    <3>6. u.enc.out \subseteq Session
      BY <1>3 DEF ClientType, Enc
    <3>7. Kept(z, wire)
      BY <1>6, <1>7, <1>11, <1>13, <2>1, <2>3, <3>2, <3>6 DEF Kept
    <3>8. Written(z, db)
      <4>1. \A q \in Session : InUse(z, q) => q = s \/ q \in u.enc.out
        BY <1>6, <1>7, <1>11, <1>13, <2>3 DEF InUse, Session, None
      <4>2. \A q \in Session : ~ToBeStored(u, q)
        BY <1>6 DEF ToBeStored
      <4> QED BY <1>11, <1>13, <2>1, <2>3, <3>1, <4>1, <4>2 DEF Written, InUse
    <3> QED BY <2>1, <3>4, <3>5, <3>7, <3>8 DEF Ahead
  <2> QED BY <2>2, <2>3
<1> DEFINE found == s # None
           next == Proceed(z, found, file, late)
<1>16. found \in BOOLEAN /\ (found => OutSession(z) # None)
  BY <1>11, <1>13 DEF OutSession
<1>17. z.room.checked /\ z.room.sending = "no" /\ ~z.room.claimed /\ Len(z.calls) < MaxDepth
  BY <1>4, <1>7, <1>13
<1>18. Becomes(next) /\ wire' = [wire EXCEPT !.created = next.created]
  BY <1>2
<1> HIDE DEF found
<1>19. Good(next, db, wire) /\ (Ahead(z, db, wire) => Ahead(next, db, wire))
  BY <1>14, <1>16, <1>17, ProceedGood, ProceedAhead
<1> HIDE DEF next
<1> QED BY <1>15, <1>18, <1>19, CreatedStep

-----------------------------------------------------------------------------
(* The worker.                                                             *)

\* WorkerTakes: the first task of the queue is run.
LEMMA WorkerTakesStep ==
  ASSUME GoodState, WorkerTakes
  PROVE  GoodState' /\ (AheadState => AheadState')
<1> DEFINE w == Client
           v == Client'
<1>1. /\ w \in ClientType /\ Typed(w, db, wire) /\ Sound(w, db)
      /\ Bounded(w, db, wire, ToCome(w)) /\ TypeOK
      /\ w.queue = db.queue /\ w.calls = calls /\ w.room = room /\ w.enc = enc
      /\ w.created = wire.created
  BY ClientIs DEF GoodState, Good
<1>2. /\ db.queue # <<>> /\ db.running = <<>> /\ db.queue \in Seq(Task)
      /\ calls \in Seq(Frame)
      /\ db' = [db EXCEPT !.queue = Tail(@), !.running = <<Head(db.queue)>>]
      /\ UNCHANGED <<room, enc, calls, wire>>
  BY <1>1 DEF WorkerTakes, TypeOK, Db
<1>3. Tail(db.queue) \in Seq(Task) /\ Head(db.queue) \in Task
  BY <1>2, TakeFirst
<1>4. /\ db'.queue = Tail(db.queue) /\ db'.running = <<Head(db.queue)>> /\ db'.row = db.row
      /\ db' \in Db
  <2>1. <<Head(db.queue)>> \in Seq(Task) /\ db \in Db
    BY <1>1, <1>3 DEF TypeOK
  <2> QED BY <1>2, <1>3, <2>1 DEF Db
<1>5. TypeOK'
  BY <1>1, <1>2, <1>4 DEF TypeOK
<1>6. /\ v.room = w.room /\ v.enc = w.enc /\ v.calls = w.calls /\ v.queue = Tail(w.queue)
      /\ v.created = w.created /\ v \in ClientType
  BY <1>1, <1>2, <1>3, <1>4 DEF Client, ClientType
<1> HIDE DEF w, v
<1>7. /\ Tasks(v.calls, v.queue, db'.running)
      /\ InOrder(w.calls, w.queue, db.running) => InOrder(v.calls, v.queue, db'.running)
      /\ TasksOf(v.queue, db'.running) = TasksOf(w.queue, db.running)
  <2>1. Tasks(calls, db.queue, <<>>)
    BY <1>1, <1>2 DEF Sound
  <2>2. /\ Tasks(calls, Tail(db.queue), <<Head(db.queue)>>)
        /\ InOrder(calls, db.queue, <<>>) => InOrder(calls, Tail(db.queue), <<Head(db.queue)>>)
        /\ TasksOf(Tail(db.queue), <<Head(db.queue)>>) = TasksOf(db.queue, <<>>)
    BY <1>2, <2>1, TaskTaken
  <2> QED BY <1>1, <1>2, <1>4, <1>6, <2>2
<1>8. Typed(v, db', wire')
  <2>1. <<Head(db.queue)>> \in Seq(Task) /\ Len(<<Head(db.queue)>>) <= 1
    BY <1>3
  <2> QED BY <1>1, <1>2, <1>4, <1>6, <2>1 DEF Typed
<1>9. Bounded(v, db', wire', ToCome(v))
  BY <1>1, <1>2, <1>4, <1>6, <1>7 DEF Bounded, ToCome
<1>10. Encrypting(v) /\ Uploading(v)
  BY <1>1, <1>6 DEF Encrypting, Uploading, Sound
<1>11. Lookups(v, db')
  BY <1>1, <1>4, <1>6, <1>7 DEF Lookups, Sound, LooksUp, Quiet
<1>12. GoodState'
  BY <1>5, <1>7, <1>8, <1>9, <1>10, <1>11 DEF GoodState, Good, Sound, v
<1>13. ASSUME AheadState
       PROVE  AheadState'
  <2>1. /\ New(w, db, wire) /\ Current(w, db) /\ Kept(w, wire) /\ Saved(db, wire)
        /\ Written(w, db)
    BY <1>13 DEF AheadState, Ahead, w
  <2>2. New(v, db', wire')
    BY <1>2, <1>4, <1>6, <2>1 DEF New
  <2>3. Current(v, db')
    BY <1>6, <1>7, <2>1 DEF Current
  <2>4. Kept(v, wire') /\ Saved(db', wire')
    BY <1>2, <1>4, <1>6, <2>1 DEF Kept, Saved
  <2>5. Written(v, db')
    BY <1>4, <1>6, <2>1 DEF Written, InUse, ToBeStored
  <2> QED BY <2>2, <2>3, <2>4, <2>5 DEF AheadState, Ahead, v
<1> QED BY <1>12, <1>13

\* The innermost call's task, t, was run; g is the call now, and row what the table is.
TaskDone(t, g, row) ==
  /\ t \in ToSet(db.running) /\ g \in Frame /\ g.done /\ row \in [Session -> Row]
  /\ calls' = [calls EXCEPT ![t.at] = g]
  /\ db' = [db EXCEPT !.running = <<>>, !.row = row]
  /\ UNCHANGED <<room, enc, wire>>

\* What is left of the invariant then.
LEMMA TaskDoneIs ==
  ASSUME GoodState, NEW t, NEW g, NEW row, TaskDone(t, g, row)
  PROVE  /\ TypeOK' /\ Typed(Client, db, wire)' /\ t.at \in DOMAIN calls /\ t \in Task
         /\ Client'.room = room /\ Client'.enc = enc /\ Client'.calls = calls'
         /\ Client'.queue = db.queue /\ Client'.created = wire.created
         /\ db'.running = <<>> /\ db'.row = row
         /\ DOMAIN calls' = DOMAIN calls /\ calls'[t.at] = g /\ Matches(t, calls[t.at])
         /\ \A p \in DOMAIN calls : p # t.at => calls'[p] = calls[p]
         /\ Tasks(calls', db.queue, <<>>)
         /\ TasksOf(db.queue, <<>>) \subseteq TasksOf(db.queue, db.running)
         /\ InOrder(calls, db.queue, db.running) => InOrder(calls', db.queue, <<>>)
<1>1. /\ TypeOK /\ Client.queue = db.queue /\ Client.calls = calls /\ Client.room = room
      /\ Tasks(calls, db.queue, db.running) /\ Client.enc = enc /\ Client.created = wire.created
      /\ db.queue \in Seq(Task) /\ db.running \in Seq(Task) /\ calls \in Seq(Frame)
      /\ Len(db.running) <= 1 /\ Client \in ClientType
  BY ClientIs DEF GoodState, Good, Sound, TypeOK, Typed, ClientType, Db
<1>2. t \in Task
  BY <1>1 DEF TaskDone, ToSet
<1>3. /\ calls' \in Seq(Frame) /\ Len(calls') = Len(calls) /\ DOMAIN calls' = DOMAIN calls
      /\ t.at \in DOMAIN calls /\ calls'[t.at] = g
      /\ \A p \in DOMAIN calls : p # t.at => calls'[p] = calls[p]
      /\ Tasks(calls', db.queue, <<>>)
      /\ TasksOf(db.queue, <<>>) \subseteq TasksOf(db.queue, db.running)
      /\ InOrder(calls, db.queue, db.running) => InOrder(calls', db.queue, <<>>)
  <2>1. /\ t \in ToSet(db.running) /\ g \in Frame /\ g.done
        /\ calls' = [calls EXCEPT ![t.at] = g]
    BY DEF TaskDone
  <2> DEFINE c == [calls EXCEPT ![t.at] = g]
  <2>2. c = [calls EXCEPT ![t.at] = g]
    OBVIOUS
  <2> HIDE DEF c
  <2>3. Run(calls, db.queue, db.running, t, g, c)
    BY <1>1, <2>1, <2>2, TaskRun
  <2> QED BY <2>1, <2>2, <2>3 DEF Run
<1>4. Matches(t, calls[t.at])
  BY <1>1 DEF Tasks, TasksOf, TaskDone
<1>5. /\ db'.queue = db.queue /\ db'.running = <<>> /\ db'.row = row /\ db' \in Db
      /\ row \in [Session -> Row]
  <2>1. <<>> \in Seq(Task) /\ db \in Db
    BY <1>1 DEF TypeOK
  <2>2. row \in [Session -> Row] /\ db' = [db EXCEPT !.running = <<>>, !.row = row]
    BY DEF TaskDone
  <2> QED BY <2>1, <2>2 DEF Db, Row
<1>6. TypeOK'
  BY <1>1, <1>3, <1>5 DEF TypeOK, TaskDone
<1>7. /\ Client'.room = room /\ Client'.enc = enc /\ Client'.calls = calls'
      /\ Client'.queue = db.queue /\ Client'.created = wire.created /\ Client' \in ClientType
  BY <1>1, <1>3, <1>5 DEF Client, ClientType, TaskDone
<1>8. Typed(Client', db', wire')
  <2>1. <<>> \in Seq(Task) /\ Len(<<>>) <= 1 /\ wire' = wire /\ wire \in Wire
        /\ Len(calls) <= MaxDepth
    BY <1>1 DEF TaskDone, TypeOK
  <2> QED BY <1>3, <1>5, <1>7, <2>1 DEF Typed, Wire
<1> QED BY <1>2, <1>3, <1>4, <1>5, <1>6, <1>7, <1>8

\* WorkerStores: what is stored as usable is the session as it is now.
LEMMA WorkerStoresStep ==
  ASSUME GoodState, WorkerStores
  PROVE  GoodState' /\ ("save" \notin Fails /\ AheadState => AheadState')
<1>1. PICK t \in ToSet(db.running) :
        /\ t.kind \in Kind
        /\ calls' = [calls EXCEPT ![t.at].done = TRUE]
        /\ \/ db' = [db EXCEPT !.running = <<>>, !.row[t.session] = Stored(@, t)]
           \/ MayFail("save") /\ db' = [db EXCEPT !.running = <<>>]
        /\ UNCHANGED <<room, enc, wire>>
  BY DEF WorkerStores
<1> DEFINE w == Client
           v == Client'
           s == t.session
           f == calls[t.at]
           g == [f EXCEPT !.done = TRUE]
           stored == [db.row EXCEPT ![s] = Stored(db.row[s], t)]
<1>2. /\ w \in ClientType /\ Typed(w, db, wire) /\ Sound(w, db) /\ Bounded(w, db, wire, ToCome(w))
      /\ db \in Db /\ db.running \in Seq(Task) /\ calls \in Seq(Frame)
      /\ w.queue = db.queue /\ w.calls = calls /\ w.room = room /\ w.enc = enc
      /\ w.created = wire.created
  BY ClientIs DEF GoodState, Good, Typed, TypeOK
<1>3. t \in Task /\ t \in TasksOf(w.queue, db.running)
  BY <1>2 DEF ToSet, TasksOf
<1>4. t.at \in DOMAIN calls /\ Matches(t, f) /\ f \in Frame
  BY <1>2, <1>3 DEF Sound, Tasks
<1>5. s \in Session /\ s = f.session /\ ~f.done /\ f.call # "lookup"
  <2>1. t.kind # "lookup"
    BY <1>1 DEF Kind
  <2> QED BY <1>4, <2>1 DEF Matches
<1>6. g \in Frame /\ g.done /\ g.call = f.call /\ g.session = f.session /\ g.index = f.index
  BY <1>4 DEF Frame
<1>7. /\ db.row \in [Session -> Row] /\ Stored(db.row[s], t) \in Row /\ stored \in [Session -> Row]
      /\ stored[s].pickle = t.kind /\ stored[s].index = t.index /\ stored[s].state = t.state
      /\ \A q \in Session : q # s => stored[q] = db.row[q]
  BY <1>1, <1>2, <1>3, <1>5 DEF Db, Row, Stored, Task
<1>8. \E row \in {db.row, stored} :
        TaskDone(t, g, row) /\ ("save" \notin Fails => row = stored)
  <2>1. calls' = [calls EXCEPT ![t.at] = g]
    BY <1>1
  <2>2. CASE db' = [db EXCEPT !.running = <<>>, !.row[t.session] = Stored(@, t)]
    <3>1. db' = [db EXCEPT !.running = <<>>, !.row = stored]
      BY <1>2, <2>2 DEF Db
    <3> HIDE DEF g, stored
    <3> QED BY <1>1, <1>6, <1>7, <2>1, <3>1 DEF TaskDone
  <2>3. CASE MayFail("save") /\ db' = [db EXCEPT !.running = <<>>]
    <3>1. db' = [db EXCEPT !.running = <<>>, !.row = db.row]
      BY <1>2, <2>3 DEF Db
    <3> HIDE DEF g, stored
    <3> QED BY <1>1, <1>6, <1>7, <2>1, <2>3, <3>1 DEF TaskDone, MayFail
  <2> QED BY <1>1, <2>2, <2>3
<1>9. PICK row \in {db.row, stored} :
        TaskDone(t, g, row) /\ ("save" \notin Fails => row = stored)
  BY <1>8
<1> HIDE DEF w, v, s, f, g, stored
<1>10. /\ TypeOK' /\ Typed(v, db', wire')
       /\ v.room = w.room /\ v.enc = w.enc /\ v.calls = calls' /\ v.queue = w.queue
       /\ v.created = w.created /\ db'.running = <<>> /\ db'.row = row
       /\ DOMAIN calls' = DOMAIN calls /\ calls'[t.at] = g
       /\ \A p \in DOMAIN calls : p # t.at => calls'[p] = calls[p]
       /\ Tasks(calls', w.queue, <<>>)
       /\ TasksOf(w.queue, <<>>) \subseteq TasksOf(w.queue, db.running)
       /\ InOrder(calls, w.queue, db.running) => InOrder(calls', w.queue, <<>>)
  BY <1>2, <1>9, TaskDoneIs DEF v, w
<1>11. wire' = wire
  BY <1>1
<1>12. /\ DOMAIN v.calls = DOMAIN w.calls
       /\ \A p \in DOMAIN w.calls :
            /\ v.calls[p].call = w.calls[p].call /\ v.calls[p].session = w.calls[p].session
            /\ v.calls[p].index = w.calls[p].index
            /\ w.calls[p].done => v.calls[p].done
            /\ ~v.calls[p].done <=> ~w.calls[p].done /\ p # t.at
  BY <1>2, <1>4, <1>5, <1>6, <1>10 DEF f
<1>13. Bounded(v, db', wire', ToCome(v))
  <2>1. t.index + ToCome(w) <= wire.given
    BY <1>2, <1>3 DEF Bounded
  <2>2. ToCome(v) = ToCome(w)
    BY <1>10 DEF ToCome
  <2>3. \A q \in Session : row[q].index = t.index \/ row[q].index = db.row[q].index
    BY <1>7, <1>9
  <2> QED BY <1>2, <1>10, <1>11, <1>12, <2>1, <2>2, <2>3 DEF Bounded
<1>14. Encrypting(v) /\ Uploading(v)
  <2>1. Encrypting(w) /\ Uploading(w)
    BY <1>2 DEF Sound
  <2>2. /\ v.room = w.room /\ v.enc = w.enc /\ DOMAIN v.calls = DOMAIN w.calls
        /\ \A p \in DOMAIN w.calls :
             /\ v.calls[p].call = w.calls[p].call /\ v.calls[p].session = w.calls[p].session
             /\ v.calls[p].index = w.calls[p].index
    BY <1>10, <1>12
  <2>3. Encrypting(v)
    BY <2>1, <2>2 DEF Encrypting
  <2>4. Uploading(v)
    BY <2>1, <2>2 DEF Uploading
  <2> QED BY <2>3, <2>4
<1>16. ~LooksUp(w) /\ ~LooksUp(v) /\ w.room.checked
  <2>1. ~LooksUp(w) /\ w.room.checked
    BY <1>2, <1>4, <1>5 DEF Sound, Lookups, f
  <2> QED BY <1>12, <2>1 DEF LooksUp
<1>17. Lookups(v, db')
  BY <1>10, <1>12, <1>16 DEF Lookups, LooksUp
<1>18. GoodState'
  BY <1>10, <1>13, <1>14, <1>17 DEF GoodState, Good, Sound, v
<1>19. ASSUME "save" \notin Fails, AheadState
       PROVE  AheadState'
  <2>1. /\ New(w, db, wire) /\ Current(w, db) /\ Kept(w, wire) /\ Saved(db, wire)
        /\ Written(w, db)
    BY <1>19 DEF AheadState, Ahead, w
  <2>2. row = stored
    BY <1>9, <1>19
  <2>3. s <= w.created /\ s \in Nat /\ w.created \in Nat
    BY <1>2, <1>4, <1>5, <2>1 DEF New, ClientType, Session, f
  <2>4. IsOut(row[s]) =>
          /\ row[s].index = w.enc.index[s] /\ f.call \in {"encrypt", "set"}
    <3>1. IsOut(row[s]) => t.kind = "out" /\ t.state = "usable"
      BY <1>7, <2>2 DEF IsOut
    <3>2. IsOut(row[s]) => t.index = w.enc.index[s]
      BY <1>3, <2>1, <3>1 DEF Current, s
    <3>3. f.call \in {"encrypt", "set", "set_in", "rm"}
      BY <1>4, <1>5 DEF Frame
    <3> QED BY <1>4, <1>7, <2>2, <3>1, <3>2, <3>3 DEF Matches
  <2>5. IsOut(row[s]) => Fresh(wire, s, row[s].index)
    <3>1. CASE f.call = "set"
      BY <1>2, <1>4, <1>5, <2>1, <2>4, <3>1 DEF Kept, f
    <3>2. CASE f.call = "encrypt"
      <4>1. Fresh(wire, s, f.index) /\ w.enc.index[s] = f.index + 1
        BY <1>2, <1>4, <1>5, <2>1, <3>2 DEF Kept, Sound, Encrypting, f
      <4>2. /\ f.index \in Nat /\ wire.shared[s] \in Int /\ wire.last[s] \in Int
        BY <1>2, <1>4, <1>5 DEF Frame, Index, Nothing, Typed
      <4> QED BY <2>4, <4>1, <4>2 DEF Fresh
    <3> QED BY <2>4, <3>1, <3>2
  <2>6. New(v, db', wire')
    <3>1. \A q \in Session : q > w.created => row[q] = db.row[q]
      BY <1>7, <2>2, <2>3 DEF Session
    <3> QED BY <1>10, <1>11, <1>12, <2>1, <3>1 DEF New
  <2>7. Current(v, db')
    BY <1>10, <2>1 DEF Current
  <2>8. Kept(v, wire')
    BY <1>10, <1>11, <1>12, <2>1 DEF Kept
  <2>9. Saved(db', wire')
    BY <1>7, <1>10, <1>11, <2>1, <2>2, <2>5 DEF Saved
  <2>10. Written(v, db')
    <3>1. \A q \in Session : InUse(v, q) => InUse(w, q)
      BY <1>10, <1>12 DEF InUse
    <3>2. \A q \in Session : q # s /\ ToBeStored(w, q) => ToBeStored(v, q)
      BY <1>2, <1>5, <1>10, <1>12 DEF ToBeStored, f
    <3> QED BY <1>7, <1>10, <2>1, <2>2, <2>4, <3>1, <3>2 DEF Written
  <2> QED BY <2>6, <2>7, <2>8, <2>9, <2>10 DEF AheadState, Ahead, v
<1> QED BY <1>18, <1>19

\* Only a row with a usable session is found.
LEMMA LatestIs ==
  ASSUME TypeOK
  PROVE  /\ Latest \in Session \cup {None}
         /\ Latest # None => IsOut(db.row[Latest])
<1> DEFINE R == Rows
<1>1. R \in SUBSET (0..MaxSessions) /\ R \subseteq Session /\ MaxSessions \in Nat
  BY GroupSessionAssumption DEF Rows, Session
<1>2. R # {} => Max(R) \in R
  <2> HIDE DEF R
  <2> QED BY <1>1, MaxOf
<1>3. CASE R = {}
  BY <1>3 DEF Latest
<1>4. CASE R # {}
  <2> DEFINE s == Max(R)
  <2>1. s \in Session /\ db.row[s].type = "out" /\ db.row[s].state = "usable"
    BY <1>1, <1>2, <1>4 DEF Rows
  <2>2. Latest = IF db.row[s].pickle = "out" THEN s ELSE None
    BY <1>4 DEF Latest
  <2> HIDE DEF s
  <2> QED BY <2>1, <2>2 DEF IsOut
<1> QED BY <1>3, <1>4

\* WorkerLooksUp: no row is written between a lookup and its return.
LEMMA WorkerLooksUpStep ==
  ASSUME GoodState, WorkerLooksUp
  PROVE  GoodState' /\ (AheadState => AheadState')
<1> DEFINE s == Latest
           i == IF s = None THEN 0 ELSE db.row[s].index
<1>1. PICK t \in ToSet(db.running) :
        /\ t.kind = "lookup"
        /\ calls' = [calls EXCEPT ![t.at].done = TRUE, ![t.at].session = s, ![t.at].index = i]
        /\ db' = [db EXCEPT !.running = <<>>]
        /\ UNCHANGED <<room, enc, wire>>
  BY DEF WorkerLooksUp
<1> DEFINE w == Client
           v == Client'
           f == calls[t.at]
           g == [f EXCEPT !.done = TRUE, !.session = s, !.index = i]
<1>2. /\ w \in ClientType /\ Typed(w, db, wire) /\ Sound(w, db) /\ Bounded(w, db, wire, ToCome(w))
      /\ db \in Db /\ db.running \in Seq(Task) /\ calls \in Seq(Frame) /\ TypeOK
      /\ w.queue = db.queue /\ w.calls = calls /\ w.room = room /\ w.enc = enc
      /\ w.created = wire.created
  BY ClientIs DEF GoodState, Good, Typed, TypeOK
<1>3. t.at \in DOMAIN calls /\ Matches(t, f) /\ f \in Frame
  <2>1. t \in TasksOf(w.queue, db.running)
    BY DEF TasksOf
  <2> QED BY <1>2, <2>1 DEF Sound, Tasks
<1>4. f.call = "lookup" /\ ~f.done
  BY <1>1, <1>3 DEF Matches
<1>5. /\ s \in Session \cup {None} /\ i \in Index
      /\ s # None => s \in Session /\ IsOut(db.row[s]) /\ i = db.row[s].index
  <2>1. s \in Session \cup {None} /\ (s # None => IsOut(db.row[s]))
    BY <1>2, LatestIs
  <2>2. 0 \in Index /\ \A q \in Session : db.row[q].index \in Index
    BY <1>2, GroupSessionAssumption DEF Db, Index
  <2> HIDE DEF s
  <2> QED BY <2>1, <2>2
<1> HIDE DEF s, i
<1>6. /\ g \in Frame /\ g.done /\ g.call = "lookup" /\ g.session = s /\ g.index = i
  BY <1>3, <1>4, <1>5 DEF Frame
<1>7. TaskDone(t, g, db.row)
  <2>1. calls' = [calls EXCEPT ![t.at] = g]
    BY <1>1, <1>2, <1>3 DEF Frame
  <2>2. db' = [db EXCEPT !.running = <<>>, !.row = db.row]
    BY <1>1, <1>2 DEF Db
  <2>3. db.row \in [Session -> Row]
    BY <1>2 DEF Db, Row
  <2> HIDE DEF g
  <2> QED BY <1>1, <1>6, <2>1, <2>2, <2>3 DEF TaskDone
<1> HIDE DEF w, v, f, g
<1>8. /\ TypeOK' /\ Typed(v, db', wire')
      /\ v.room = w.room /\ v.enc = w.enc /\ v.calls = calls' /\ v.queue = w.queue
      /\ v.created = w.created /\ db'.running = <<>> /\ db'.row = db.row
      /\ DOMAIN calls' = DOMAIN calls /\ calls'[t.at] = g
      /\ \A p \in DOMAIN calls : p # t.at => calls'[p] = calls[p]
      /\ Tasks(calls', w.queue, <<>>)
      /\ TasksOf(w.queue, <<>>) \subseteq TasksOf(w.queue, db.running)
      /\ InOrder(calls, w.queue, db.running) => InOrder(calls', w.queue, <<>>)
  BY <1>2, <1>7, TaskDoneIs DEF v, w
<1>9. wire' = wire
  BY <1>1
<1>10. /\ DOMAIN v.calls = DOMAIN w.calls /\ t.at \in DOMAIN w.calls /\ v.calls[t.at] = g
       /\ w.calls[t.at].call = "lookup"
       /\ \A p \in DOMAIN w.calls : p # t.at => v.calls[p] = w.calls[p]
  BY <1>2, <1>3, <1>4, <1>8 DEF f
<1>11. Bounded(v, db', wire', ToCome(v))
  <2>1. i + ToCome(w) <= wire.given
    BY <1>2, <1>5 DEF Bounded, i
  <2>2. ToCome(v) = ToCome(w)
    BY <1>8 DEF ToCome
  <2> QED BY <1>2, <1>6, <1>8, <1>9, <1>10, <2>1, <2>2 DEF Bounded
<1>12. /\ Encrypting(w) /\ Uploading(w) /\ Lookups(w, db) /\ v.room = w.room /\ v.enc = w.enc
       /\ v.queue = w.queue
  BY <1>2, <1>8 DEF Sound
<1>13. Encrypting(v)
  BY <1>6, <1>10, <1>12 DEF Encrypting
<1>14. Uploading(v)
  BY <1>6, <1>10, <1>12 DEF Uploading
<1>15. Lookups(v, db')
  <2>1. Quiet(w) /\ \A p \in DOMAIN w.calls :
          w.calls[p].call = "lookup" /\ (w.room.checked => w.calls[p].done)
    BY <1>10, <1>12 DEF Lookups, LooksUp
  <2>2. Quiet(v)
    BY <1>12, <2>1 DEF Quiet
  <2>3. \A p \in DOMAIN v.calls :
          v.calls[p].call = "lookup" /\ (v.room.checked => v.calls[p].done)
    BY <1>6, <1>10, <1>12, <2>1
  <2>4. \A p \in DOMAIN v.calls :
          v.calls[p].call = "lookup" /\ v.calls[p].done /\ v.calls[p].session # None =>
            IsOut(db.row[v.calls[p].session]) /\ v.calls[p].index = db.row[v.calls[p].session].index
    BY <1>5, <1>6, <1>10, <1>12 DEF Lookups, IsOut
  <2>5. ~v.room.checked =>
          /\ v.enc.out = {} /\ v.enc.key = None /\ v.room.busy = "no"
          /\ InOrder(v.calls, v.queue, db'.running)
    BY <1>2, <1>8, <1>12 DEF Lookups
  <2> QED BY <1>8, <2>2, <2>3, <2>4, <2>5 DEF Lookups, IsOut
<1>16. GoodState'
  BY <1>8, <1>11, <1>13, <1>14, <1>15 DEF GoodState, Good, Sound, v
<1>17. ASSUME AheadState
       PROVE  AheadState'
  <2>1. /\ New(w, db, wire) /\ Current(w, db) /\ Kept(w, wire) /\ Saved(db, wire)
        /\ Written(w, db)
    BY <1>17 DEF AheadState, Ahead, w
  <2>2. s <= w.created
    <3>1. w.created \in Nat
      BY <1>2 DEF ClientType
    <3>2. CASE s = None
      BY <3>1, <3>2 DEF None
    <3>3. CASE s # None
      BY <1>5, <2>1, <3>1, <3>3 DEF New, IsOut, Session
    <3> QED BY <3>2, <3>3
  <2>3. New(v, db', wire')
    BY <1>6, <1>8, <1>9, <1>10, <2>1, <2>2 DEF New
  <2>4. Current(v, db')
    BY <1>8, <2>1 DEF Current
  <2>5. Kept(v, wire')
    BY <1>6, <1>8, <1>9, <1>10, <2>1 DEF Kept
  <2>6. Saved(db', wire')
    BY <1>8, <1>9, <2>1 DEF Saved
  <2>7. Written(v, db')
    <3>1. \A q \in Session : InUse(v, q) => InUse(w, q)
      BY <1>6, <1>8, <1>10 DEF InUse
    <3>2. \A q \in Session : ToBeStored(w, q) => ToBeStored(v, q)
      BY <1>10 DEF ToBeStored
    <3> QED BY <1>8, <2>1, <3>1, <3>2 DEF Written
  <2> QED BY <2>3, <2>4, <2>5, <2>6, <2>7 DEF AheadState, Ahead, v
<1> QED BY <1>16, <1>17

-----------------------------------------------------------------------------
(* Answers, the application and the sync loop.                             *)

\* ToCome, of a room
Left(r) == r.queue + (IF r.sending = "file" THEN 1 ELSE 0)

\* r is what an answer makes of the room of w.
Answered(w, r) ==
  /\ r \in Room /\ w.room.checked /\ r.checked = w.room.checked /\ ~LooksUp(w)
  /\ w.room.sending = "encrypting" => r.sending = "encrypting"
  /\ r.busy = "upload" => r.keys /\ r.sending = "no"
  /\ r.upload # None => r.upload = w.room.upload /\ r.from = w.room.from /\ r.busy = "upload"
  /\ w.room.busy = "upload" /\ w.room.upload = None => r.busy = "upload" /\ r.upload = None
  /\ Left(r) <= ToCome(w)

\* An answer to a request changes the room alone.
LEMMA AnsweredGood ==
  ASSUME NEW w, NEW d, NEW x, Good(w, d, x), NEW r, Answered(w, r),
         NEW v, v = [w EXCEPT !.room = r]
  PROVE  /\ Good(v, d, x) /\ (Ahead(w, d, x) => Ahead(v, d, x))
         /\ v \in ClientType /\ v.room = r /\ v.enc = w.enc /\ v.calls = w.calls
         /\ v.queue = w.queue /\ v.created = w.created
<1>1. w \in ClientType /\ Typed(w, d, x) /\ Sound(w, d) /\ Bounded(w, d, x, ToCome(w))
  BY DEF Good, Typed
<1>2. /\ v \in ClientType /\ v.room = r /\ v.enc = w.enc /\ v.calls = w.calls
      /\ v.queue = w.queue /\ v.created = w.created
  BY <1>1, RoomSet DEF Answered
<1>3. Uploading(v)
  <2>1. Uploading(w)
    BY <1>1 DEF Sound
  <2> QED BY <1>2, <2>1 DEF Uploading, Answered
<1>4. Typed(v, d, x) /\ Sound(v, d)
  BY <1>1, <1>2, <1>3, RoomChanged DEF Answered
<1>5. ToCome(v) \in Nat /\ ToCome(w) \in Nat /\ ToCome(v) <= ToCome(w)
  <2>1. v.room.queue \in Nat /\ w.room.queue \in Nat
    BY <1>1, <1>2, GroupSessionAssumption DEF ClientType, Room
  <2>2. ToCome(v) <= ToCome(w)
    BY <1>2 DEF Answered, ToCome, Left
  <2> QED BY <2>1, <2>2 DEF ToCome
<1>6. Bounded(v, d, x, ToCome(v))
  BY <1>1, <1>2, <1>5, LessToCome
<1>7. Good(v, d, x)
  BY <1>4, <1>6 DEF Good
<1>8. Ahead(w, d, x) => Ahead(v, d, x)
  BY <1>1, <1>2, RoomAhead DEF Answered
<1> QED BY <1>2, <1>7, <1>8

\* What holds of the room between the calls.
LEMMA RoomIs ==
  ASSUME GoodState
  PROVE  /\ Client.room = room /\ room \in Room /\ Client.calls = calls /\ Client \in ClientType
         /\ Client.created = wire.created /\ wire \in Wire /\ room.queue \in Nat
         /\ Client.enc = enc /\ Good(Client, db, wire)
         /\ room.busy = "upload" => room.keys /\ room.sending = "no"
         /\ room.upload # None => room.busy = "upload"
         /\ room.claimed \/ room.upload # None \/ room.sending # "no" \/ room.busy # "no"
              => room.checked
<1>1. /\ Client.room = room /\ room \in Room /\ Client.calls = calls /\ Client \in ClientType
      /\ Client.created = wire.created /\ wire \in Wire /\ Client.enc = enc
      /\ Good(Client, db, wire)
  BY ClientIs DEF GoodState, TypeOK
<1>2. Uploading(Client) /\ Lookups(Client, db)
  BY DEF GoodState, Good, Sound
<1>3. room.queue \in Nat
  BY <1>1, GroupSessionAssumption DEF Room
<1>4. /\ room.busy = "upload" => room.keys /\ room.sending = "no"
      /\ room.upload # None => room.busy = "upload"
  BY <1>1, <1>2 DEF Uploading
<1>5. room.claimed \/ room.upload # None \/ room.sending # "no" \/ room.busy # "no"
        => room.checked
  BY <1>1, <1>2 DEF Lookups, Quiet
<1> QED BY <1>1, <1>3, <1>4, <1>5

\* KeysClaimed: the answer to the claim, or its failure.
LEMMA KeysClaimedStep ==
  ASSUME GoodState, KeysClaimed
  PROVE  GoodState' /\ (AheadState => AheadState')
<1> DEFINE r1 == [room EXCEPT !.busy = "no"]
           r2 == [room EXCEPT !.busy = "no", !.claimed = TRUE, !.keys = TRUE]
           v1 == [Client EXCEPT !.room.busy = "no"]
           v2 == [v1 EXCEPT !.room.claimed = TRUE, !.room.keys = TRUE]
<1>1. /\ room.busy = "claim" /\ Iterates
      /\ GoesOn(v2) \/ (Becomes(v1) /\ UNCHANGED wire)
  BY DEF KeysClaimed
<1>2. /\ Client.room = room /\ room \in Room /\ Client.calls = calls /\ Client \in ClientType
      /\ Client.created = wire.created /\ wire \in Wire /\ room.queue \in Nat
      /\ Good(Client, db, wire) /\ room.checked /\ room.upload = None
  BY <1>1, RoomIs
<1>3. Len(Client.calls) < MaxDepth /\ ~LooksUp(Client)
  BY <1>1, <1>2, LoopRuns
<1>4. ToCome(Client) = Left(room) /\ ToCome(Client) \in Nat
  BY <1>2 DEF ToCome, Left
<1>5. Answered(Client, r1) /\ Answered(Client, r2)
  <2>1. /\ r1 \in Room /\ r1.checked = room.checked /\ r1.sending = room.sending
        /\ r1.busy = "no" /\ r1.upload = None /\ r1.queue = room.queue
    BY <1>2 DEF Room
  <2>2. /\ r2 \in Room /\ r2.checked = room.checked /\ r2.sending = room.sending
        /\ r2.busy = "no" /\ r2.upload = None /\ r2.queue = room.queue
    BY <1>2 DEF Room
  <2> HIDE DEF r1, r2
  <2>9. Left(r1) = Left(room) /\ Left(r2) = Left(room)
    BY <2>1, <2>2 DEF Left
  <2>11. r1 \in Room /\ Left(r1) <= ToCome(Client)
    BY <1>4, <2>1, <2>9
  <2>12. Client.room.checked /\ r1.checked = Client.room.checked
    BY <1>2, <2>1
  <2>13. /\ Client.room.sending = "encrypting" => r1.sending = "encrypting"
         /\ r1.busy = "upload" => r1.keys /\ r1.sending = "no"
         /\ r1.upload # None =>
              r1.upload = Client.room.upload /\ r1.from = Client.room.from /\ r1.busy = "upload"
         /\ Client.room.busy = "upload" /\ Client.room.upload = None =>
              r1.busy = "upload" /\ r1.upload = None
    BY <1>1, <1>2, <2>1
  <2>14. Answered(Client, r1)
    BY <1>3, <2>11, <2>12, <2>13 DEF Answered
  <2>21. r2 \in Room /\ Left(r2) <= ToCome(Client)
    BY <1>4, <2>2, <2>9
  <2>22. Client.room.checked /\ r2.checked = Client.room.checked
    BY <1>2, <2>2
  <2>23. /\ Client.room.sending = "encrypting" => r2.sending = "encrypting"
         /\ r2.busy = "upload" => r2.keys /\ r2.sending = "no"
         /\ r2.upload # None =>
              r2.upload = Client.room.upload /\ r2.from = Client.room.from /\ r2.busy = "upload"
         /\ Client.room.busy = "upload" /\ Client.room.upload = None =>
              r2.busy = "upload" /\ r2.upload = None
    BY <1>1, <1>2, <2>2
  <2>24. Answered(Client, r2)
    BY <1>3, <2>21, <2>22, <2>23 DEF Answered
  <2> QED BY <2>14, <2>24
<1>6. v1 = [Client EXCEPT !.room = r1]
  BY <1>2
<1>7. v2 = [Client EXCEPT !.room = r2]
  BY <1>2, <1>6 DEF ClientType
<1> HIDE DEF r1, r2, v1, v2
<1>8. CASE GoesOn(v2)
  <2>1. /\ Good(v2, db, wire) /\ (Ahead(Client, db, wire) => Ahead(v2, db, wire))
        /\ v2.calls = Client.calls
    BY <1>2, <1>5, <1>7, AnsweredGood
  <2>2. GoodState' /\ (Ahead(v2, db, wire) => AheadState')
    BY <1>3, <1>8, <2>1, GoesOnStep
  <2> QED BY <2>1, <2>2 DEF AheadState
<1>9. CASE Becomes(v1) /\ UNCHANGED wire
  <2>1. /\ Good(v1, db, wire) /\ (Ahead(Client, db, wire) => Ahead(v1, db, wire))
        /\ v1.created = Client.created
    BY <1>2, <1>5, <1>6, AnsweredGood
  <2>2. GoodState' /\ (Ahead(v1, db, wire) => AheadState')
    BY <1>2, <1>9, <2>1, PlainStep
  <2> QED BY <2>1, <2>2 DEF AheadState
<1> QED BY <1>1, <1>8, <1>9

\* UploadFailed: the session whose key was not sent is not used.
LEMMA UploadFailedStep ==
  ASSUME GoodState, UploadFailed
  PROVE  GoodState' /\ (AheadState => AheadState')
<1> DEFINE r == [room EXCEPT !.upload = None, !.from = 0, !.busy = "no"]
           v == [NoUpload(Client) EXCEPT !.room.busy = "no"]
<1>1. room.upload # None /\ Iterates /\ Becomes(v) /\ UNCHANGED wire
  BY DEF UploadFailed
<1>2. /\ Client.room = room /\ room \in Room /\ Client.calls = calls /\ Client \in ClientType
      /\ Client.created = wire.created /\ wire \in Wire /\ room.queue \in Nat
      /\ Good(Client, db, wire) /\ room.checked
  BY <1>1, RoomIs
<1>3. ~LooksUp(Client)
  BY <1>1, <1>2, LoopRuns
<1>4. ToCome(Client) = Left(room) /\ ToCome(Client) \in Nat
  BY <1>2 DEF ToCome, Left
<1>5. Answered(Client, r)
  <2>1. 0 \in Index
    BY GroupSessionAssumption DEF Index
  <2>2. /\ r \in Room /\ r.checked = room.checked /\ r.sending = room.sending
        /\ r.busy = "no" /\ r.upload = None /\ r.queue = room.queue
    BY <1>2, <2>1 DEF Room
  <2> HIDE DEF r
  <2>9. Left(r) = Left(room)
    BY <2>2 DEF Left
  <2>11. r \in Room /\ Left(r) <= ToCome(Client)
    BY <1>4, <2>2, <2>9
  <2>12. Client.room.checked /\ r.checked = Client.room.checked
    BY <1>2, <2>2
  <2>13. /\ Client.room.sending = "encrypting" => r.sending = "encrypting"
         /\ r.busy = "upload" => r.keys /\ r.sending = "no"
         /\ r.upload # None =>
              r.upload = Client.room.upload /\ r.from = Client.room.from /\ r.busy = "upload"
         /\ Client.room.busy = "upload" /\ Client.room.upload = None =>
              r.busy = "upload" /\ r.upload = None
    BY <1>1, <1>2, <2>2
  <2> QED BY <1>3, <2>11, <2>12, <2>13 DEF Answered
<1>6. v = [Client EXCEPT !.room = r]
  BY <1>2 DEF ClientType, NoUpload
<1> HIDE DEF r, v
<1>7. /\ Good(v, db, wire) /\ (Ahead(Client, db, wire) => Ahead(v, db, wire))
      /\ v.created = Client.created
  BY <1>2, <1>5, <1>6, AnsweredGood
<1>8. GoodState' /\ (Ahead(v, db, wire) => AheadState')
  BY <1>1, <1>2, <1>7, PlainStep
<1> QED BY <1>7, <1>8 DEF AheadState

\* MessageSent: the next message may be encrypted.
LEMMA MessageSentStep ==
  ASSUME GoodState, MessageSent
  PROVE  GoodState' /\ (AheadState => AheadState')
<1> DEFINE r == [room EXCEPT !.sending = "no"]
           v == [Client EXCEPT !.room.sending = "no"]
<1>1. room.sending = "sent" /\ Iterates /\ Becomes(v) /\ UNCHANGED wire
  BY DEF MessageSent
<1>2. /\ Client.room = room /\ room \in Room /\ Client.calls = calls /\ Client \in ClientType
      /\ Client.created = wire.created /\ wire \in Wire /\ room.queue \in Nat
      /\ Good(Client, db, wire) /\ room.checked /\ room.busy # "upload" /\ room.upload = None
  BY <1>1, RoomIs
<1>3. ~LooksUp(Client)
  BY <1>1, <1>2, LoopRuns
<1>4. ToCome(Client) = room.queue
  BY <1>1, <1>2 DEF ToCome
<1>5. Answered(Client, r)
  BY <1>1, <1>2, <1>3, <1>4 DEF Answered, Room, Left
<1>6. v = [Client EXCEPT !.room = r]
  BY <1>2
<1> HIDE DEF r, v
<1>7. /\ Good(v, db, wire) /\ (Ahead(Client, db, wire) => Ahead(v, db, wire))
      /\ v.created = Client.created
  BY <1>2, <1>5, <1>6, AnsweredGood
<1>8. GoodState' /\ (Ahead(v, db, wire) => AheadState')
  BY <1>1, <1>2, <1>7, PlainStep
<1> QED BY <1>7, <1>8 DEF AheadState

\* MembersChanged: the keys are claimed again.
LEMMA MembersChangedStep ==
  ASSUME GoodState, MembersChanged
  PROVE  GoodState' /\ (AheadState => AheadState')
<1> DEFINE r == [room EXCEPT !.claimed = FALSE]
           v == [Client EXCEPT !.room.claimed = FALSE]
<1>1. /\ room.claimed /\ Iterates /\ Becomes(v)
      /\ wire' = [wire EXCEPT !.changes = @ + 1] /\ wire.changes < MaxChanges
  BY DEF MembersChanged
<1>2. /\ Client.room = room /\ room \in Room /\ Client.calls = calls /\ Client \in ClientType
      /\ Client.created = wire.created /\ wire \in Wire /\ room.queue \in Nat
      /\ Good(Client, db, wire) /\ room.checked
      /\ room.busy = "upload" => room.keys /\ room.sending = "no"
      /\ room.upload # None => room.busy = "upload"
  BY <1>1, RoomIs
<1>3. ~LooksUp(Client)
  BY <1>1, <1>2, LoopRuns
<1>4. ToCome(Client) = Left(room) /\ ToCome(Client) \in Nat
  BY <1>2 DEF ToCome, Left
<1>5. Answered(Client, r)
  <2>1. /\ r \in Room /\ r.checked = room.checked /\ r.sending = room.sending
        /\ r.busy = room.busy /\ r.upload = room.upload /\ r.queue = room.queue
        /\ r.from = room.from /\ r.keys = room.keys
    BY <1>2 DEF Room
  <2> HIDE DEF r
  <2>9. Left(r) = Left(room)
    BY <2>1 DEF Left
  <2>11. r \in Room /\ Left(r) <= ToCome(Client)
    BY <1>4, <2>1, <2>9
  <2>12. Client.room.checked /\ r.checked = Client.room.checked
    BY <1>2, <2>1
  <2>13. /\ Client.room.sending = "encrypting" => r.sending = "encrypting"
         /\ r.busy = "upload" => r.keys /\ r.sending = "no"
         /\ r.upload # None =>
              r.upload = Client.room.upload /\ r.from = Client.room.from /\ r.busy = "upload"
         /\ Client.room.busy = "upload" /\ Client.room.upload = None =>
              r.busy = "upload" /\ r.upload = None
    BY <1>1, <1>2, <2>1
  <2> QED BY <1>3, <2>11, <2>12, <2>13 DEF Answered
<1>6. v = [Client EXCEPT !.room = r]
  BY <1>2
<1> HIDE DEF r, v
<1>7. /\ Good(v, db, wire) /\ (Ahead(Client, db, wire) => Ahead(v, db, wire))
      /\ v.created = Client.created
  BY <1>2, <1>5, <1>6, AnsweredGood
<1>8. /\ wire' \in Wire /\ wire'.created = wire.created /\ wire'.given = wire.given
      /\ wire'.shared = wire.shared /\ wire'.last = wire.last
  <2>1. wire.changes + 1 \in 0..MaxChanges
    BY <1>1, <1>2, GroupSessionAssumption DEF Wire
  <2> QED BY <1>1, <1>2, <2>1 DEF Wire
<1>9. GoodState' /\ (Ahead(v, db, wire) => AheadState')
  BY <1>1, <1>2, <1>7, <1>8, PlainStep
<1> QED BY <1>7, <1>9 DEF AheadState

\* FileUploaded: the event is encrypted with the session the room has by now.
LEMMA FileUploadedStep ==
  ASSUME GoodState, FileUploaded
  PROVE  GoodState' /\ (AheadState => AheadState')
<1> DEFINE r(to) == [room EXCEPT !.sending = to]
           v(to) == [Client EXCEPT !.room.sending = to]
<1>1. /\ room.sending = "file" /\ Iterates
      /\ \/ \E late \in BOOLEAN : Becomes(Encrypt(Client, late)) /\ UNCHANGED wire
         \/ GoesOn(v("no"))
  BY DEF FileUploaded
<1>2. /\ Client.room = room /\ room \in Room /\ Client.calls = calls /\ Client \in ClientType
      /\ Client.created = wire.created /\ wire \in Wire /\ room.queue \in Nat
      /\ Good(Client, db, wire) /\ room.checked /\ room.busy # "upload" /\ room.upload = None
  BY <1>1, RoomIs
<1>3. ~LooksUp(Client) /\ Len(Client.calls) < MaxDepth
  BY <1>1, <1>2, LoopRuns
<1>4. ToCome(Client) = room.queue + 1
  BY <1>1, <1>2 DEF ToCome
<1>5. ASSUME NEW to \in {"no", "sent"}
      PROVE  /\ Good(v(to), db, wire) /\ (Ahead(Client, db, wire) => Ahead(v(to), db, wire))
             /\ v(to).created = Client.created /\ v(to).calls = Client.calls
  <2>1. r(to) \in Room /\ Left(r(to)) <= ToCome(Client)
    BY <1>2, <1>4 DEF Room, Left
  <2>2. /\ r(to).checked = room.checked /\ r(to).busy = room.busy /\ r(to).upload = None
    BY <1>2 DEF Room
  <2>3. v(to) = [Client EXCEPT !.room = r(to)]
    BY <1>2
  <2> HIDE DEF r, v
  <2>4. Answered(Client, r(to))
    BY <1>1, <1>2, <1>3, <2>1, <2>2 DEF Answered
  <2> QED BY <1>2, <2>3, <2>4, AnsweredGood
<1>6. ASSUME NEW late \in BOOLEAN, Becomes(Encrypt(Client, late)), UNCHANGED wire
      PROVE  GoodState' /\ (AheadState => AheadState')
  <2>1. CASE OutSession(Client) = None
    <3>1. Encrypt(Client, late) = v("sent")
      BY <2>1 DEF Encrypt
    <3> HIDE DEF v
    <3>2. Becomes(v("sent")) /\ v("sent").created = wire.created /\ Good(v("sent"), db, wire)
      BY <1>2, <1>5, <1>6, <3>1
    <3>3. GoodState' /\ (Ahead(v("sent"), db, wire) => AheadState')
      BY <1>2, <1>6, <3>2, PlainStep
    <3> QED BY <1>5, <3>3 DEF AheadState
  <2>2. CASE OutSession(Client) # None
    <3> DEFINE u == Encrypted(Client, late)
               s == OutSession(Client)
    <3>1. Encrypt(Client, late) = u
      BY <2>2 DEF Encrypt
    <3>2. /\ Typed(Client, db, wire) /\ Sound(Client, db)
          /\ Bounded(Client, db, wire, Client.room.queue + 1)
      BY <1>2, <1>4 DEF Good
    <3>3. /\ Good(u, db, wire)
          /\ \E f, t : TakesIndex(Client, u, s, f, t)
      BY <1>1, <1>2, <1>3, <2>2, <3>2, EncryptedGood
    <3> HIDE DEF u
    <3>4. AheadState => Ahead(u, db, wire)
      BY <1>1, <1>2, <3>2, <3>3, EncryptedAhead DEF AheadState
    <3>5. u.created = wire.created /\ Becomes(u)
      BY <1>2, <1>6, <3>1, <3>3 DEF TakesIndex
    <3>6. GoodState' /\ (Ahead(u, db, wire) => AheadState')
      BY <1>2, <1>6, <3>3, <3>5, PlainStep
    <3> QED BY <3>4, <3>6
  <2> QED BY <2>1, <2>2
<1>7. CASE GoesOn(v("no"))
  <2> HIDE DEF v
  <2>1. /\ Good(v("no"), db, wire) /\ Len(v("no").calls) < MaxDepth
        /\ (AheadState => Ahead(v("no"), db, wire))
    BY <1>3, <1>5 DEF AheadState
  <2> QED BY <1>7, <2>1, GoesOnStep
<1> QED BY <1>1, <1>6, <1>7

\* Send: one more message is to come.
LEMMA SendStep ==
  ASSUME GoodState, Send
  PROVE  GoodState' /\ (AheadState => AheadState')
<1> DEFINE r == [room EXCEPT !.queue = @ + 1]
           w == [Client EXCEPT !.room.queue = @ + 1]
           y == [wire EXCEPT !.given = @ + 1]
<1>1. /\ Iterates /\ wire.given < MaxMessages
      /\ \E file, late \in BOOLEAN :
           LET v == SendFromQueue(w, file, late)
           IN  Becomes(v) /\ wire' = [wire EXCEPT !.given = @ + 1, !.created = v.created]
  BY DEF Send
<1>2. /\ Client.room = room /\ room \in Room /\ Client.calls = calls /\ Client \in ClientType
      /\ Client.created = wire.created /\ wire \in Wire /\ room.queue \in Nat
      /\ Good(Client, db, wire) /\ MaxMessages \in Nat /\ TypeOK
  BY RoomIs, GroupSessionAssumption DEF GoodState
<1>3. Len(Client.calls) < MaxDepth
  BY <1>1, <1>2, LoopRuns
<1>4. /\ Typed(Client, db, wire) /\ Sound(Client, db) /\ Bounded(Client, db, wire, ToCome(Client))
      /\ ToCome(Client) = Left(room) /\ Left(room) \in Nat /\ Left(room) >= room.queue
  BY <1>2 DEF Good, ToCome, Left
<1>5. /\ wire.given \in Nat /\ y.given = wire.given + 1 /\ y.shared = wire.shared
      /\ y.last = wire.last /\ y \in Wire
  BY <1>1, <1>2 DEF Wire
<1>6. room.queue + 1 \in 0..MaxMessages
  <2>1. 0 + Left(room) <= wire.given
    BY <1>4 DEF Bounded
  <2> QED BY <1>1, <1>2, <1>4, <1>5, <2>1
<1>7. /\ r \in Room /\ r.queue = room.queue + 1 /\ r.busy = room.busy
      /\ r.upload = room.upload /\ r.from = room.from /\ r.keys = room.keys
      /\ r.sending = room.sending /\ r.checked = room.checked /\ r.claimed = room.claimed
  BY <1>2, <1>6 DEF Room
<1>8. w = [Client EXCEPT !.room = r]
  BY <1>2
<1> HIDE DEF w, r, y
<1>9. /\ w \in ClientType /\ w.room = r /\ w.enc = Client.enc /\ w.calls = Client.calls
      /\ w.queue = Client.queue /\ w.created = Client.created
  BY <1>2, <1>7, <1>8, RoomSet
<1>10. Uploading(w)
  BY <1>2, <1>4, <1>7, <1>9 DEF Uploading, Sound
<1>11. Typed(w, db, wire) /\ Sound(w, db)
  <2>1. /\ Quiet(Client) => Quiet(w)
        /\ ~Client.room.checked => w.room.busy = "no"
    BY <1>2, <1>4, <1>7, <1>9 DEF Quiet, Sound, Lookups
  <2>2. w.room.checked = Client.room.checked /\ w.room.sending = Client.room.sending
    BY <1>2, <1>7, <1>9
  <2> QED BY <1>4, <1>9, <1>10, <2>1, <2>2, RoomChanged
<1>12. ToCome(w) = ToCome(Client) + 1
  BY <1>2, <1>4, <1>7, <1>9 DEF ToCome, Left
<1>13. Good(w, db, y)
  <2>1. Typed(w, db, y)
    <3>1. y.given \in 0..MaxMessages
      BY <1>5 DEF Wire
    <3> QED BY <1>5, <1>11, <3>1 DEF Typed
  <2>2. Bounded(w, db, y, ToCome(w))
    <3> DEFINE n == ToCome(Client)
    <3>1. n \in Nat /\ ToCome(w) = n + 1
      BY <1>4, <1>12
    <3> HIDE DEF n
    <3>2. \A j \in Int : j + n <= wire.given => j + (n + 1) <= y.given
      BY <1>5, <3>1
    <3>3. ASSUME NEW q \in Session
          PROVE  /\ w.enc.index[q] + (n + 1) <= y.given /\ w.enc.inbound[q] + (n + 1) <= y.given
                 /\ db.row[q].index + (n + 1) <= y.given
      <4>1. w.enc.index[q] \in Int /\ w.enc.inbound[q] \in Int /\ db.row[q].index \in Int
        BY <1>4, <1>9 DEF Typed, ClientType, Enc, Row, Index, Nothing
      <4> QED BY <1>4, <1>9, <3>2, <4>1 DEF Bounded, n
    <3>4. ASSUME NEW u \in TasksOf(w.queue, db.running)
          PROVE  u.index + (n + 1) <= y.given
      <4>1. u.index \in Int
        BY <1>4, <1>9, TaskTyped DEF Typed, ClientType
      <4> QED BY <1>4, <1>9, <3>2, <4>1 DEF Bounded, n
    <3>5. ASSUME NEW p \in DOMAIN w.calls
          PROVE  w.calls[p].index + (n + 1) <= y.given
      <4>1. w.calls[p].index \in Int
        BY <1>9, FrameTyped DEF ClientType
      <4> QED BY <1>4, <1>9, <3>2, <4>1 DEF Bounded, n
    <3>6. 0 + (n + 1) <= y.given
      BY <1>4, <3>2 DEF Bounded, n
    <3> QED BY <3>1, <3>3, <3>4, <3>5, <3>6 DEF Bounded
  <2> QED BY <1>11, <2>1, <2>2 DEF Good
<1>14. AheadState => Ahead(w, db, y)
  <2>1. AheadState => Ahead(Client, db, y)
    BY <1>5, SameAhead DEF AheadState
  <2> QED BY <1>2, <1>7, <1>9, <2>1, RoomAhead
<1>15. PICK file \in BOOLEAN, late \in BOOLEAN :
         LET v == SendFromQueue(w, file, late)
         IN  Becomes(v) /\ wire' = [wire EXCEPT !.given = @ + 1, !.created = v.created]
  BY <1>1
<1> DEFINE v == SendFromQueue(w, file, late)
<1>16. Good(v, db, y) /\ (Ahead(w, db, y) => Ahead(v, db, y))
  BY <1>3, <1>9, <1>13, SendFromQueueGood, SendFromQueueAhead
<1> HIDE DEF v
<1>17. Becomes(v) /\ wire' = [wire EXCEPT !.given = @ + 1, !.created = v.created]
  BY <1>15 DEF v
<1>18. v.created \in 0..MaxSessions
  BY <1>16 DEF Good, Typed, ClientType
<1>19. /\ wire'.given = y.given /\ wire'.shared = y.shared /\ wire'.last = y.last
       /\ wire'.created = v.created /\ wire' \in Wire
       /\ wire'.shared \in [Session -> Index \cup {Nothing}]
       /\ wire'.last \in [Session -> Index \cup {Nothing}]
  BY <1>2, <1>5, <1>17, <1>18 DEF Wire, y
<1>20. Good(v, db, wire')
  BY <1>16, <1>19, SameGood
<1>21. Ahead(v, db, y) => Ahead(v, db, wire')
  BY <1>19, SameAhead
<1>22. GoodState' /\ (Ahead(v, db, wire') => AheadState')
  BY <1>2, <1>17, <1>19, <1>20, StepAhead
<1> QED BY <1>14, <1>16, <1>21, <1>22

\* Restart: what was not stored is gone, and what was is ahead.
LEMMA RestartStep ==
  ASSUME GoodState, Restart
  PROVE  GoodState' /\ (AheadState => AheadState')
<1>1. /\ TypeOK /\ wire \in Wire /\ db \in Db /\ wire.starts < MaxStarts /\ room' = NewRoom
      /\ enc' = NewEnc /\ calls' = <<>> /\ db' = [db EXCEPT !.queue = <<>>, !.running = <<>>]
      /\ wire' = [wire EXCEPT !.starts = @ + 1]
  BY DEF GoodState, TypeOK, Restart
<1>2. 0 \in Index /\ MaxDepth \in Nat /\ MaxMessages \in Nat
  BY GroupSessionAssumption DEF Index
<1>3. /\ db'.queue = <<>> /\ db'.running = <<>> /\ db'.row = db.row /\ db' \in Db
      /\ wire' \in Wire /\ wire'.given = wire.given /\ wire'.shared = wire.shared
      /\ wire'.last = wire.last /\ wire'.created = wire.created
  <2>1. <<>> \in Seq(Task)
    OBVIOUS
  <2>2. wire.starts + 1 \in 0..MaxStarts
    BY <1>1, GroupSessionAssumption DEF Wire
  <2> QED BY <1>1, <2>1, <2>2 DEF Db, Wire
<1>4. NewRoom \in Room /\ NewEnc \in Enc
  BY <1>2 DEF NewRoom, NewEnc, Room, Enc, State
<1>5. <<>> \in Seq(Frame) /\ Len(<<>>) <= MaxDepth /\ DOMAIN <<>> = {} /\ Len(<<>>) = 0
  BY <1>2
<1>6. TypeOK'
  BY <1>1, <1>3, <1>4, <1>5 DEF TypeOK
<1> DEFINE v == Client'
<1>7. /\ v.room = NewRoom /\ v.enc = NewEnc /\ v.calls = <<>> /\ v.queue = <<>>
      /\ v.created = wire.created /\ v \in ClientType
  BY <1>1, <1>3, <1>4, <1>5, <1>6, ClientIs DEF Client, ClientType, Wire
<1>8. TasksOf(<<>>, <<>>) = {} /\ ToSet(<<>>) = {}
  BY <1>5 DEF TasksOf, ToSet
<1>9. /\ NewRoom.queue = 0 /\ NewRoom.sending = "no" /\ ~NewRoom.claimed /\ NewRoom.busy = "no"
      /\ NewRoom.upload = None /\ ~NewRoom.checked
      /\ NewEnc.key = None /\ NewEnc.out = {}
      /\ \A q \in Session : NewEnc.index[q] = 0 /\ NewEnc.inbound[q] = Nothing
  BY DEF NewRoom, NewEnc
<1> HIDE DEF v
<1>10. Tasks(v.calls, v.queue, db'.running) /\ InOrder(v.calls, v.queue, db'.running)
  BY <1>3, <1>5, <1>7, <1>8 DEF Tasks, InOrder
<1>11. Encrypting(v) /\ Uploading(v) /\ Lookups(v, db')
  BY <1>5, <1>7, <1>9, <1>10 DEF Encrypting, Uploading, Lookups, LooksUp, Quiet
<1>12. Typed(v, db', wire')
  BY <1>3, <1>5, <1>7 DEF Typed, Db, Row, Wire
<1>13. Bounded(v, db', wire', ToCome(v))
  <2>1. ToCome(v) = 0
    BY <1>7, <1>9 DEF ToCome
  <2>2. /\ wire.given \in Nat
        /\ \A q \in Session : db.row[q].index + 0 <= wire.given
    <3>1. ToCome(Client) \in Nat /\ Bounded(Client, db, wire, ToCome(Client)) /\ wire.given \in Nat
      <4>1. Client.room.queue \in Nat /\ wire.given \in Nat
        BY <1>1, RoomIs DEF Wire
      <4> QED BY <4>1 DEF GoodState, Good, ToCome
    <3>2. ASSUME NEW q \in Session PROVE db.row[q].index + 0 <= wire.given
      <4>1. db.row[q].index \in Int
        BY <1>1 DEF Db, Index
      <4>2. db.row[q].index + ToCome(Client) <= wire.given
        BY <3>1 DEF Bounded
      <4> QED BY <3>1, <4>1, <4>2
    <3> QED BY <3>1, <3>2
  <2> QED BY <1>3, <1>5, <1>7, <1>8, <1>9, <2>1, <2>2 DEF Bounded, Nothing
<1>14. GoodState'
  BY <1>6, <1>10, <1>11, <1>12, <1>13 DEF GoodState, Good, Sound, v
<1>15. ASSUME AheadState
       PROVE  AheadState'
  <2>1. New(Client, db, wire) /\ Saved(db, wire) /\ Client.created = wire.created
    BY <1>1, <1>15, ClientIs DEF AheadState, Ahead
  <2>2. None <= wire.created
    BY <1>1 DEF Wire, None
  <2>3. New(v, db', wire')
    BY <1>3, <1>5, <1>7, <1>9, <2>1, <2>2 DEF New
  <2>4. Current(v, db')
    BY <1>3, <1>7, <1>8 DEF Current
  <2>5. Kept(v, wire')
    BY <1>5, <1>7, <1>9 DEF Kept
  <2>6. Saved(db', wire')
    BY <1>3, <2>1 DEF Saved, Fresh
  <2>7. Written(v, db')
    <3>1. \A q \in Session : ~InUse(v, q)
      BY <1>5, <1>7, <1>9 DEF InUse, Session, None
    <3> QED BY <3>1 DEF Written
  <2> QED BY <2>3, <2>4, <2>5, <2>6, <2>7 DEF AheadState, Ahead, v
<1> QED BY <1>14, <1>15

\* The key of session s is shared from the index of its next message on.
LEMMA SharedAhead ==
  ASSUME NEW w, NEW d, NEW x, Good(w, d, x), Ahead(w, d, x),
         NEW s, s = w.room.upload, s # None,
         NEW y, y.shared = [x.shared EXCEPT ![s] = w.room.from], y.last = x.last,
         NEW v, v.room.upload = None, v.enc.index = w.enc.index,
         v.enc.out \subseteq w.enc.out \cup {s}, v.enc.key \in {w.enc.key, s},
         v.calls = w.calls, v.queue = w.queue, v.created = w.created
  PROVE  Ahead(v, d, y)
<1>1. /\ New(w, d, x) /\ Current(w, d) /\ Kept(w, x) /\ Saved(d, x) /\ Written(w, d)
      /\ w \in ClientType /\ Uploading(w) /\ Encrypting(w)
      /\ x.shared \in [Session -> Index \cup {Nothing}]
      /\ x.last \in [Session -> Index \cup {Nothing}]
  BY DEF Ahead, Good, Typed, Sound
<1>2. s \in Session /\ s <= w.created /\ w.created \in Nat /\ w.room.from \in Index
  BY <1>1 DEF ClientType, Room, New
<1>3. /\ w.room.from = w.enc.index[s] /\ w.room.busy = "upload" /\ w.room.sending = "no"
      /\ \A p \in DOMAIN w.calls : w.calls[p].call \notin {"set", "set_in", "encrypt"}
  BY <1>1 DEF Uploading, Encrypting
<1>4. /\ y.shared[s] = w.room.from /\ \A q \in Session : q # s => y.shared[q] = x.shared[q]
  BY <1>1, <1>2
<1>5. Fresh(y, s, w.enc.index[s])
  <2>1. x.last[s] < w.room.from
    BY <1>1 DEF Kept
  <2>2. w.room.from \in Nat
    BY <1>2 DEF Index
  <2> QED BY <1>3, <1>4, <2>1, <2>2 DEF Fresh, Nothing
<1>6. \A q \in Session : q # s => \A j \in Int : Fresh(x, q, j) => Fresh(y, q, j)
  BY <1>4 DEF Fresh
<1>12. \A q \in Session : w.enc.index[q] \in Int /\ d.row[q].index \in Int
  BY <1>1 DEF ClientType, Enc, Index, Good, Typed, Row
<1>7. New(v, d, y)
  <2>1. \A q \in Session : q > w.created => q # s
    BY <1>2 DEF Session
  <2>2. None <= w.created
    BY <1>2 DEF None
  <2> QED BY <1>1, <1>2, <1>4, <2>1, <2>2 DEF New
<1>8. Current(v, d)
  BY <1>1 DEF Current
<1>9. Kept(v, y)
  <2>1. w.enc.out \subseteq Session
    BY <1>1 DEF ClientType, Enc
  <2>2. \A q \in v.enc.out : Fresh(y, q, v.enc.index[q])
    BY <1>1, <1>5, <1>6, <1>12, <2>1 DEF Kept
  <2> QED BY <1>3, <2>2 DEF Kept
<1>10. Saved(d, y)
  <2>1. IsOut(d.row[s]) => d.row[s].index = w.enc.index[s]
    BY <1>1, <1>2, <1>3 DEF Written, InUse, ToBeStored
  <2> QED BY <1>1, <1>5, <1>6, <1>12, <2>1 DEF Saved
<1>11. Written(v, d)
  <2>1. \A q \in Session : InUse(v, q) => InUse(w, q)
    BY DEF InUse, Session, None
  <2> QED BY <1>1, <2>1 DEF Written, ToBeStored
<1> QED BY <1>7, <1>8, <1>9, <1>10, <1>11 DEF Ahead

\* KeysUploaded: the key is that of the next message.
LEMMA KeysUploadedStep ==
  ASSUME GoodState, KeysUploaded
  PROVE  GoodState' /\ (AheadState => AheadState')
<1> DEFINE s == room.upload
           w == [NoUpload(Client) EXCEPT !.enc.key = s, !.enc.out = @ \cup {s},
                                         !.enc.inbound[s] = IF @ = Nothing THEN 0 ELSE @]
           y == [wire EXCEPT !.shared[s] = room.from]
<1>1. s # None /\ Iterates
  BY DEF KeysUploaded
<1>2. /\ Client.room = room /\ room \in Room /\ Client.calls = calls /\ Client \in ClientType
      /\ Client.created = wire.created /\ wire \in Wire /\ room.queue \in Nat
      /\ Good(Client, db, wire) /\ room.checked /\ room.busy = "upload" /\ TypeOK
      /\ Client.enc = enc /\ room.keys /\ room.sending = "no"
  BY <1>1, RoomIs DEF GoodState
<1>3. ~LooksUp(Client) /\ Len(Client.calls) < MaxDepth
  BY <1>1, <1>2, LoopRuns
<1>4. /\ Sound(Client, db) /\ Typed(Client, db, wire) /\ Bounded(Client, db, wire, ToCome(Client))
      /\ \A p \in DOMAIN Client.calls : Client.calls[p].call \notin {"set", "set_in"}
  BY <1>1, <1>2 DEF Good, Sound, Uploading
<1>5. s \in Session /\ room.from \in Index
  BY <1>1, <1>2 DEF Room
<1>6. /\ y \in Wire /\ y.shared = [wire.shared EXCEPT ![s] = room.from] /\ y.last = wire.last
      /\ y.given = wire.given /\ y.created = wire.created
      /\ y.shared \in [Session -> Index \cup {Nothing}]
      /\ y.last \in [Session -> Index \cup {Nothing}]
  BY <1>2, <1>5 DEF Wire
<1>7. CASE OutSession(Client) = s
  <2> DEFINE u == KeysSet(Client)
  <2>1. PICK file \in BOOLEAN, late \in BOOLEAN :
          LET next == SendFromQueue(u, file, late)
          IN  /\ Becomes(next)
              /\ wire' = [wire EXCEPT !.shared[s] = room.from, !.created = next.created]
    BY <1>7 DEF KeysUploaded
  <2> DEFINE next == SendFromQueue(u, file, late)
  <2>2. /\ Good(u, db, wire) /\ u.calls = Client.calls /\ u.created = Client.created
    BY <1>2, <1>3, <1>4, KeysSetGood
  <2>3. u.room.upload = None /\ u.enc = enc /\ u.queue = Client.queue
    BY <1>2 DEF KeysSet, NoUpload, ClientType, Room
  <2> HIDE DEF u
  <2>4. Good(u, db, y)
    BY <1>6, <2>2, SameGood
  <2>5. AheadState => Ahead(u, db, y)
    <3>1. /\ s = Client.room.upload /\ u.enc.index = Client.enc.index
          /\ u.enc.out \subseteq Client.enc.out \cup {s} /\ u.enc.key \in {Client.enc.key, s}
          /\ y.shared = [wire.shared EXCEPT ![s] = Client.room.from]
      BY <1>2, <1>6, <2>3
    <3> HIDE DEF s, y
    <3> QED BY <1>1, <1>2, <1>6, <2>2, <2>3, <3>1, SharedAhead DEF AheadState
  <2>6. Good(next, db, y) /\ (Ahead(u, db, y) => Ahead(next, db, y))
    BY <1>3, <2>2, <2>4, SendFromQueueGood, SendFromQueueAhead
  <2>7. Becomes(next) /\ wire' = [wire EXCEPT !.shared[s] = room.from, !.created = next.created]
    BY <2>1
  <2> HIDE DEF next
  <2>8. next.created \in 0..MaxSessions
    BY <2>6 DEF Good, Typed, ClientType
  <2>9. /\ wire'.given = y.given /\ wire'.shared = y.shared /\ wire'.last = y.last
        /\ wire'.created = next.created /\ wire' \in Wire
        /\ wire'.shared \in [Session -> Index \cup {Nothing}]
        /\ wire'.last \in [Session -> Index \cup {Nothing}]
    BY <1>2, <1>5, <1>6, <2>7, <2>8 DEF Wire, y
  <2>10. Good(next, db, wire') /\ (Ahead(next, db, y) => Ahead(next, db, wire'))
    BY <2>6, <2>9, SameGood, SameAhead
  <2>11. GoodState' /\ (Ahead(next, db, wire') => AheadState')
    BY <1>2, <2>7, <2>9, <2>10, StepAhead
  <2> QED BY <2>5, <2>6, <2>10, <2>11
<1>8. CASE OutSession(Client) # s
  <2> DEFINE v == SaveOut(Wait(w, "set", s, 0), s)
  <2>1. Becomes(v) /\ wire' = y
    BY <1>8 DEF KeysUploaded
  <2> DEFINE r == [room EXCEPT !.upload = None, !.from = 0]
             in == [enc.inbound EXCEPT ![s] = IF @ = Nothing THEN 0 ELSE @]
             e == [enc EXCEPT !.key = s, !.out = enc.out \cup {s}, !.inbound = in]
  <2>2. 0 \in Index
    BY GroupSessionAssumption DEF Index
  <2>3. /\ r \in Room /\ r.upload = None /\ r.busy = "upload" /\ r.keys /\ r.sending = "no"
        /\ r.checked /\ r.checked = room.checked /\ r.queue = room.queue
    BY <1>2, <2>2 DEF Room
  <2>4. enc \in Enc
    BY <1>2 DEF TypeOK
  <2>5. /\ in \in [Session -> Index \cup {Nothing}] /\ in[s] # Nothing
        /\ \A q \in Session : in[q] = enc.inbound[q] \/ in[q] = 0
    BY <1>5, <2>2, <2>4 DEF Enc, Nothing
  <2> HIDE DEF in
  <2>6. /\ e \in Enc /\ e.key = s /\ e.out = enc.out \cup {s} /\ e.inbound = in
        /\ e.index = enc.index /\ e.state = enc.state
    BY <1>5, <2>4, <2>5 DEF Enc
  <2>7. w = [Client EXCEPT !.room = r, !.enc = e]
    <3>1. Client = [room |-> room, enc |-> enc, calls |-> Client.calls, queue |-> Client.queue,
                    created |-> Client.created]
      BY <1>2 DEF ClientType
    <3>2. NoUpload(Client) = [Client EXCEPT !.room = r]
      BY <1>2, <3>1 DEF NoUpload
    <3> DEFINE c == [Client EXCEPT !.room = r]
    <3>3. c = [room |-> r, enc |-> enc, calls |-> Client.calls, queue |-> Client.queue,
               created |-> Client.created]
      BY <3>1
    <3> HIDE DEF r, c
    <3>4. w = [c EXCEPT !.enc.key = s, !.enc.out = enc.out \cup {s}, !.enc.inbound = in]
      <4>1. c.enc = enc
        BY <3>3
      <4>2. enc.out = c.enc.out /\ c.enc.inbound = enc.inbound
        BY <4>1
      <4>3. w = [c EXCEPT !.enc.key = s, !.enc.out = c.enc.out \cup {s},
                          !.enc.inbound[s] = IF c.enc.inbound[s] = Nothing THEN 0
                                             ELSE c.enc.inbound[s]]
        BY <3>2 DEF c
      <4> QED BY <2>4, <3>3, <4>1, <4>2, <4>3 DEF in, Enc
    <3>5. [c EXCEPT !.enc.key = s, !.enc.out = enc.out \cup {s}, !.enc.inbound = in]
            = [c EXCEPT !.enc = e]
      BY <3>3
    <3>6. [Client EXCEPT !.room = r, !.enc = e] = [c EXCEPT !.enc = e]
      BY DEF c
    <3> QED BY <3>4, <3>5, <3>6
  <2> HIDE DEF w, r, e
  <2>8. /\ w \in ClientType /\ w.room = r /\ w.enc = e /\ w.calls = Client.calls
        /\ w.queue = Client.queue /\ w.created = Client.created
    BY <1>2, <2>3, <2>6, <2>7 DEF ClientType
  <2>9. Uploading(w)
    BY <1>4, <2>3, <2>8 DEF Uploading
  <2>10. Typed(w, db, wire) /\ Sound(w, db)
    <3>1. w.enc.index = Client.enc.index /\ Client.room.checked
      BY <1>2, <2>6, <2>8
    <3>2. w.room.sending = Client.room.sending /\ w.room.checked = Client.room.checked
      BY <1>2, <2>3, <2>8
    <3> QED BY <1>3, <1>4, <2>8, <2>9, <3>1, <3>2, RoomChanged
  <2>11. ToCome(w) = ToCome(Client)
    BY <1>2, <2>3, <2>8 DEF ToCome
  <2>12. Bounded(w, db, wire, ToCome(w))
    BY <1>2, <1>4, <2>5, <2>6, <2>8, <2>11 DEF Bounded
  <2>13. Good(w, db, y)
    <3>1. Good(w, db, wire)
      BY <2>10, <2>12 DEF Good
    <3> QED BY <1>6, <3>1, SameGood
  <2>14. AheadState => Ahead(w, db, y)
    <3>1. /\ s = Client.room.upload /\ w.enc.index = Client.enc.index
          /\ w.enc.out \subseteq Client.enc.out \cup {s} /\ w.enc.key \in {Client.enc.key, s}
          /\ y.shared = [wire.shared EXCEPT ![s] = Client.room.from]
          /\ w.room.upload = None
      BY <1>2, <1>6, <2>3, <2>6, <2>8
    <3> HIDE DEF s, y
    <3> QED BY <1>1, <1>2, <1>6, <2>8, <3>1, SharedAhead DEF AheadState
  <2> DEFINE i == w.enc.index[s]
             st == w.enc.state[s]
             f == [call |-> "set", session |-> s, index |-> 0, done |-> FALSE]
             t == [at |-> Len(w.calls) + 1, kind |-> "out", session |-> s, index |-> i,
                   state |-> st]
  <2>15. i \in Index /\ st \in State /\ "out" \in Kind
    BY <1>5, <2>8 DEF ClientType, Enc, Kind
  <2>16. v = Save(Wait(w, "set", s, 0), s, "out", i, st)
    <3>1. Wait(w, "set", s, 0).enc = w.enc
      BY <2>8 DEF Wait, ClientType
    <3> QED BY <3>1 DEF SaveOut
  <2>17. WaitsFor(w, v, f, t)
    <3> HIDE DEF i, st
    <3>1. WaitsFor(w, Save(Wait(w, "set", s, 0), s, "out", i, st), f, t)
      BY <1>3, <1>5, <2>2, <2>8, <2>15, Waits
    <3> QED BY <2>16, <3>1
  <2>18. /\ f.call = "set" /\ f.session = s /\ f.index = 0 /\ ~f.done
         /\ t.kind = "out" /\ t.session = s /\ t.index = i
    OBVIOUS
  <2> HIDE DEF v, f, t, i, s, y
  <2>19. Matches(t, f)
    BY <1>5, <2>18 DEF Matches
  <2>20. 0 + ToCome(w) <= y.given /\ i + ToCome(w) <= y.given
    BY <1>5, <2>13 DEF Good, Bounded, i
  <2>21. /\ w.room.checked /\ ~LooksUp(w) /\ w.room.busy = "upload" /\ w.room.upload = None
         /\ w.enc.inbound[s] # Nothing
         /\ \A p \in DOMAIN w.calls : w.calls[p].call \notin {"set", "set_in"}
    BY <1>3, <1>4, <2>3, <2>5, <2>6, <2>8 DEF LooksUp
  <2>22. Good(v, db, y)
    BY <2>13, <2>17, <2>18, <2>19, <2>20, <2>21, WaitsGood
  <2>23. Ahead(w, db, y) => Ahead(v, db, y)
    <3>1. Ahead(w, db, y) => s <= w.created
      BY <2>6, <2>8 DEF Ahead, New
    <3>2. s \in w.enc.out
      BY <2>6, <2>8
    <3> QED BY <2>13, <2>17, <2>18, <2>19, <3>1, <3>2, WaitsAhead DEF i
  <2>24. v.created = wire'.created /\ wire' \in Wire
    BY <1>2, <1>6, <2>1, <2>8, <2>17 DEF WaitsFor
  <2>25. Good(v, db, wire') /\ (Ahead(v, db, y) => Ahead(v, db, wire'))
    BY <2>1, <2>22
  <2>26. GoodState' /\ (Ahead(v, db, wire') => AheadState')
    BY <1>2, <2>1, <2>24, <2>25, StepAhead
  <2> QED BY <2>14, <2>23, <2>25, <2>26
<1> QED BY <1>7, <1>8

\* DeviceRemoved: the session is stored as it is, and is not used again.
LEMMA DeviceRemovedStep ==
  ASSUME GoodState, DeviceRemoved
  PROVE  GoodState' /\ (AheadState => AheadState')
<1> DEFINE s == OutSession(Client)
           w == [Client EXCEPT !.enc.out = @ \ {s},
                               !.enc.state[s] = IF @ = "usable" THEN "invalidated" ELSE @]
<1>1. /\ Iterates /\ wire.changes < MaxChanges /\ wire' = [wire EXCEPT !.changes = @ + 1]
      /\ IF s = None THEN Becomes(Removed(Client))
         ELSE Becomes(SaveOut(Wait(w, "rm", s, 0), s))
  BY DEF DeviceRemoved
<1>2. /\ Client.room = room /\ room \in Room /\ Client.calls = calls /\ Client \in ClientType
      /\ Client.created = wire.created /\ wire \in Wire /\ Client.enc = enc
      /\ Good(Client, db, wire) /\ enc \in Enc
  BY RoomIs DEF GoodState, TypeOK
<1>3. /\ wire' \in Wire /\ wire'.created = wire.created /\ wire'.given = wire.given
      /\ wire'.shared = wire.shared /\ wire'.last = wire.last
  <2>1. wire.changes + 1 \in 0..MaxChanges
    BY <1>1, <1>2, GroupSessionAssumption DEF Wire
  <2> QED BY <1>1, <1>2, <2>1 DEF Wire
<1>4. CASE s = None
  <2> DEFINE v == Removed(Client)
  <2>1. ~Client.room.checked => Client.enc.key = None
    BY <1>2 DEF Good, Sound, Lookups
  <2>2. /\ Good(v, db, wire) /\ (Ahead(Client, db, wire) => Ahead(v, db, wire))
        /\ v.created = Client.created
    BY <1>2, <2>1, RemovedGood
  <2>3. Becomes(v)
    BY <1>1, <1>4
  <2> HIDE DEF v
  <2>4. GoodState' /\ (Ahead(v, db, wire) => AheadState')
    BY <1>2, <1>3, <2>2, <2>3, PlainStep
  <2> QED BY <2>2, <2>4 DEF AheadState
<1>5. CASE s # None
  <2> DEFINE v == SaveOut(Wait(w, "rm", s, 0), s)
             e == [enc EXCEPT !.out = @ \ {s},
                              !.state[s] = IF @ = "usable" THEN "invalidated" ELSE @]
  <2>1. Becomes(v)
    BY <1>1, <1>5
  <2>2. s \in Session /\ s \in enc.out /\ s = enc.key
    BY <1>2, <1>5 DEF OutSession, Enc
  <2>3. /\ Sound(Client, db) /\ Typed(Client, db, wire) /\ Bounded(Client, db, wire, ToCome(Client))
    BY <1>2 DEF Good
  <2>4. room.checked /\ ~LooksUp(Client) /\ Len(Client.calls) < MaxDepth
    <3>1. room.checked
      BY <1>2, <2>2, <2>3 DEF Sound, Lookups
    <3> QED BY <1>1, <1>2, <3>1, LoopRuns
  <2>5. /\ e \in Enc /\ e.key = enc.key /\ e.out \subseteq enc.out /\ e.inbound = enc.inbound
        /\ e.index = enc.index /\ e.state[s] \in State /\ e.state[s] # "usable"
    BY <1>2, <2>2 DEF Enc, State
  <2>6. w = [Client EXCEPT !.enc = e]
    <3>1. w = [Client EXCEPT !.enc.out = enc.out \ {s},
                  !.enc.state[s] = IF enc.state[s] = "usable" THEN "invalidated" ELSE enc.state[s]]
      BY <1>2
    <3> HIDE DEF s, w
    <3> QED BY <1>2, <3>1 DEF ClientType
  <2> HIDE DEF w, e, s
  <2>7. /\ w \in ClientType /\ w.room = room /\ w.enc = e /\ w.calls = Client.calls
        /\ w.queue = Client.queue /\ w.created = Client.created
    BY <1>2, <2>5, <2>6 DEF ClientType
  <2>8. Uploading(w)
    BY <1>2, <2>3, <2>5, <2>7 DEF Uploading, Sound
  <2>9. Typed(w, db, wire) /\ Sound(w, db)
    <3>1. w.enc.index = Client.enc.index /\ Client.room.checked
      BY <1>2, <2>4, <2>5, <2>7
    <3>2. w.room = Client.room
      BY <1>2, <2>7
    <3> QED BY <2>3, <2>4, <2>7, <2>8, <3>1, <3>2, RoomChanged
  <2>10. ToCome(w) = ToCome(Client)
    BY <1>2, <2>7 DEF ToCome
  <2>11. Good(w, db, wire)
    <3>1. Bounded(w, db, wire, ToCome(w))
      BY <1>2, <2>3, <2>5, <2>7, <2>10 DEF Bounded
    <3> QED BY <2>9, <3>1 DEF Good
  <2>12. AheadState => Ahead(w, db, wire)
    BY <1>2, <2>5, <2>7, RoomAhead DEF AheadState
  <2> DEFINE i == w.enc.index[s]
             st == w.enc.state[s]
             f == [call |-> "rm", session |-> s, index |-> 0, done |-> FALSE]
             t == [at |-> Len(w.calls) + 1, kind |-> "out", session |-> s, index |-> i,
                   state |-> st]
  <2>13. /\ i \in Index /\ st \in State /\ "out" \in Kind /\ 0 \in Index /\ st # "usable"
    BY <2>2, <2>5, <2>7, GroupSessionAssumption DEF ClientType, Enc, Kind, Index
  <2>14. v = Save(Wait(w, "rm", s, 0), s, "out", i, st)
    <3>1. Wait(w, "rm", s, 0).enc = w.enc
      BY <2>7 DEF Wait, ClientType
    <3> QED BY <3>1 DEF SaveOut
  <2>15. WaitsFor(w, v, f, t)
    <3> HIDE DEF i, st
    <3>1. WaitsFor(w, Save(Wait(w, "rm", s, 0), s, "out", i, st), f, t)
      BY <2>2, <2>4, <2>7, <2>13, Waits
    <3> QED BY <2>14, <3>1
  <2>16. /\ f.call = "rm" /\ f.session = s /\ f.index = 0 /\ ~f.done
         /\ t.kind = "out" /\ t.session = s /\ t.index = i /\ t.state # "usable"
    BY <2>13
  <2> HIDE DEF v, f, t, i
  <2>17. Matches(t, f)
    BY <2>2, <2>16 DEF Matches
  <2>18. 0 + ToCome(w) <= wire.given /\ i + ToCome(w) <= wire.given
    BY <2>2, <2>11 DEF Good, Bounded, i
  <2>19. w.room.checked /\ ~LooksUp(w)
    BY <2>4, <2>7 DEF LooksUp
  <2>20. Good(v, db, wire)
    BY <2>11, <2>15, <2>16, <2>17, <2>18, <2>19, WaitsGood
  <2>21. AheadState => Ahead(v, db, wire)
    <3>1. AheadState => s <= w.created
      BY <1>2, <2>2, <2>7 DEF AheadState, Ahead, New
    <3> QED BY <2>11, <2>12, <2>15, <2>16, <2>17, <3>1, WaitsAhead DEF i
  <2>22. v.created = wire.created
    BY <1>2, <2>7, <2>15 DEF WaitsFor
  <2>23. GoodState' /\ (Ahead(v, db, wire) => AheadState')
    BY <1>3, <2>1, <2>20, <2>22, PlainStep
  <2> QED BY <2>21, <2>23
<1> QED BY <1>4, <1>5

\* The first state is good.
LEMMA InitGood ==
  ASSUME Init
  PROVE  GoodState /\ AheadState
<1> DEFINE rows == [q \in Session |-> [type |-> "none", pickle |-> "out", index |-> 0,
                                       state |-> "usable"]]
           none == [q \in Session |-> Nothing]
           v == Client
<1>1. /\ room = NewRoom /\ enc = NewEnc /\ calls = <<>>
      /\ db = [queue |-> <<>>, running |-> <<>>, row |-> rows]
      /\ wire = [shared |-> none, last |-> none, created |-> 0, given |-> 0, changes |-> 0,
                 starts |-> 0]
  BY DEF Init
<1>2. /\ 0 \in Index /\ MaxDepth \in Nat /\ MaxMessages \in Nat /\ MaxSessions \in Nat
      /\ MaxChanges \in Nat /\ MaxStarts \in Nat
  BY GroupSessionAssumption DEF Index
<1>3. rows \in [Session -> Row] /\ none \in [Session -> Index \cup {Nothing}]
  BY <1>2 DEF Row, Kind, State
<1>4. db \in Db /\ db.queue = <<>> /\ db.running = <<>> /\ db.row = rows
  <2>1. <<>> \in Seq(Task)
    OBVIOUS
  <2> HIDE DEF rows
  <2> QED BY <1>1, <1>3, <2>1 DEF Db, Row
<1>5. /\ wire \in Wire /\ wire.given = 0 /\ wire.shared = none /\ wire.last = none
      /\ wire.created = 0
  <2> HIDE DEF none
  <2> QED BY <1>1, <1>2, <1>3 DEF Wire
<1>6. NewRoom \in Room /\ NewEnc \in Enc
  BY <1>2 DEF NewRoom, NewEnc, Room, Enc, State
<1>7. <<>> \in Seq(Frame) /\ Len(<<>>) <= MaxDepth /\ DOMAIN <<>> = {}
  BY <1>2
<1>8. TypeOK
  BY <1>1, <1>4, <1>5, <1>6, <1>7 DEF TypeOK
<1>9. /\ v.room = NewRoom /\ v.enc = NewEnc /\ v.calls = <<>> /\ v.queue = <<>>
      /\ v.created = 0 /\ v \in ClientType
  BY <1>1, <1>4, <1>5, <1>8, ClientIs
<1>10. TasksOf(<<>>, <<>>) = {} /\ ToSet(<<>>) = {}
  BY <1>7 DEF TasksOf, ToSet
<1>11. /\ NewRoom.queue = 0 /\ NewRoom.sending = "no" /\ ~NewRoom.claimed /\ NewRoom.busy = "no"
       /\ NewRoom.upload = None /\ ~NewRoom.checked
       /\ NewEnc.key = None /\ NewEnc.out = {}
       /\ \A q \in Session : NewEnc.index[q] = 0 /\ NewEnc.inbound[q] = Nothing
  BY DEF NewRoom, NewEnc
<1>12. \A q \in Session : /\ rows[q].type = "none" /\ rows[q].index = 0 /\ none[q] = Nothing
  OBVIOUS
<1> HIDE DEF v, rows, none
<1>13. Tasks(v.calls, v.queue, db.running) /\ InOrder(v.calls, v.queue, db.running)
  BY <1>4, <1>7, <1>9, <1>10 DEF Tasks, InOrder
<1>14. Encrypting(v) /\ Uploading(v) /\ Lookups(v, db)
  BY <1>7, <1>9, <1>11, <1>13 DEF Encrypting, Uploading, Lookups, LooksUp, Quiet
<1>15. Typed(v, db, wire)
  BY <1>3, <1>4, <1>5, <1>7, <1>9 DEF Typed, Wire
<1>16. Bounded(v, db, wire, ToCome(v))
  <2>1. ToCome(v) = 0
    BY <1>9, <1>11 DEF ToCome
  <2> QED BY <1>4, <1>5, <1>7, <1>9, <1>10, <1>11, <1>12, <2>1 DEF Bounded, Nothing
<1>17. GoodState
  BY <1>8, <1>13, <1>14, <1>15, <1>16 DEF GoodState, Good, Sound, v
<1>18. New(v, db, wire) /\ Current(v, db) /\ Kept(v, wire) /\ Saved(db, wire) /\ Written(v, db)
  BY <1>4, <1>5, <1>7, <1>9, <1>10, <1>11, <1>12
     DEF New, Current, Kept, Saved, Written, IsOut, InUse, None
<1> QED BY <1>17, <1>18 DEF AheadState, Ahead, v

-----------------------------------------------------------------------------
(* The theorems.                                                           *)

\* Every step keeps the state good; and ahead, if every pickle is stored.
LEMMA NextGood ==
  ASSUME GoodState, [Next]_vars
  PROVE  GoodState' /\ ("save" \notin Fails /\ AheadState => AheadState')
<1>1. CASE UNCHANGED vars
  BY SMTT(20), <1>1
  DEF vars, GoodState, AheadState, TypeOK, Client, Top, Good, Ahead, Typed, Bounded, Sound,
      Lookups, New, Current, Kept, Saved, Written
<1>2. CASE Return
  BY <1>2, EncryptReturnsStep, SetReturnsStep, SetInReturnsStep, RmReturnsStep,
     LookupReturnsStep DEF Return
<1>3. CASE Worker
  BY <1>3, WorkerTakesStep, WorkerStoresStep, WorkerLooksUpStep DEF Worker
<1>4. CASE Answer
  BY <1>4, KeysClaimedStep, KeysUploadedStep, UploadFailedStep, FileUploadedStep,
     MessageSentStep DEF Answer
<1>5. CASE Send \/ DeviceRemoved \/ MembersChanged \/ Restart
  BY <1>5, SendStep, DeviceRemovedStep, MembersChangedStep, RestartStep
<1> QED BY <1>1, <1>2, <1>3, <1>4, <1>5 DEF Next

\* The inductive invariant of the room, its sessions, the calls that wait and their
\* tasks, whatever fails.
THEOREM GroupSessionGood == Spec => []GoodState
<1>1. Init => GoodState
  BY InitGood
<1>2. GoodState /\ [Next]_vars => GoodState'
  BY NextGood
<1> QED BY <1>1, <1>2, PTL DEF Spec

\* Every field keeps its type, and no index exceeds the messages of the application.
THEOREM GroupSessionTyped == Spec => []TypeOK
<1>1. GoodState => TypeOK
  BY DEF GoodState
<1> QED BY <1>1, GroupSessionGood, PTL

\* While the key of a session is on its way (room_upload_keys()) nothing is encrypted,
\* so that the key is that of the next message when the answer comes.
THEOREM UploadStaysCurrent == Spec => []UploadIsCurrent
<1>1. GoodState => UploadIsCurrent
  <2> SUFFICES ASSUME GoodState, room.upload # None
               PROVE  /\ room.sending \notin {"file", "encrypting"}
                      /\ room.from = enc.index[room.upload]
    BY DEF UploadIsCurrent
  <2> QED BY RoomIs DEF Good, Sound, Uploading
<1> QED BY <1>1, GroupSessionGood, PTL

\* If every pickle is stored, every session the room has, takes up, shares or stores
\* is ahead of all that was sent with it.
THEOREM GroupSessionAhead ==
  ASSUME "save" \notin Fails
  PROVE  Spec => []AheadState
<1>1. Init => GoodState /\ AheadState
  BY InitGood
<1>2. GoodState /\ AheadState /\ [Next]_vars => GoodState' /\ AheadState'
  BY NextGood
<1> QED BY <1>1, <1>2, PTL DEF Spec

\* If every pickle is stored, the row a start would take up (cm_enc_has_room_group_key())
\* is ahead of every message that was sent with its session.
THEOREM SavedStaysAhead ==
  ASSUME "save" \notin Fails
  PROVE  Spec => []SavedIsAhead
<1>1. AheadState /\ GoodState => SavedIsAhead
  <2> SUFFICES ASSUME AheadState, GoodState, NEW s \in Session, IsOut(db.row[s])
               PROVE  db.row[s].index > wire.last[s]
    BY DEF SavedIsAhead, IsOut
  <2>1. Fresh(wire, s, db.row[s].index)
    BY DEF AheadState, Ahead, Saved
  <2>2. db.row[s].index \in Int /\ wire.last[s] \in Int
    BY DEF GoodState, TypeOK, Db, Wire, Index, Nothing
  <2> QED BY <2>1, <2>2 DEF Fresh
<1>2. Spec => []GoodState
  BY GroupSessionGood
<1>3. Spec => []AheadState
  BY GroupSessionAhead
<1> QED BY <1>1, <1>2, <1>3, PTL

-----------------------------------------------------------------------------
(* The room implements Ratchet.                                            *)

\* A message that is handed to the network is a message of Ratchet.
LEMMA EncryptSends ==
  ASSUME GoodState, AheadState, EncryptReturns
  PROVE  Sessions!Next
<1> DEFINE s == Top.session
           i == Top.index
<1>1. /\ Good(Returned(Client), db, wire) /\ CallDone(Client, Returned(Client), Top)
      /\ Top.call = "encrypt"
  BY CallReturns DEF EncryptReturns
<1>2. Sound(Client, db) /\ wire \in Wire /\ Kept(Client, wire) /\ Encrypting(Client)
  BY DEF GoodState, AheadState, Good, Sound, TypeOK, Ahead
<1>3. /\ Len(Client.calls) \in DOMAIN Client.calls /\ Client.calls[Len(Client.calls)] = Top
      /\ Top \in Frame
  BY <1>1 DEF CallDone
<1>4. i \in Index /\ s \in Session /\ Fresh(wire, s, i)
  <2>1. i \in Index
    BY <1>3 DEF Frame
  <2>2. s \in Session
    BY <1>1, <1>2, <1>3 DEF Encrypting
  <2>3. Fresh(wire, s, i)
    BY <1>1, <1>2, <1>3 DEF Kept
  <2> QED BY <2>1, <2>2, <2>3
<1>5. wire' = [wire EXCEPT !.last[s] = i]
  BY DEF EncryptReturns
<1> HIDE DEF s, i
<1>6. /\ wire'.shared = wire.shared /\ wire'.last = [wire.last EXCEPT ![s] = i]
      /\ wire.shared[s] \in Int /\ wire.last[s] \in Int /\ i \in 0..MaxMessages
  BY <1>2, <1>4, <1>5 DEF Wire, Index, Nothing
<1>7. Sessions!Send(s, i)
  BY <1>4, <1>6 DEF Sessions!Send, Sessions!Nothing, Fresh, Nothing
<1> QED BY <1>4, <1>6, <1>7 DEF Sessions!Next, Sessions!Index

\* So is a key that is shared.
LEMMA UploadShares ==
  ASSUME GoodState, AheadState, KeysUploaded
  PROVE  Sessions!Next
<1> DEFINE s == room.upload
           i == room.from
<1>1. wire \in Wire /\ Kept(Client, wire) /\ room \in Room /\ s # None /\ Client.room = room
  BY DEF GoodState, AheadState, TypeOK, Ahead, KeysUploaded, Client
<1>2. /\ s \in Session /\ i \in Index /\ i \in Int
      /\ wire.shared[s] <= i /\ wire.last[s] < i
  BY <1>1 DEF Room, Kept, Index
<1>3. \/ wire' = [wire EXCEPT !.shared[s] = i]
      \/ \E n : wire' = [wire EXCEPT !.shared[s] = i, !.created = n]
  BY DEF KeysUploaded
<1> HIDE DEF s, i
<1>4. /\ wire'.last = wire.last /\ wire'.shared = [wire.shared EXCEPT ![s] = i]
      /\ wire.shared[s] \in Int /\ wire.last[s] \in Int
  <2>1. wire.shared[s] \in Int /\ wire.last[s] \in Int
    BY <1>1, <1>2 DEF Wire, Index, Nothing
  <2>2. CASE wire' = [wire EXCEPT !.shared[s] = i]
    BY <1>1, <2>1, <2>2 DEF Wire
  <2>3. ASSUME NEW n, wire' = [wire EXCEPT !.shared[s] = i, !.created = n]
        PROVE  wire'.last = wire.last /\ wire'.shared = [wire.shared EXCEPT ![s] = i]
    BY <1>1, <2>3 DEF Wire
  <2> QED BY <1>3, <2>1, <2>2, <2>3
<1>5. Sessions!Share(s, i)
  BY <1>2, <1>4 DEF Sessions!Share
<1> QED BY <1>2, <1>5 DEF Sessions!Next, Sessions!Index, Index

\* No other step changes what was sent or shared.
LEMMA OthersStutter ==
  ASSUME wire \in Wire, [Next]_vars, ~EncryptReturns, ~KeysUploaded
  PROVE  wire'.shared = wire.shared /\ wire'.last = wire.last
<1>1. ASSUME NEW n, wire' = [wire EXCEPT !.created = n]
      PROVE  wire'.shared = wire.shared /\ wire'.last = wire.last
  BY <1>1 DEF Wire
<1>2. ASSUME NEW n, NEW m, wire' = [wire EXCEPT !.given = m, !.created = n]
      PROVE  wire'.shared = wire.shared /\ wire'.last = wire.last
  BY <1>2 DEF Wire
<1>3. ASSUME NEW w, GoesOn(w)
      PROVE  wire'.shared = wire.shared /\ wire'.last = wire.last
  BY <1>1, <1>3 DEF GoesOn
<1>4. CASE UNCHANGED vars
  BY <1>4 DEF vars
<1>5. CASE SetReturns \/ RmReturns
  BY <1>5 DEF SetReturns, RmReturns
<1>6. CASE SetInReturns
  BY <1>3, <1>6 DEF SetInReturns
<1>7. CASE LookupReturns
  BY <1>1, <1>7 DEF LookupReturns
<1>8. CASE Worker
  BY <1>8 DEF Worker, WorkerTakes, WorkerStores, WorkerLooksUp
<1>9. CASE KeysClaimed
  BY <1>3, <1>9 DEF KeysClaimed
<1>10. CASE UploadFailed \/ MessageSent
  BY <1>10 DEF UploadFailed, MessageSent
<1>11. CASE FileUploaded
  BY <1>3, <1>11 DEF FileUploaded
<1>12. CASE Send
  BY <1>2, <1>12 DEF Send
<1>13. CASE DeviceRemoved \/ MembersChanged
  BY <1>13 DEF DeviceRemoved, MembersChanged, Wire
<1>14. CASE Restart
  BY <1>14 DEF Restart, Wire
<1> QED
  BY <1>4, <1>5, <1>6, <1>7, <1>8, <1>9, <1>10, <1>11, <1>12, <1>13, <1>14
  DEF Next, Return, Answer

\* If every pickle is stored, no index of a session is used for two messages and none
\* before its key was shared, over all starts.  cm_olm_save() does not tell its caller
\* that a pickle was not stored, hence the assumption.
THEOREM RoomImplementsRatchet ==
  ASSUME "save" \notin Fails
  PROVE  Spec => ImplementsRatchet
<1>1. Init => Sessions!Init
  BY DEF Init, Sessions!Init, Nothing, Sessions!Nothing
<1>2. GoodState /\ AheadState /\ [Next]_vars => [Sessions!Next]_(Sessions!vars)
  <2> SUFFICES ASSUME GoodState, AheadState, [Next]_vars
               PROVE  Sessions!Next \/ UNCHANGED Sessions!vars
    OBVIOUS
  <2>1. wire \in Wire
    BY DEF GoodState, TypeOK
  <2> QED BY <2>1, EncryptSends, UploadShares, OthersStutter DEF Sessions!vars
<1>3. Spec => []GoodState
  BY GroupSessionGood
<1>4. Spec => []AheadState
  BY GroupSessionAhead
<1> QED BY <1>1, <1>2, <1>3, <1>4, PTL DEF Spec, ImplementsRatchet, Sessions!Spec

===============================================================================
