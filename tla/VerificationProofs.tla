-------------------------- MODULE VerificationProofs --------------------------
(***************************************************************************)
(* Proofs about Verification, for any ages and any number of calls.        *)
(*                                                                         *)
(* An answer to sync brings any number of messages, and Read handles them  *)
(* one after the other: that it keeps the invariant is an induction over   *)
(* their number.  Good is an operator of the verification, the requests    *)
(* and what is stored, so that it can be said of each value of Read; c     *)
(* says whether our user has confirmed.                                    *)
(***************************************************************************)
EXTENDS Verification, WellFoundedInduction, TLAPS

-----------------------------------------------------------------------------
(* Induction over a set of numbers.  It is stated of the set of those of   *)
(* which something is true, so that no operator is its parameter.          *)

\* What is true of 0, and of the next number if it is of a number, is true of all.
LEMMA Induction ==
  ASSUME NEW T, 0 \in T, \A n \in Nat : n \in T => n + 1 \in T
  PROVE  \A n \in Nat : n \in T
<1> SUFFICES ASSUME Nat \ T # {} PROVE FALSE
  OBVIOUS
<1> DEFINE R == {p \in Nat \X Nat : p[1] < p[2]}
<1>1. IsWellFoundedOn(R, Nat)
  BY NatLessThanWellFounded DEF OpToRel
<1>2. \A x, y \in Nat : y < x => <<y, x>> \in R
  OBVIOUS
<1> HIDE DEF R
<1>3. PICK x \in Nat \ T : \A y \in Nat \ T : <<y, x>> \notin R
  BY <1>1, WFMin
<1>4. x # 0 /\ x - 1 \in Nat /\ x - 1 < x /\ x - 1 + 1 = x
  BY <1>3
<1>5. x - 1 \in T
  <2>1. <<x - 1, x>> \in R
    BY <1>2, <1>3, <1>4
  <2> QED BY <1>3, <1>4, <2>1
<1>6. x \in T
  BY <1>4, <1>5
<1> QED BY <1>6

-----------------------------------------------------------------------------
\* Marks that are no message of the other device.
Own == {"ready-complete", "mac-sent", "completed"}
Marks(s) == IF s = NULL THEN {} ELSE s.marks
Gen(s) == IF s = NULL THEN 0 ELSE s.gen
Begins(m) == m.type \in {"request", "start"}

\* c: whether our user said that the emojis match
SasGood(s, c) ==
  /\ s \in Sas
  /\ "ready-complete" \in s.marks <=> s.pending # NULL
  /\ s.verified => {"key", "mac"} \subseteq s.marks
  /\ s.emojis => s.pub_key /\ "key" \in s.marks
  /\ s.listed => "completed" \notin s.marks
  /\ "mac" \in s.marks => s.verified \/ s.code # NULL
  /\ "mac-sent" \in s.marks => c

\* What a request says of its verification: our MAC goes out once our user has
\* confirmed, and the end once both have.
RequestGood(r, s, c) ==
  /\ r \in Request
  /\ r.kind \in {"ready", "accept"} => r.call \in Call
  /\ r.kind = "mac" => c
  /\ r.gen <= Gen(s)
  /\ r.kind = "done" /\ s # NULL /\ s.gen = r.gen => c /\ s.verified

\* A verification s, requests f and the stored device d.
Good(s, f, d, c) ==
  /\ s = NULL \/ SasGood(s, c)
  /\ \A r \in BagToSet(f) : RequestGood(r, s, c)
  /\ d \in BOOLEAN
  /\ d => s # NULL /\ c /\ s.verified

\* What the messages of an answer are handled with
Acc(acc) ==
  acc = [sas |-> acc.sas, flight |-> acc.flight, stored |-> acc.stored, stop |-> acc.stop]

-----------------------------------------------------------------------------
(* Messages.                                                               *)

\* What the assumption says of NULL, without the set of all verifications.
LEMMA Assumed ==
  /\ \A s \in Sas : s # NULL
  /\ \A call \in Call : call # NULL
  /\ NULL \notin Code /\ Age \subseteq Int
BY VerificationAssumption

\* One more request in the bag.
LEMMA BagAdded ==
  ASSUME NEW f, NEW kind, NEW call, NEW gen
  PROVE  BagToSet(Requested(f, kind, call, gen)) =
           BagToSet(f) \cup {[kind |-> kind, call |-> call, gen |-> gen]}
BY DEF Requested, BagToSet, SetToBag, (+)

\* A request leaves the bag.
LEMMA BagTaken ==
  ASSUME NEW f, NEW r
  PROVE  BagToSet(f (-) SetToBag({r})) \subseteq BagToSet(f)
BY DEF BagToSet, SetToBag, (-)

\* The verification that Matched() makes of s, before verification_event_updated_cb()
MatchedSas(sa, m) ==
  LET s == [sa EXCEPT !.marks = @ \cup {m.type}]
  IN  CASE m.type = "start"  -> ParseStart(s, m)
        [] m.type = "mac"    -> ParseMac(s, m)
        [] m.type = "cancel" -> IF s.code = NULL THEN [s EXCEPT !.code = "timeout"] ELSE s
        [] m.type = "key"    -> [s EXCEPT !.emojis = @ \/ s.pub_key]
        [] OTHER             -> s

\* ... and that it does.
LEMMA MatchedIs ==
  ASSUME NEW acc, Acc(acc), NEW m
  PROVE  Matched(acc, m) = Updated([acc EXCEPT !.sas = MatchedSas(acc.sas, m)])
BY DEF Matched, MatchedSas

\* cm_olm_sas_matches_event() keeps the data together, and forgets no error: a MAC that
\* arrives leaves a verified device or an error.
LEMMA SasMatches ==
  ASSUME NEW c \in BOOLEAN, NEW s, SasGood(s, c), NEW m \in Message,
         NEW v, v = MatchedSas(s, m)
  PROVE  /\ SasGood(v, c) /\ v.gen = s.gen /\ v.type = s.type /\ v.listed = s.listed
         /\ v.marks = s.marks \cup {m.type} /\ v.pending = s.pending
         /\ s.verified => v.verified
         /\ s.code # NULL => v.code # NULL
<1> DEFINE u == [s EXCEPT !.marks = @ \cup {m.type}]
<1>1. m.type \in {"request", "start", "key", "mac", "done", "cancel"} /\ m.ok \in BOOLEAN
  BY DEF Message
<1>2. s \in Sas
  BY DEF SasGood
<1>3. /\ u \in Sas /\ u.marks = s.marks \cup {m.type} /\ u.gen = s.gen /\ u.type = s.type
      /\ u.listed = s.listed /\ u.pending = s.pending /\ u.verified = s.verified
      /\ u.code = s.code /\ u.emojis = s.emojis /\ u.pub_key = s.pub_key
  BY <1>1, <1>2 DEF Sas, Mark
<1>4. {"unknown_method", "timeout", "unexpected_message", "key_mismatch"} \subseteq Code
  BY DEF Code
<1>5. NULL \notin Code
  BY Assumed
<1> HIDE DEF u
<1>6. CASE m.type = "start"
  <2>1. v = IF ~m.ok THEN [u EXCEPT !.code = "unknown_method"] ELSE u
    BY <1>6 DEF MatchedSas, ParseStart, u
  <2> QED BY <1>2, <1>3, <1>4, <1>5, <1>6, <2>1 DEF Sas, SasGood
<1>7. CASE m.type = "mac"
  <2>1. v = ParseMac(u, m)
    BY <1>7 DEF MatchedSas, u
  <2>2. CASE "key" \notin u.marks /\ u.code = NULL
    <3>1. v = [u EXCEPT !.code = "unexpected_message"]
      BY <2>1, <2>2 DEF ParseMac
    <3> QED BY <1>2, <1>3, <1>4, <1>5, <1>7, <3>1 DEF Sas, SasGood
  <2>3. CASE u.verified \/ u.code # NULL
    <3>1. u.verified => "key" \in u.marks
      BY <1>3 DEF SasGood
    <3>2. v = u
      BY <2>1, <2>3, <3>1 DEF ParseMac
    <3> QED BY <1>2, <1>3, <1>4, <1>5, <1>7, <2>3, <3>2 DEF Sas, SasGood
  <2>4. CASE "key" \in u.marks /\ u.code = NULL /\ ~u.verified
    <3>1. v = IF m.ok THEN [u EXCEPT !.verified = TRUE] ELSE [u EXCEPT !.code = "key_mismatch"]
      BY <2>1, <2>4 DEF ParseMac
    <3>2. CASE m.ok
      <4>1. v = [u EXCEPT !.verified = TRUE]
        BY <3>1, <3>2
      <4>2. /\ v \in Sas /\ v.verified /\ v.code = u.code /\ v.marks = u.marks
            /\ v.pending = u.pending /\ v.emojis = u.emojis /\ v.pub_key = u.pub_key
            /\ v.listed = u.listed /\ v.gen = u.gen /\ v.type = u.type
        BY <1>3, <4>1 DEF Sas
      <4> QED BY <1>2, <1>3, <1>7, <2>4, <4>2 DEF SasGood
    <3>3. CASE ~m.ok
      <4>1. v = [u EXCEPT !.code = "key_mismatch"]
        BY <3>1, <3>3
      <4> QED BY <1>2, <1>3, <1>4, <1>5, <1>7, <2>4, <4>1 DEF Sas, SasGood
    <3> QED BY <3>2, <3>3
  <2> QED BY <2>2, <2>3, <2>4
<1>8. CASE m.type = "cancel"
  <2>1. v = IF u.code = NULL THEN [u EXCEPT !.code = "timeout"] ELSE u
    BY <1>8 DEF MatchedSas, u
  <2> QED BY <1>2, <1>3, <1>4, <1>5, <1>8, <2>1 DEF Sas, SasGood
<1>9. CASE m.type = "key"
  <2>1. v = [u EXCEPT !.emojis = @ \/ u.pub_key]
    BY <1>9 DEF MatchedSas, u
  <2> QED BY <1>2, <1>3, <1>4, <1>5, <1>9, <2>1 DEF Sas, SasGood
<1>10. CASE m.type \in {"request", "done"}
  <2>1. v = u
    BY <1>10 DEF MatchedSas, u
  <2> QED BY <1>2, <1>3, <1>4, <1>5, <1>10, <2>1 DEF Sas, SasGood
<1> QED BY <1>1, <1>6, <1>7, <1>8, <1>9, <1>10

\* A message that leaves no error is no cancel, and no start with an unknown method.
LEMMA MatchedCode ==
  ASSUME NEW c \in BOOLEAN, NEW s, SasGood(s, c), NEW m \in Message,
         MatchedSas(s, m).code = NULL
  PROVE  m.type # "cancel" /\ (m.type = "start" => m.ok)
<1> DEFINE u == [s EXCEPT !.marks = @ \cup {m.type}]
           v == MatchedSas(s, m)
<1>1. s \in Sas /\ v \in Sas
  BY SasMatches DEF SasGood
<1>2. NULL # "unknown_method" /\ NULL # "timeout"
  BY Assumed DEF Code
<1>3. u.code = s.code /\ DOMAIN u = DOMAIN s /\ "code" \in DOMAIN s
  BY <1>1 DEF Sas
<1>4. ASSUME m.type = "start", ~m.ok
      PROVE  v.code # NULL
  <2>1. v = [u EXCEPT !.code = "unknown_method"]
    BY <1>4 DEF MatchedSas, ParseStart
  <2> QED BY <1>2, <1>3, <2>1
<1>5. ASSUME m.type = "cancel"
      PROVE  v.code # NULL
  <2>1. v = IF u.code = NULL THEN [u EXCEPT !.code = "timeout"] ELSE u
    BY <1>5 DEF MatchedSas
  <2> QED BY <1>2, <1>3, <2>1
<1> QED BY <1>4, <1>5

\* A message that is matched once more has no other effect on the code.
LEMMA MatchedAgain ==
  ASSUME NEW c \in BOOLEAN, NEW s, SasGood(s, c), NEW m \in Message, m.type \in s.marks,
         s.code = NULL, m.type # "cancel", m.type = "start" => m.ok
  PROVE  MatchedSas(s, m).code = NULL
<1> DEFINE u == [s EXCEPT !.marks = @ \cup {m.type}]
<1>1. m.type \in {"request", "start", "key", "mac", "done"} /\ m.ok \in BOOLEAN
  BY DEF Message
<1>2. s \in Sas
  BY DEF SasGood
<1>3. /\ u.code = NULL /\ u.marks = s.marks /\ u.verified = s.verified
      /\ u.verified \in BOOLEAN /\ u \in Sas
  BY <1>1, <1>2 DEF Sas, Mark
<1>4. CASE m.type = "start"
  BY <1>3, <1>4 DEF MatchedSas, ParseStart
<1>5. CASE m.type = "mac"
  <2>1. s.verified /\ "key" \in s.marks
    BY <1>5 DEF SasGood
  <2>2. MatchedSas(s, m) = u
    BY <1>3, <1>5, <2>1 DEF MatchedSas, ParseMac
  <2> QED BY <1>3, <2>2
<1>6. CASE m.type = "key"
  BY <1>2, <1>3, <1>6 DEF MatchedSas, Sas
<1>7. CASE m.type \in {"request", "done"}
  BY <1>3, <1>7 DEF MatchedSas
<1> QED BY <1>1, <1>4, <1>5, <1>6, <1>7

\* A request that says what is true of its verification.
LEMMA RequestAdded ==
  ASSUME NEW f, NEW s, NEW c, \A r \in BagToSet(f) : RequestGood(r, s, c),
         NEW kind \in {"ready", "accept", "devices", "key", "mac", "done", "cancel"},
         NEW call \in Call \cup {"match", "user", NULL}, NEW gen \in Nat, gen <= Gen(s),
         kind \in {"ready", "accept"} => call \in Call,
         kind = "mac" => c,
         kind = "done" => c /\ s # NULL /\ s.verified
  PROVE  \A r \in BagToSet(Requested(f, kind, call, gen)) : RequestGood(r, s, c)
<1> DEFINE n == [kind |-> kind, call |-> call, gen |-> gen]
<1>1. n.kind = kind /\ n.call = call /\ n.gen = gen
  OBVIOUS
<1>2. n \in Request
  BY DEF Request
<1> HIDE DEF n
<1>3. RequestGood(n, s, c)
  BY <1>1, <1>2 DEF RequestGood
<1>4. BagToSet(Requested(f, kind, call, gen)) = BagToSet(f) \cup {n}
  BY BagAdded DEF n
<1> QED BY <1>3, <1>4

\* What is known of the requests of a verification is known of one that goes on.
LEMMA RequestKept ==
  ASSUME NEW r, NEW s, NEW c, NEW v, RequestGood(r, s, c),
         s = NULL \/ (v # NULL /\ v.gen = s.gen /\ (s.verified => v.verified)), s # NULL
  PROVE  RequestGood(r, v, c)
BY DEF RequestGood, Gen

\* verification_event_updated_cb() sends an accept for the call that waits.
LEMMA SasUpdated ==
  ASSUME NEW acc, Acc(acc), NEW c \in BOOLEAN, SasGood(acc.sas, c),
         Good(acc.sas, acc.flight, acc.stored, c), NEW up, up = Updated(acc)
  PROVE  /\ Acc(up) /\ Good(up.sas, up.flight, up.stored, c) /\ SasGood(up.sas, c)
         /\ up.sas.gen = acc.sas.gen /\ up.sas.type = acc.sas.type
         /\ up.sas.listed = acc.sas.listed
         /\ up.sas.marks = acc.sas.marks /\ up.sas.code = acc.sas.code
         /\ up.sas.verified = acc.sas.verified
         /\ up.stop = acc.stop
<1> DEFINE s == acc.sas
           v == [s EXCEPT !.pub_key = TRUE]
           f == Requested(acc.flight, "accept", s.pending, s.gen)
<1>1. s \in Sas /\ s # NULL
  BY Assumed DEF SasGood
<1>2. CASE up = acc
  BY <1>2
<1>3. CASE up # acc
  <2>1. s.pending # NULL /\ up = [acc EXCEPT !.sas.pub_key = TRUE, !.flight = f]
    BY <1>3 DEF Updated
  <2>2. /\ v \in Sas /\ v.gen = s.gen /\ v.type = s.type /\ v.listed = s.listed
        /\ v.marks = s.marks /\ v.code = s.code /\ v.verified = s.verified /\ v.pub_key
        /\ v.emojis = s.emojis /\ v.pending = s.pending
    BY <1>1 DEF Sas
  <2>3. up = [sas |-> v, flight |-> f, stored |-> acc.stored, stop |-> acc.stop]
    BY <2>1 DEF Acc
  <2>4. s.pending \in Call /\ s.gen \in Nat
    BY <1>1, <2>1 DEF Sas
  <2> HIDE DEF v, f
  <2>5. SasGood(v, c) /\ v # NULL
    BY <2>2, Assumed DEF SasGood
  <2>6. \A r \in BagToSet(acc.flight) : RequestGood(r, v, c)
    BY <1>1, <2>2, <2>5, RequestKept DEF Good
  <2>7. \A r \in BagToSet(f) : RequestGood(r, v, c)
    <3>1. s.gen <= Gen(v)
      BY <2>2, <2>4, <2>5 DEF Gen
    <3> QED BY <2>4, <2>6, <3>1, RequestAdded DEF f
  <2>8. Good(v, f, acc.stored, c)
    BY <2>2, <2>5, <2>7 DEF Good
  <2> QED BY <2>2, <2>3, <2>5, <2>8 DEF Acc
<1> QED BY <1>2, <1>3

\* cm_olm_sas_matches_event() keeps what is good.
LEMMA MatchedGood ==
  ASSUME NEW acc, Acc(acc), NEW c \in BOOLEAN, SasGood(acc.sas, c),
         Good(acc.sas, acc.flight, acc.stored, c), NEW m \in Message,
         NEW up, up = Matched(acc, m)
  PROVE  /\ Acc(up) /\ Good(up.sas, up.flight, up.stored, c) /\ SasGood(up.sas, c)
         /\ up.sas.gen = acc.sas.gen /\ up.sas.type = acc.sas.type
         /\ up.sas.listed = acc.sas.listed
         /\ up.sas.marks = acc.sas.marks \cup {m.type}
         /\ up.sas.code = MatchedSas(acc.sas, m).code
         /\ up.sas.verified = MatchedSas(acc.sas, m).verified
         /\ up.stop = acc.stop
<1> DEFINE v == MatchedSas(acc.sas, m)
           b == [acc EXCEPT !.sas = v]
<1>1. /\ SasGood(v, c) /\ v.gen = acc.sas.gen /\ v.type = acc.sas.type
      /\ v.listed = acc.sas.listed
      /\ v.marks = acc.sas.marks \cup {m.type}
      /\ acc.sas.verified => v.verified
  BY SasMatches
<1>2. up = Updated(b)
  BY MatchedIs
<1>3. /\ b = [sas |-> v, flight |-> acc.flight, stored |-> acc.stored, stop |-> acc.stop]
      /\ v # NULL /\ acc.sas # NULL
  BY <1>1, Assumed DEF Acc, SasGood
<1> HIDE DEF v, b
<1>4. Acc(b) /\ b.sas = v /\ b.flight = acc.flight /\ b.stored = acc.stored /\ b.stop = acc.stop
  BY <1>3 DEF Acc
<1>5. \A r \in BagToSet(acc.flight) : RequestGood(r, v, c)
  BY <1>1, <1>3, RequestKept DEF Good
<1>6. Good(v, acc.flight, acc.stored, c)
  BY <1>1, <1>3, <1>5 DEF Good
<1> QED BY <1>1, <1>2, <1>4, <1>6, SasUpdated DEF v

\* The fields of such a record.
LEMMA AccIs ==
  ASSUME NEW acc, NEW s, NEW f, NEW d, NEW e,
         acc = [sas |-> s, flight |-> f, stored |-> d, stop |-> e]
  PROVE  Acc(acc) /\ acc.sas = s /\ acc.flight = f /\ acc.stored = d /\ acc.stop = e
BY DEF Acc

\* The rest of the messages is left out.
Cancels(acc, gen) ==
  [acc EXCEPT !.stop = TRUE, !.flight = Requested(@, "cancel", NULL, gen)]

\* A cancel promises nothing.
LEMMA CancelAdded ==
  ASSUME NEW acc, Acc(acc), NEW c \in BOOLEAN, Good(acc.sas, acc.flight, acc.stored, c),
         NEW gen \in Nat, gen <= Gen(acc.sas),
         NEW up, up = Cancels(acc, gen)
  PROVE  Acc(up) /\ Good(up.sas, up.flight, up.stored, c) /\ up.sas = acc.sas
<1> DEFINE f == Requested(acc.flight, "cancel", NULL, gen)
<1>1. up = [sas |-> acc.sas, flight |-> f, stored |-> acc.stored, stop |-> TRUE]
  BY DEF Acc, Cancels
<1>2. \A r \in BagToSet(f) : RequestGood(r, acc.sas, c)
  BY RequestAdded DEF Good
<1> HIDE DEF f
<1>3. /\ up.sas = acc.sas /\ up.flight = f /\ up.stored = acc.stored /\ up.stop = TRUE
      /\ Acc(up)
  BY <1>1, AccIs
<1>4. Good(acc.sas, f, acc.stored, c)
  BY <1>2 DEF Good
<1> QED BY <1>3, <1>4

\* The answer to a key
LEMMA KeyAnswered ==
  ASSUME NEW acc, Acc(acc), NEW c \in BOOLEAN, Good(acc.sas, acc.flight, acc.stored, c),
         SasGood(acc.sas, c), NEW m, NEW up, up = SentKey(acc, m)
  PROVE  /\ Acc(up) /\ Good(up.sas, up.flight, up.stored, c) /\ SasGood(up.sas, c)
         /\ up.sas.marks = acc.sas.marks /\ up.sas.code = acc.sas.code
<1> DEFINE s == acc.sas
           v == [s EXCEPT !.pub_key = TRUE, !.verification_key = TRUE]
           f == Requested(acc.flight, "key", NULL, s.gen)
<1>1. s \in Sas /\ s # NULL /\ s.gen \in Nat
  BY Assumed DEF SasGood, Sas
<1>2. CASE m.type # "key"
  BY <1>2 DEF SentKey
<1>3. CASE m.type = "key"
  <2>1. /\ v \in Sas /\ v.gen = s.gen /\ v.type = s.type /\ v.listed = s.listed
        /\ v.marks = s.marks /\ v.code = s.code /\ v.verified = s.verified /\ v.pub_key
        /\ v.emojis = s.emojis /\ v.pending = s.pending
    BY <1>1 DEF Sas
  <2>2. up = [sas |-> v, flight |-> f, stored |-> acc.stored, stop |-> acc.stop]
    BY <1>3 DEF Acc, SentKey
  <2> HIDE DEF v, f
  <2>3. SasGood(v, c) /\ v # NULL
    BY <2>1, Assumed DEF SasGood
  <2>4. \A r \in BagToSet(acc.flight) : RequestGood(r, v, c)
    BY <1>1, <2>1, <2>3, RequestKept DEF Good
  <2>5. \A r \in BagToSet(f) : RequestGood(r, v, c)
    <3>1. s.gen <= Gen(v)
      BY <1>1, <2>1, <2>3 DEF Gen
    <3> QED BY <1>1, <2>4, <3>1, RequestAdded DEF f
  <2>6. Good(v, f, acc.stored, c)
    BY <2>1, <2>3, <2>5 DEF Good
  <2> QED BY <2>1, <2>2, <2>3, <2>6 DEF Acc
<1> QED BY <1>2, <1>3

\* A MAC without an error is the end, once our user has confirmed.
LEMMA EndAdded ==
  ASSUME NEW acc, Acc(acc), NEW c \in BOOLEAN, Good(acc.sas, acc.flight, acc.stored, c),
         SasGood(acc.sas, c), acc.sas.code = NULL, NEW up, up = Added(acc)
  PROVE  Acc(up) /\ Good(up.sas, up.flight, up.stored, c) /\ up.sas = acc.sas
<1> DEFINE s == acc.sas
           over == {"mac", "mac-sent"} \subseteq s.marks
           f == IF over THEN Requested(acc.flight, "done", NULL, s.gen) ELSE acc.flight
           d == acc.stored \/ (over /\ s.verified)
<1>1. /\ s \in Sas /\ s # NULL /\ s.gen \in Nat /\ s.verified \in BOOLEAN
      /\ acc.stored \in BOOLEAN
  BY Assumed DEF SasGood, Sas, Good
<1>2. up = [sas |-> s, flight |-> f, stored |-> d, stop |-> acc.stop]
  BY DEF Acc, Added
<1>3. over => c /\ s.verified
  BY DEF SasGood
<1>4. \A r \in BagToSet(f) : RequestGood(r, s, c)
  <2>1. s.gen <= Gen(s)
    BY <1>1 DEF Gen
  <2>2. \A r \in BagToSet(acc.flight) : RequestGood(r, s, c)
    BY DEF Good
  <2>3. CASE over
    <3>1. f = Requested(acc.flight, "done", NULL, s.gen) /\ c /\ s.verified
      BY <1>3, <2>3
    <3>2. \A r \in BagToSet(Requested(acc.flight, "done", NULL, s.gen)) : RequestGood(r, s, c)
      <4> HIDE DEF s, over
      <4>1. /\ "done" \in {"ready", "accept", "devices", "key", "mac", "done", "cancel"}
            /\ NULL \in Call \cup {"match", "user", NULL}
            /\ "done" \notin {"ready", "accept"} /\ "done" # "mac"
        OBVIOUS
      <4> QED BY <1>1, <2>1, <2>2, <3>1, <4>1, RequestAdded
    <3> QED BY <3>1, <3>2
  <2>4. CASE ~over
    BY <2>2, <2>4
  <2> QED BY <2>3, <2>4
<1>5. d \in BOOLEAN /\ (d => s # NULL /\ c /\ s.verified)
  BY <1>1, <1>3 DEF Good
<1> HIDE DEF f, d
<1>6. Good(s, f, d, c)
  BY <1>4, <1>5 DEF Good
<1> QED BY <1>2, <1>6 DEF Acc

Opened(s, m) ==
  [SetKeyVerification(NewSas(IF s = NULL THEN 1 ELSE s.gen + 1, m), m) EXCEPT !.listed = TRUE]

Opens(acc, m) == [acc EXCEPT !.sas = Opened(@, m)]

\* A verification begins, of which nothing is stored yet.
LEMMA BeginningGood ==
  ASSUME NEW acc, Acc(acc), NEW c \in BOOLEAN, Good(acc.sas, acc.flight, acc.stored, c),
         "mac" \notin Marks(acc.sas), NEW m \in Message, Begins(m),
         NEW up, up = Opens(acc, m)
  PROVE  Acc(up) /\ Good(up.sas, up.flight, up.stored, c) /\ Marks(up.sas) = {}
<1> DEFINE gen == IF acc.sas = NULL THEN 1 ELSE acc.sas.gen + 1
           n == NewSas(gen, m)
           t == ParseStart(n, m)
           u == SetKeyVerification(n, m)
           v == Opened(acc.sas, m)
<1>1. gen \in Nat /\ gen > Gen(acc.sas) /\ Gen(acc.sas) \in Nat
  BY DEF Good, SasGood, Sas, Gen
<1>2. m.type \in {"request", "start"} /\ m.age \in Int
  BY DEF Begins, Message
<1> HIDE DEF gen
<1>3. /\ n \in Sas /\ n.marks = {} /\ ~n.verified /\ ~n.emojis /\ n.pending = NULL /\ n.gen = gen
  BY <1>1, <1>2 DEF NewSas, Sas
<1> HIDE DEF n
<1>4. /\ t \in Sas /\ t.marks = {} /\ ~t.verified /\ ~t.emojis /\ t.pending = NULL /\ t.gen = gen
  BY <1>3 DEF ParseStart, Sas, Code
<1> HIDE DEF t
<1>5. u = t \/ u = [t EXCEPT !.code = "timeout"]
  BY DEF SetKeyVerification, t
<1>6. /\ u \in Sas /\ u.marks = {} /\ ~u.verified /\ ~u.emojis /\ u.pending = NULL /\ u.gen = gen
  BY <1>4, <1>5 DEF Sas, Code
<1>7. v = [u EXCEPT !.listed = TRUE]
  BY DEF u, n, gen, Opened
<1> HIDE DEF u, v
<1>8. /\ v \in Sas /\ v.marks = {} /\ ~v.verified /\ ~v.emojis /\ v.pending = NULL /\ v.gen = gen
  BY <1>6, <1>7 DEF Sas
<1>9. SasGood(v, c) /\ v # NULL
  BY <1>8, Assumed DEF SasGood
<1>10. ~acc.stored
  BY DEF Good, SasGood, Marks
<1>11. \A r \in BagToSet(acc.flight) : RequestGood(r, v, c)
  <2> SUFFICES ASSUME NEW r \in BagToSet(acc.flight) PROVE RequestGood(r, v, c)
    OBVIOUS
  <2>1. RequestGood(r, acc.sas, c) /\ r.gen \in Nat
    BY DEF Good, RequestGood, Request
  <2>2. r.gen <= Gen(acc.sas)
    BY <2>1 DEF RequestGood
  <2>3. r.gen < v.gen /\ Gen(v) = v.gen
    BY <1>1, <1>8, <1>9, <2>1, <2>2 DEF Gen
  <2> QED BY <1>1, <1>8, <2>1, <2>3 DEF RequestGood
<1>12. Good(v, acc.flight, acc.stored, c)
  BY <1>9, <1>10, <1>11 DEF Good
<1>13. up = [sas |-> v, flight |-> acc.flight, stored |-> acc.stored, stop |-> acc.stop]
  BY DEF Acc, Opens, v
<1> QED BY <1>8, <1>9, <1>12, <1>13 DEF Acc, Marks

\* handle_to_device() keeps what is good, whatever the message; one that begins a
\* verification comes before any MAC.
LEMMA HandledGood ==
  ASSUME NEW acc, Acc(acc), NEW c \in BOOLEAN, Good(acc.sas, acc.flight, acc.stored, c),
         NEW m \in Message, Begins(m) => "mac" \notin Marks(acc.sas),
         NEW up, up = Handled(acc, m)
  PROVE  /\ Acc(up) /\ Good(up.sas, up.flight, up.stored, c)
         /\ Marks(up.sas) \subseteq Marks(acc.sas) \cup {m.type}
<1> DEFINE s == acc.sas
           first == SetKeyVerification(NewSas(IF s = NULL THEN 1 ELSE s.gen + 1, m), m)
           once == Matched(acc, m)
           twice == Matched(once, m)
           key == SentKey(twice, m)
<1>1. CASE acc.stop
  BY <1>1 DEF Handled
<1>2. CASE ~acc.stop /\ s # NULL /\ s.listed
  <2>1. SasGood(s, c)
    BY <1>2 DEF Good
  <2>2. /\ Acc(once) /\ Good(once.sas, once.flight, once.stored, c) /\ SasGood(once.sas, c)
        /\ once.sas.gen = s.gen /\ once.sas.marks = s.marks \cup {m.type}
        /\ once.sas.code = MatchedSas(s, m).code
    BY <2>1, MatchedGood
  <2>3. s.gen \in Nat /\ once.sas # NULL /\ Gen(once.sas) = s.gen
    BY <2>1, <2>2, Assumed DEF SasGood, Sas, Gen
  <2>4. CASE once.sas.code # NULL
    <3>1. up = Cancels(once, s.gen)
      BY <1>2, <2>4 DEF Handled, Cancels
    <3> HIDE DEF once
    <3>2. s.gen <= Gen(once.sas)
      BY <2>3
    <3>3. Acc(up) /\ Good(up.sas, up.flight, up.stored, c) /\ up.sas = once.sas
      BY <2>2, <2>3, <3>1, <3>2, CancelAdded
    <3> QED BY <1>2, <2>2, <2>3, <3>3 DEF Marks
  <2>5. CASE once.sas.code = NULL
    <3>1. up = Added(key)
      BY <1>2, <2>5 DEF Handled
    <3>2. m.type # "cancel" /\ (m.type = "start" => m.ok)
      BY <2>1, <2>2, <2>5, MatchedCode
    <3> HIDE DEF once
    <3>3. MatchedSas(once.sas, m).code = NULL
      BY <2>2, <2>5, <3>2, MatchedAgain
    <3>4. /\ Acc(twice) /\ Good(twice.sas, twice.flight, twice.stored, c)
          /\ SasGood(twice.sas, c)
          /\ twice.sas.code = NULL /\ twice.sas.marks = once.sas.marks \cup {m.type}
      BY <2>2, <3>3, MatchedGood
    <3> HIDE DEF twice
    <3>5. /\ Acc(key) /\ Good(key.sas, key.flight, key.stored, c) /\ SasGood(key.sas, c)
          /\ key.sas.marks = twice.sas.marks /\ key.sas.code = NULL
      BY <3>4, KeyAnswered
    <3> HIDE DEF key
    <3>6. Acc(up) /\ Good(up.sas, up.flight, up.stored, c) /\ up.sas = key.sas
      BY <3>1, <3>5, EndAdded
    <3>7. key.sas # NULL
      BY <3>5, Assumed DEF SasGood
    <3> QED BY <1>2, <2>2, <3>4, <3>5, <3>6, <3>7 DEF Marks
  <2> QED BY <2>4, <2>5
<1>3. CASE ~acc.stop /\ ~(s # NULL /\ s.listed) /\ ~Begins(m)
  <2>1. up = [acc EXCEPT !.stop = TRUE]
    BY <1>3 DEF Handled, Begins
  <2>2. up = [sas |-> s, flight |-> acc.flight, stored |-> acc.stored, stop |-> TRUE]
    BY <2>1 DEF Acc
  <2> QED BY <2>2 DEF Acc
<1>4. CASE ~acc.stop /\ ~(s # NULL /\ s.listed) /\ Begins(m)
  <2>1. CASE first.code # NULL
    <3>1. up = Cancels(acc, 0)
      BY <1>4, <2>1 DEF Handled, Begins, Cancels
    <3>2. 0 \in Nat /\ 0 <= Gen(s)
      BY DEF Good, SasGood, Sas, Gen
    <3>3. Acc(up) /\ Good(up.sas, up.flight, up.stored, c) /\ up.sas = s
      BY <3>1, <3>2, CancelAdded
    <3> QED BY <3>3
  <2>2. CASE first.code = NULL
    <3>1. up = Opens(acc, m)
      BY <1>4, <2>2 DEF Handled, Begins, Opened, Opens
    <3>2. "mac" \notin Marks(s)
      BY <1>4
    <3>3. Acc(up) /\ Good(up.sas, up.flight, up.stored, c) /\ Marks(up.sas) = {}
      BY <1>4, <3>1, <3>2, BeginningGood
    <3> QED BY <3>3
  <2> QED BY <2>1, <2>2
<1> QED BY <1>1, <1>2, <1>3, <1>4

-----------------------------------------------------------------------------
(* The messages of an answer to sync.                                       *)

\* One step of Read
ReadNext(f, n) ==
  IF n = 0 THEN [sas |-> sas, flight |-> flight, stored |-> stored, stop |-> FALSE]
  ELSE Handled(f[n - 1], inbox[n])

\* There is a function that handles k messages one after the other, by induction.
LEMMA ReadExists ==
  ASSUME NEW k \in Nat
  PROVE  \E f : f = [n \in 0..k |-> ReadNext(f, n)]
<1> DEFINE T == {i \in Nat : \E f : f = [n \in 0..i |-> ReadNext(f, n)]}
<1>1. 0 \in T
  <2> DEFINE a == [sas |-> sas, flight |-> flight, stored |-> stored, stop |-> FALSE]
             g == [n \in 0..0 |-> a]
  <2>1. \A n \in 0..0 : ReadNext(g, n) = a
    BY DEF ReadNext
  <2> HIDE DEF a
  <2>2. g = [n \in 0..0 |-> ReadNext(g, n)]
    BY <2>1
  <2> QED BY <2>2
<1>2. ASSUME NEW i \in Nat, i \in T
      PROVE  i + 1 \in T
  <2>1. PICK f : f = [n \in 0..i |-> ReadNext(f, n)]
    BY <1>2
  <2> DEFINE g == [n \in 0..(i + 1) |-> IF n = i + 1 THEN Handled(f[i], inbox[i + 1]) ELSE f[n]]
  <2>2. \A n \in 0..i : g[n] = f[n]
    OBVIOUS
  <2>3. g[i + 1] = ReadNext(g, i + 1)
    <3>1. i + 1 # 0 /\ (i + 1) - 1 = i /\ i \in 0..i /\ i + 1 \in 0..(i + 1)
      OBVIOUS
    <3> QED BY <2>2, <3>1 DEF ReadNext
  <2>4. ASSUME NEW n \in 0..i
        PROVE  g[n] = ReadNext(g, n)
    <3>1. f[n] = ReadNext(f, n)
      BY <2>1
    <3>2. n # 0 => g[n - 1] = f[n - 1]
      BY <2>2
    <3> QED BY <2>2, <3>1, <3>2 DEF ReadNext
  <2>5. DOMAIN g = 0..(i + 1) /\ \A n \in 0..(i + 1) : n \in 0..i \/ n = i + 1
    OBVIOUS
  <2>6. \A n \in 0..(i + 1) : g[n] = ReadNext(g, n)
    BY <2>3, <2>4, <2>5
  <2>7. g = [n \in 0..(i + 1) |-> g[n]]
    OBVIOUS
  <2> HIDE DEF g
  <2>8. g = [n \in 0..(i + 1) |-> ReadNext(g, n)]
    BY <2>6, <2>7
  <2> QED BY <2>8
<1> HIDE DEF T
<1>3. \A i \in Nat : i \in T
  BY <1>1, <1>2, Induction
<1> QED BY <1>3 DEF T

\* Read is that function.
LEMMA ReadIs ==
  ASSUME inbox \in Seq(Message)
  PROVE  Read = [n \in 0..Len(inbox) |-> ReadNext(Read, n)]
<1>1. \E f : f = [n \in 0..Len(inbox) |-> ReadNext(f, n)]
  BY ReadExists
<1> QED BY <1>1 DEF Read, ReadNext

\* The inductive invariant: no message that begins a verification is on its way, or
\* can be sent, once there is a MAC, so that a verified device is never replaced.
IInv ==
  /\ inbox \in Seq(Message) /\ told \subseteq Mark /\ confirmed \in BOOLEAN
  /\ \A i \in DOMAIN inbox : inbox[i].type \in told
  /\ \A i, j \in DOMAIN inbox : i < j /\ inbox[i].type = "mac" => ~Begins(inbox[j])
  /\ Marks(sas) \subseteq told \cup Own
  /\ "mac" \in Marks(sas) => \A i \in DOMAIN inbox : ~Begins(inbox[i])
  /\ Good(sas, flight, stored, confirmed)

\* ... after the first k messages
ReadGood(k) ==
  LET acc == Read[k]
  IN  /\ Acc(acc) /\ Good(acc.sas, acc.flight, acc.stored, confirmed)
      /\ Marks(acc.sas) \subseteq told \cup Own
      /\ "mac" \in Marks(acc.sas) => \A i \in DOMAIN inbox : i > k => ~Begins(inbox[i])

\* Every message of an answer keeps it, by induction over their number.
LEMMA ReadsGood ==
  ASSUME IInv
  PROVE  \A k \in 0..Len(inbox) : ReadGood(k)
<1>1. /\ inbox \in Seq(Message) /\ DOMAIN inbox = 1..Len(inbox) /\ Len(inbox) \in Nat
      /\ Good(sas, flight, stored, confirmed) /\ confirmed \in BOOLEAN
  BY DEF IInv
<1>2. Read = [n \in 0..Len(inbox) |-> ReadNext(Read, n)]
  BY <1>1, ReadIs
<1> DEFINE T == {k \in Nat : k <= Len(inbox) => ReadGood(k)}
<1>3. 0 \in T
  <2> DEFINE a == [sas |-> sas, flight |-> flight, stored |-> stored, stop |-> FALSE]
  <2>1. Read[0] = a
    BY <1>1, <1>2 DEF ReadNext
  <2>2. Acc(Read[0]) /\ Read[0].sas = sas /\ Read[0].flight = flight /\ Read[0].stored = stored
    BY <2>1, AccIs
  <2>3. ReadGood(0)
    BY <1>1, <2>2 DEF ReadGood, IInv
  <2> QED BY <2>3
<1>4. ASSUME NEW k \in Nat, k \in T
      PROVE  k + 1 \in T
  <2> SUFFICES ASSUME k + 1 <= Len(inbox) PROVE ReadGood(k + 1)
    OBVIOUS
  <2> DEFINE acc == Read[k]
             up == Read[k + 1]
             m == inbox[k + 1]
  <2>1. k + 1 \in DOMAIN inbox /\ k + 1 \in 0..Len(inbox) /\ k + 1 # 0 /\ (k + 1) - 1 = k
    BY <1>1
  <2>2. ReadGood(k)
    BY <1>1, <1>4
  <2>3. up = Handled(acc, m)
    BY <1>2, <2>1 DEF ReadNext
  <2>4. m \in Message /\ m.type \in told
    BY <1>1, <2>1 DEF IInv
  <2>5. Begins(m) => "mac" \notin Marks(acc.sas)
    BY <2>1, <2>2 DEF ReadGood
  <2>6. /\ Acc(acc) /\ Good(acc.sas, acc.flight, acc.stored, confirmed)
        /\ Marks(acc.sas) \subseteq told \cup Own
        /\ "mac" \in Marks(acc.sas) => \A i \in DOMAIN inbox : i > k => ~Begins(inbox[i])
    BY <2>2 DEF ReadGood
  <2> HIDE DEF acc, up, m
  <2>7. /\ Acc(up) /\ Good(up.sas, up.flight, up.stored, confirmed)
        /\ Marks(up.sas) \subseteq Marks(acc.sas) \cup {m.type}
    BY <1>1, <2>3, <2>4, <2>5, <2>6, HandledGood
  <2>8. ASSUME "mac" \in Marks(up.sas), NEW i \in DOMAIN inbox, i > k + 1
        PROVE  ~Begins(inbox[i])
    <3>1. CASE "mac" \in Marks(acc.sas)
      BY <1>1, <2>6, <2>8, <3>1
    <3>2. CASE m.type = "mac"
      BY <1>1, <2>1, <2>8, <3>2 DEF IInv, m
    <3> QED BY <2>7, <2>8, <3>1, <3>2
  <2>9. Marks(up.sas) \subseteq told \cup Own
    BY <2>4, <2>6, <2>7
  <2> QED BY <2>7, <2>8, <2>9 DEF ReadGood, up
<1> HIDE DEF T
<1>5. \A k \in Nat : k \in T
  BY <1>3, <1>4, Induction
<1> QED BY <1>1, <1>5 DEF T

\* Sync: an answer of any length
LEMMA SyncStep ==
  ASSUME IInv, NEW n \in 1..Len(inbox), Sync(n)
  PROVE  IInv'
<1>1. ReadGood(n) /\ inbox \in Seq(Message)
  <2>1. inbox \in Seq(Message) /\ n \in 0..Len(inbox)
    BY DEF IInv
  <2> QED BY <2>1, ReadsGood
<1>2. /\ inbox' \in Seq(Message)
      /\ \A i \in DOMAIN inbox' : /\ i + n \in DOMAIN inbox /\ i + n > n /\ i \in Int
                                  /\ inbox'[i] = inbox[i + n]
  <2>1. inbox' = SubSeq(inbox, n + 1, Len(inbox))
    BY DEF Sync
  <2>2. Len(inbox) \in Nat /\ n \in Nat /\ DOMAIN inbox = 1..Len(inbox)
    BY <1>1
  <2>3. inbox' \in Seq(Message)
    BY <1>1, <2>1, <2>2
  <2>4. \A i \in DOMAIN inbox' : /\ i \in Nat /\ i >= 1 /\ i + n <= Len(inbox)
                                  /\ inbox'[i] = inbox[n + 1 + i - 1]
    BY <1>1, <2>1, <2>2
  <2>5. ASSUME NEW i \in DOMAIN inbox'
        PROVE  /\ i + n \in DOMAIN inbox /\ i + n > n /\ i \in Int
               /\ inbox'[i] = inbox[i + n]
    <3>1. i \in Nat /\ i >= 1 /\ i + n <= Len(inbox) /\ inbox'[i] = inbox[n + 1 + i - 1]
      BY <2>4
    <3>2. n + 1 + i - 1 = i + n /\ i + n \in 1..Len(inbox) /\ i + n > n
      BY <2>2, <3>1
    <3> QED BY <2>2, <3>1, <3>2
  <2> QED BY <2>3, <2>5
<1>3. /\ sas' = Read[n].sas /\ flight' = Read[n].flight /\ stored' = Read[n].stored
      /\ told' = told /\ confirmed' = confirmed
  BY DEF Sync
<1>4. Good(sas', flight', stored', confirmed') /\ Marks(sas') \subseteq told' \cup Own
  BY <1>1, <1>3 DEF ReadGood
<1>5. \A i \in DOMAIN inbox' : inbox'[i].type \in told'
  BY <1>2, <1>3 DEF IInv
<1>6. ASSUME NEW i \in DOMAIN inbox', NEW j \in DOMAIN inbox', i < j, inbox'[i].type = "mac"
      PROVE  ~Begins(inbox'[j])
  <2>1. i + n < j + n
    BY <1>2, <1>6
  <2> QED BY <1>2, <1>6, <2>1 DEF IInv
<1>7. ASSUME "mac" \in Marks(sas'), NEW i \in DOMAIN inbox'
      PROVE  ~Begins(inbox'[i])
  BY <1>1, <1>2, <1>3, <1>7 DEF ReadGood
<1>8. told' \subseteq Mark /\ confirmed' \in BOOLEAN
  BY <1>3 DEF IInv
<1> HIDE DEF Begins, Marks, Good, Own
<1> QED BY <1>2, <1>4, <1>5, <1>6, <1>7, <1>8 DEF IInv

-----------------------------------------------------------------------------
(* The other steps.                                                        *)

\* A step that leaves what the other device has sent.
LEMMA PlainStep ==
  ASSUME IInv, inbox' = inbox, told' = told,
         Marks(sas') \subseteq told \cup Own, "mac" \in Marks(sas') => "mac" \in Marks(sas),
         confirmed' \in BOOLEAN, Good(sas', flight', stored', confirmed')
  PROVE  IInv'
BY DEF IInv

\* The requests of a verification that goes on.
LEMMA SasChanged ==
  ASSUME NEW s, NEW f, NEW d, NEW c \in BOOLEAN, Good(s, f, d, c), s # NULL, NEW v, SasGood(v, c),
         v.gen = s.gen, s.verified => v.verified
  PROVE  Good(v, f, d, c) /\ v # NULL /\ Gen(v) = s.gen /\ v.gen \in Nat /\ v \in Sas
<1>1. v # NULL /\ v \in Sas
  BY Assumed DEF SasGood
<1>2. \A r \in BagToSet(f) : RequestGood(r, v, c)
  BY <1>1, RequestKept DEF Good
<1>3. Good(v, f, d, c)
  BY <1>1, <1>2 DEF Good
<1> QED BY <1>1, <1>3 DEF Gen, Sas

\* A request is answered, or fails.
LEMMA RequestsFewer ==
  ASSUME NEW s, NEW f, NEW d, NEW c, Good(s, f, d, c), NEW g, BagToSet(g) \subseteq BagToSet(f)
  PROVE  Good(s, g, d, c)
BY DEF Good

\* A request is sent.
LEMMA RequestsMore ==
  ASSUME NEW s, NEW f, NEW d, NEW c, Good(s, f, d, c),
         NEW kind \in {"ready", "accept", "devices", "key", "mac", "done", "cancel"},
         NEW call \in Call \cup {"match", "user", NULL}, NEW gen \in Nat, gen <= Gen(s),
         kind \in {"ready", "accept"} => call \in Call,
         kind = "mac" => c,
         kind = "done" => c /\ s # NULL /\ s.verified
  PROVE  Good(s, Requested(f, kind, call, gen), d, c)
<1>1. \A r \in BagToSet(Requested(f, kind, call, gen)) : RequestGood(r, s, c)
  BY RequestAdded DEF Good
<1> QED BY <1>1 DEF Good

\* That our user confirms takes nothing back.
LEMMA NowConfirmed ==
  ASSUME NEW s, NEW f, NEW d, NEW c, Good(s, f, d, c)
  PROVE  Good(s, f, d, TRUE)
BY DEF Good, SasGood, RequestGood

\* Say: the other device sends each message once, and in order.
LEMMA SayStep ==
  ASSUME IInv, NEW m \in Message, Say(m)
  PROVE  IInv'
<1>1. /\ inbox' = Append(inbox, m) /\ told' = told \cup {m.type} /\ m.type \notin told
      /\ sas' = sas /\ flight' = flight /\ stored' = stored /\ confirmed' = confirmed
      /\ inbox \in Seq(Message)
  BY DEF Say, IInv
<1>2. /\ inbox' \in Seq(Message) /\ DOMAIN inbox = 1..Len(inbox) /\ Len(inbox) \in Nat
      /\ DOMAIN inbox' = 1..Len(inbox) + 1 /\ inbox'[Len(inbox) + 1] = m
      /\ \A i \in DOMAIN inbox : inbox'[i] = inbox[i]
  BY <1>1
<1>3. m.type \in Mark
  BY DEF Message, Mark
<1>4. Begins(m) => "mac" \notin told
  <2>1. m.type = "request" => told = {}
    BY DEF Say
  <2>2. m.type = "start" => told = {} \/ told = {"request"}
    BY DEF Say
  <2> QED BY <2>1, <2>2 DEF Begins
<1>5. \A i \in DOMAIN inbox : inbox[i].type \in told
  BY DEF IInv
<1>6. ASSUME NEW i \in DOMAIN inbox', NEW j \in DOMAIN inbox', i < j, inbox'[i].type = "mac"
      PROVE  ~Begins(inbox'[j])
  <2>1. i \in DOMAIN inbox
    BY <1>2, <1>6
  <2>2. CASE j \in DOMAIN inbox
    BY <1>2, <1>6, <2>1, <2>2 DEF IInv
  <2>3. CASE j = Len(inbox) + 1
    BY <1>2, <1>4, <1>5, <1>6, <2>1, <2>3
  <2> QED BY <1>2, <2>2, <2>3
<1>7. ASSUME "mac" \in Marks(sas), NEW i \in DOMAIN inbox'
      PROVE  ~Begins(inbox'[i])
  <2>1. "mac" \in told
    BY <1>7 DEF IInv, Own
  <2>2. CASE i \in DOMAIN inbox
    BY <1>2, <1>7, <2>2 DEF IInv
  <2>3. CASE i = Len(inbox) + 1
    BY <1>2, <1>4, <2>1, <2>3
  <2> QED BY <1>2, <2>2, <2>3
<1>8. \A i \in DOMAIN inbox' : inbox'[i].type \in told'
  BY <1>1, <1>2, <1>5
<1>9. /\ told' \subseteq Mark /\ Marks(sas) \subseteq told' \cup Own /\ confirmed \in BOOLEAN
      /\ Good(sas, flight, stored, confirmed)
  BY <1>1, <1>3 DEF IInv
<1> HIDE DEF Begins, Marks, Good, Own
<1> QED BY <1>1, <1>2, <1>6, <1>7, <1>8, <1>9 DEF IInv

\* What the other device says is a message.
LEMMA Saying ==
  /\ \A age \in Age : [Plain("request") EXCEPT !.age = age] \in Message
  /\ \A ok \in BOOLEAN : /\ [Plain("start") EXCEPT !.ok = ok] \in Message
                         /\ [Plain("mac") EXCEPT !.ok = ok] \in Message
  /\ \A type \in {"key", "done", "cancel"} : Plain(type) \in Message
<1>1. ASSUME NEW type \in {"request", "start", "key", "mac", "done", "cancel"}
      PROVE  Plain(type) \in Message
  BY DEF Plain, Message
<1>2. ASSUME NEW age \in Age
      PROVE  [Plain("request") EXCEPT !.age = age] \in Message
  <2>1. age \in Int
    BY Assumed
  <2> QED BY <1>1, <2>1 DEF Message
<1>3. ASSUME NEW ok \in BOOLEAN, NEW type \in {"start", "mac"}
      PROVE  [Plain(type) EXCEPT !.ok = ok] \in Message
  BY <1>1 DEF Message
<1> QED BY <1>1, <1>2, <1>3

\* Continue: ready, or accept once there was a start.
LEMMA ContinueStep ==
  ASSUME IInv, Continue
  PROVE  IInv'
<1> DEFINE call == CHOOSE p \in Call : p # sas.pending
<1>1. /\ inbox' = inbox /\ told' = told /\ confirmed' = confirmed /\ stored' = stored
      /\ sas # NULL /\ confirmed \in BOOLEAN /\ Good(sas, flight, stored, confirmed)
      /\ SasGood(sas, confirmed) /\ Marks(sas) \subseteq told \cup Own
  BY DEF IInv, Continue, Shown, Good
<1>2. call \in Call
  <2>1. sas.pending \in Call \cup {NULL}
    BY <1>1 DEF SasGood, Sas
  <2>2. Call \ {sas.pending} # {}
    BY <2>1, VerificationAssumption
  <2> QED BY <2>2
<1>3. \/ sas' = sas /\ flight' = Requested(flight, "ready", call, sas.gen)
      \/ /\ sas' = [sas EXCEPT !.pub_key = TRUE]
         /\ flight' = Requested(flight, "accept", call, sas.gen)
  BY DEF Continue
<1> HIDE DEF call
<1>4. sas \in Sas /\ sas.gen \in Nat
  BY <1>1 DEF SasGood, Sas
<1>5. /\ SasGood(sas', confirmed) /\ sas'.gen = sas.gen /\ sas'.marks = sas.marks
      /\ sas'.verified = sas.verified
  <2>1. CASE sas' = sas
    BY <1>1, <2>1
  <2>2. CASE sas' = [sas EXCEPT !.pub_key = TRUE]
    BY <1>1, <1>4, <2>2 DEF SasGood, Sas
  <2> QED BY <1>3, <2>1, <2>2
<1>6. Good(sas', flight, stored, confirmed) /\ sas' # NULL /\ Gen(sas') = sas.gen
  BY <1>1, <1>5, SasChanged
<1>7. sas.gen <= Gen(sas')
  BY <1>4, <1>6
<1>8. Good(sas', flight', stored, confirmed)
  BY <1>1, <1>2, <1>3, <1>4, <1>6, <1>7, RequestsMore
<1>9. Marks(sas') = Marks(sas)
  BY <1>1, <1>5, <1>6 DEF Marks
<1> QED BY <1>1, <1>8, <1>9, PlainStep

\* Match: our MAC goes out once the user has confirmed.
LEMMA MatchStep ==
  ASSUME IInv, Match
  PROVE  IInv'
<1>1. /\ inbox' = inbox /\ told' = told /\ confirmed' = TRUE /\ stored' = stored /\ sas' = sas
      /\ sas # NULL /\ Good(sas, flight, stored, confirmed)
      /\ Marks(sas) \subseteq told \cup Own
      /\ flight' = Requested(flight, "mac", "match", sas.gen)
  BY DEF IInv, Match, Shown
<1>2. Good(sas, flight, stored, TRUE)
  BY <1>1, NowConfirmed
<1>3. sas.gen \in Nat /\ sas.gen <= Gen(sas)
  BY <1>1 DEF Good, SasGood, Sas, Gen
<1>4. Good(sas', flight', stored', confirmed')
  BY <1>1, <1>2, <1>3, RequestsMore
<1> QED BY <1>1, <1>4, PlainStep

\* Cancel: a cancel promises nothing.
LEMMA CancelStep ==
  ASSUME IInv, Cancel
  PROVE  IInv'
<1>1. /\ inbox' = inbox /\ told' = told /\ confirmed' = confirmed /\ stored' = stored /\ sas' = sas
      /\ sas # NULL /\ Good(sas, flight, stored, confirmed) /\ confirmed \in BOOLEAN
      /\ Marks(sas) \subseteq told \cup Own
      /\ flight' = Requested(flight, "cancel", "user", sas.gen)
  BY DEF IInv, Cancel, Shown
<1>2. sas.gen \in Nat /\ sas.gen <= Gen(sas)
  BY <1>1 DEF Good, SasGood, Sas, Gen
<1>3. Good(sas', flight', stored', confirmed')
  BY <1>1, <1>2, RequestsMore
<1> QED BY <1>1, <1>3, PlainStep

\* Serve, Fail: the request leaves, or stays.
LEMMA ServeStep ==
  ASSUME IInv, NEW r, Serve(r) \/ \E out \in BOOLEAN : Fail(r, out)
  PROVE  IInv'
<1>1. /\ inbox' = inbox /\ told' = told /\ confirmed' = confirmed /\ stored' = stored /\ sas' = sas
      /\ Good(sas, flight, stored, confirmed) /\ confirmed \in BOOLEAN
      /\ Marks(sas) \subseteq told \cup Own
      /\ flight' = flight \/ flight' = Rest(r)
  BY DEF IInv, Serve, Fail
<1>2. BagToSet(flight') \subseteq BagToSet(flight)
  BY <1>1, BagTaken DEF Rest
<1>3. Good(sas', flight', stored', confirmed')
  BY <1>1, <1>2, RequestsFewer
<1> QED BY <1>1, <1>3, PlainStep

\* What the answer to request r does to the verification
Answers(s, v, c) ==
  /\ v = s \/ (s # NULL /\ SasGood(v, c) /\ v.gen = s.gen /\ v.verified = s.verified)
  /\ Marks(v) \subseteq Marks(s) \cup Own

\* Answer: our MAC is the end only if that of the other device came and was right.
LEMMA AnswerStep ==
  ASSUME IInv, NEW r, Answer(r)
  PROVE  IInv'
<1> DEFINE f == Rest(r)
           s == sas
           c == confirmed
<1>1. /\ inbox' = inbox /\ told' = told /\ confirmed' = confirmed /\ stored' = stored
      /\ Good(s, flight, stored, c) /\ c \in BOOLEAN
      /\ Marks(s) \subseteq told \cup Own /\ r \in BagToSet(flight)
  BY DEF IInv, Answer, BagIn
<1>2. Good(s, f, stored, c)
  <2>1. BagToSet(f) \subseteq BagToSet(flight)
    BY BagTaken DEF Rest
  <2> QED BY <1>1, <2>1, RequestsFewer
<1>3. /\ RequestGood(r, s, c) /\ r \in Request /\ r.gen \in Nat /\ r.gen <= Gen(s)
      /\ r.kind \in {"ready", "accept", "devices", "key", "mac", "done", "cancel"}
      /\ r.call \in Call \cup {"match", "user", NULL}
  BY <1>1 DEF Good, RequestGood, Request
<1>4. s # NULL => /\ SasGood(s, c) /\ s \in Sas /\ s.gen \in Nat /\ Gen(s) = s.gen
                  /\ s.marks = Marks(s)
  BY <1>1 DEF Good, SasGood, Sas, Gen, Marks
<1>5. ASSUME Answers(s, sas', c),
             flight' = f \/ \E kind, call : /\ flight' = Requested(f, kind, call, r.gen)
                                            /\ call \in {"match", r.call}
                                            /\ kind \in {"devices", "done", "cancel"}
                                            /\ kind = "done" => c /\ sas' # NULL /\ sas'.verified
      PROVE  IInv'
  <2>1. Good(sas', f, stored, c) /\ Gen(sas') = Gen(s)
    <3>1. CASE sas' = s
      BY <1>2, <3>1
    <3>2. CASE sas' # s
      BY <1>1, <1>2, <1>4, <1>5, <3>2, SasChanged DEF Answers
    <3> QED BY <3>1, <3>2
  <2>2. Good(sas', flight', stored, c)
    <3>1. CASE flight' = f
      BY <2>1, <3>1
    <3>2. CASE flight' # f
      <4>1. PICK kind, call : /\ flight' = Requested(f, kind, call, r.gen)
                              /\ call \in {"match", r.call}
                              /\ kind \in {"devices", "done", "cancel"}
                              /\ kind = "done" => c /\ sas' # NULL /\ sas'.verified
        BY <1>5, <3>2
      <4>2. r.gen <= Gen(sas')
        BY <1>3, <2>1
      <4> HIDE DEF f
      <4>3. /\ kind \in {"ready", "accept", "devices", "key", "mac", "done", "cancel"}
            /\ call \in Call \cup {"match", "user", NULL}
            /\ kind \notin {"ready", "accept", "mac"}
        BY <1>3, <4>1
      <4>4. Good(sas', Requested(f, kind, call, r.gen), stored, c)
        BY <1>3, <2>1, <4>1, <4>2, <4>3, RequestsMore
      <4> QED BY <4>1, <4>4
    <3> QED BY <3>1, <3>2
  <2>3. "mac" \in Marks(sas') => "mac" \in Marks(s)
    BY <1>5 DEF Answers, Own
  <2>4. Marks(sas') \subseteq told \cup Own
    BY <1>1, <1>5 DEF Answers
  <2> QED BY <1>1, <2>2, <2>3, <2>4, PlainStep
<1>6. CASE r.kind \in {"ready", "accept"}
  <2>1. Continued(r) /\ r.call \in Call /\ r.call # NULL
    BY <1>3, <1>6, Assumed DEF Answer, RequestGood
  <2>2. \/ sas' = s
        \/ IsOf(r) /\ sas' = [s EXCEPT !.marks = @ \cup {"ready-complete"}, !.pending = r.call]
        \/ IsOf(r) /\ sas' = [s EXCEPT !.marks = @ \ {"ready-complete"}, !.pending = NULL]
    BY <2>1 DEF Continued
  <2>3. flight' = f \/ flight' = Requested(f, "devices", r.call, r.gen)
    BY <2>1 DEF Continued
  <2>4. Answers(s, sas', c)
    <3>1. CASE sas' = s
      BY <3>1 DEF Answers
    <3>2. CASE IsOf(r) /\ sas' = [s EXCEPT !.marks = @ \cup {"ready-complete"}, !.pending = r.call]
      <4>1. /\ s # NULL /\ sas' \in Sas /\ sas'.marks = s.marks \cup {"ready-complete"}
            /\ sas'.pending = r.call /\ sas'.gen = s.gen /\ sas'.verified = s.verified
            /\ sas'.emojis = s.emojis /\ sas'.pub_key = s.pub_key /\ sas'.listed = s.listed
            /\ sas'.code = s.code
        BY <1>4, <2>1, <3>2 DEF IsOf, Sas, Mark
      <4>2. SasGood(sas', c) /\ sas' # NULL
        BY <1>4, <2>1, <4>1, Assumed DEF SasGood
      <4> QED BY <4>1, <4>2 DEF Answers, Marks, Own
    <3>3. CASE IsOf(r) /\ sas' = [s EXCEPT !.marks = @ \ {"ready-complete"}, !.pending = NULL]
      <4>1. /\ s # NULL /\ sas' \in Sas /\ sas'.marks = s.marks \ {"ready-complete"}
            /\ sas'.pending = NULL /\ sas'.gen = s.gen /\ sas'.verified = s.verified
            /\ sas'.emojis = s.emojis /\ sas'.pub_key = s.pub_key /\ sas'.listed = s.listed
            /\ sas'.code = s.code
        BY <1>4, <2>1, <3>3 DEF IsOf, Sas, Mark
      <4>2. SasGood(sas', c) /\ sas' # NULL
        BY <1>4, <4>1, Assumed DEF SasGood
      <4> QED BY <4>1, <4>2 DEF Answers, Marks, Own
    <3> QED BY <2>2, <3>1, <3>2, <3>3
  <2> QED BY <1>5, <2>3, <2>4
<1>7. CASE r.kind = "mac"
  <2>1. MatchSent(r) /\ c
    BY <1>3, <1>7 DEF Answer, RequestGood
  <2>2. CASE ~IsOf(r)
    <3>1. sas' = s /\ flight' = f
      BY <2>1, <2>2 DEF MatchSent
    <3> QED BY <1>5, <3>1 DEF Answers
  <2>3. CASE IsOf(r)
    <3>1. sas' = [s EXCEPT !.marks = @ \cup {"mac-sent"}] /\ s # NULL
      BY <2>1, <2>3 DEF MatchSent, IsOf
    <3>2. /\ sas' \in Sas /\ sas'.marks = s.marks \cup {"mac-sent"}
          /\ sas'.pending = s.pending /\ sas'.gen = s.gen /\ sas'.verified = s.verified
          /\ sas'.emojis = s.emojis /\ sas'.pub_key = s.pub_key /\ sas'.listed = s.listed
          /\ sas'.code = s.code
      BY <1>4, <3>1 DEF Sas, Mark
    <3>3. SasGood(sas', c) /\ sas' # NULL
      BY <1>4, <2>1, <3>1, <3>2, Assumed DEF SasGood
    <3>4. Answers(s, sas', c)
      BY <3>1, <3>2, <3>3 DEF Answers, Marks, Own
    <3>5. CASE flight' = f
      BY <1>5, <3>4, <3>5
    <3>6. CASE flight' # f
      <4> DEFINE kind == IF s.code # NULL THEN "cancel" ELSE "done"
      <4>1. flight' = Requested(f, kind, "match", r.gen) /\ "mac" \in s.marks
        BY <2>1, <3>6 DEF MatchSent
      <4>2. kind \in {"cancel", "done"} /\ (kind = "done" => s.verified)
        BY <1>4, <3>1, <4>1 DEF SasGood
      <4> HIDE DEF kind, f, s
      <4> QED BY <1>5, <2>1, <3>2, <3>3, <3>4, <4>1, <4>2
    <3> QED BY <3>5, <3>6
  <2> QED BY <2>2, <2>3
<1>8. CASE r.kind \in {"done", "cancel"}
  <2>1. Ended(r)
    BY <1>8 DEF Answer
  <2>2. flight' = f
    BY <2>1 DEF Ended
  <2>3. CASE ~IsOf(r)
    <3>1. sas' = s
      BY <2>1, <2>3 DEF Ended
    <3> QED BY <1>5, <2>2, <3>1 DEF Answers
  <2>4. CASE IsOf(r)
    <3> DEFINE marks == IF r.kind = "done" THEN s.marks \cup {"completed"} ELSE s.marks
    <3>1. sas' = [s EXCEPT !.listed = FALSE, !.marks = marks] /\ s # NULL
      BY <2>1, <2>4 DEF Ended, IsOf
    <3>2. /\ marks \subseteq Mark /\ s.marks \subseteq marks
          /\ marks \subseteq s.marks \cup {"completed"}
      BY <1>4, <3>1 DEF Sas, Mark
    <3> HIDE DEF marks
    <3>3. /\ sas' \in Sas /\ sas'.marks = marks
          /\ sas'.pending = s.pending /\ sas'.gen = s.gen /\ sas'.verified = s.verified
          /\ sas'.emojis = s.emojis /\ sas'.pub_key = s.pub_key /\ ~sas'.listed
          /\ sas'.code = s.code
      BY <1>4, <3>1, <3>2 DEF Sas
    <3>4. SasGood(sas', c) /\ sas' # NULL
      BY <1>4, <3>1, <3>2, <3>3, Assumed DEF SasGood
    <3>5. Answers(s, sas', c)
      BY <3>1, <3>2, <3>3, <3>4 DEF Answers, Marks, Own
    <3> QED BY <1>5, <2>2, <3>5
  <2> QED BY <2>3, <2>4
<1>9. CASE r.kind \in {"devices", "key"}
  <2>1. flight' = f /\ sas' = s
    BY <1>9 DEF Answer
  <2> QED BY <1>5, <2>1 DEF Answers
<1> QED BY <1>3, <1>6, <1>7, <1>8, <1>9

-----------------------------------------------------------------------------
(* The theorems.                                                           *)

\* The first state is good.
LEMMA FirstGood == Init => IInv
<1> SUFFICES ASSUME Init PROVE IInv
  OBVIOUS
<1>1. BagToSet(flight) = {}
  BY DEF Init, EmptyBag, SetToBag, BagToSet
<1>2. Good(sas, flight, stored, confirmed)
  BY <1>1 DEF Init, Good
<1>3. inbox = <<>> /\ <<>> \in Seq(Message) /\ Len(inbox) = 0 /\ DOMAIN inbox = {}
  BY DEF Init
<1> QED BY <1>2, <1>3 DEF Init, IInv, Marks

\* Every step keeps the invariant.
LEMMA NextKept == IInv /\ [Next]_vars => IInv'
<1> SUFFICES ASSUME IInv, [Next]_vars PROVE IInv'
  OBVIOUS
<1>1. CASE UNCHANGED vars
  BY <1>1, PlainStep DEF vars, IInv
<1>2. CASE \E age \in Age : Begin(age)
  BY <1>2, SayStep, Saying DEF Begin
<1>3. CASE \E ok \in BOOLEAN : Start(ok) \/ Mac(ok)
  BY <1>3, SayStep, Saying DEF Start, Mac
<1>4. CASE \E type \in {"key", "done", "cancel"} : Say(Plain(type))
  BY <1>4, SayStep, Saying
<1>5. CASE \E n \in 1..Len(inbox) : Sync(n)
  BY <1>5, SyncStep
<1>6. CASE Continue \/ Match \/ Cancel
  BY <1>6, ContinueStep, MatchStep, CancelStep
<1>7. CASE \E r \in BagToSet(flight) : Serve(r) \/ Answer(r) \/ \E out \in BOOLEAN : Fail(r, out)
  BY <1>7, ServeStep, AnswerStep
<1> QED BY <1>1, <1>2, <1>3, <1>4, <1>5, <1>6, <1>7 DEF Next

\* The inductive invariant, for any ages, calls and failures.
THEOREM VerificationInvariant == Spec => []IInv
BY FirstGood, NextKept, PTL DEF Spec

\* The data of a verification belong together, whatever the order of messages,
\* answers and calls.
THEOREM VerificationTyped == Spec => []TypeOK
<1>1. IInv => TypeOK
  BY DEF IInv, TypeOK, Good, SasGood, RequestGood
<1> QED BY <1>1, VerificationInvariant, PTL

\* A device is stored as verified (handle_to_device()) only if our user has confirmed
\* and its MAC was right, for any order of messages, answers and failures, and answers
\* to sync of any length.
THEOREM StoredStaysConfirmed == Spec => []StoredIsConfirmed
<1>1. IInv => StoredIsConfirmed
  BY DEF IInv, StoredIsConfirmed, Good
<1> QED BY <1>1, VerificationInvariant, PTL

\* The other side is told that the verification is done only if it is, on both sides.
THEOREM DoneStaysVerified == Spec => []DoneIsVerified
<1>1. IInv => DoneIsVerified
  BY DEF IInv, DoneIsVerified, Good, RequestGood, IsOf
<1> QED BY <1>1, VerificationInvariant, PTL

===============================================================================
