----------------------------- MODULE Verification -----------------------------
(***************************************************************************)
(* One verification of another device with short authentication strings:   *)
(* the messages that come with the answers to sync, what CmOlmSas and      *)
(* CmVerificationEvent make of them, the calls of the application and      *)
(* their requests (src/src/cm-olm-sas.c,                                   *)
(* src/src/events/cm-verification-event.c, src/src/cm-client.c).           *)
(*                                                                         *)
(* The other device follows the protocol.  It acts on a request as soon as *)
(* the server has it, which may be long before the request is answered, or *)
(* although the answer is an error.                                        *)
(***************************************************************************)
EXTENDS Integers, Sequences, Bags

CONSTANTS
  Age,      \* ages a request may have when it is read, in seconds
  Call,     \* calls of cm_verification_event_continue_async() at a time
  LostKeys, \* whether the request with our key may fail
  NULL      \* no verification, no call, no error

Code == {"unknown_method", "timeout", "unexpected_message", "key_mismatch"}
Mark == {"request", "start", "key", "mac", "done", "cancel",
         "ready-complete", "mac-sent", "completed"}

\* CmOlmSas, with the event it is attached to
Sas ==
  [ gen: Nat, type: {"request", "start"}, age: Int,
    listed: BOOLEAN,      \* in the list that the application sees
    marks: SUBSET Mark,   \* the data that is attached to the event
    code: Code \cup {NULL},
    pub_key: BOOLEAN, verification_key: BOOLEAN, emojis: BOOLEAN, verified: BOOLEAN,
    pending: Call \cup {NULL} ]   \* the call that waits for the other device to start

ASSUME VerificationAssumption ==
  /\ Age \subseteq Int
  /\ \A call \in Call \cup {NULL} : Call \ {call} # {}
  /\ NULL \notin Call \cup Code \cup Sas

VARIABLES
  inbox,      \* messages of the other device that have not been read
  told,       \* types of the messages it has sent
  heard,      \* types of our messages that it has had, until one of us cancels
  sas,        \* the verification and its CmOlmSas, NULL before there is one
  flight,     \* a bag of requests
  waiting,    \* calls to continue that have not returned
  confirmed,  \* whether our user says that the emojis match
  stored      \* whether the database has the device as verified

vars == <<inbox, told, heard, sas, flight, waiting, confirmed, stored>>

\* ok: a method we know, for a start, or the right MAC; age is that of a request
Message == [type: {"request", "start", "key", "mac", "done", "cancel"},
            ok: BOOLEAN, age: Int]
Request == [kind: {"ready", "accept", "devices", "key", "mac", "done", "cancel"},
            call: Call \cup {"match", "user", NULL}, gen: Nat]

NewSas(gen, m) ==
  [ gen |-> gen, type |-> m.type, age |-> m.age, listed |-> FALSE, marks |-> {},
    code |-> NULL, pub_key |-> FALSE, verification_key |-> FALSE, emojis |-> FALSE,
    verified |-> FALSE, pending |-> NULL ]

Requested(f, kind, call, gen) ==
  f (+) SetToBag({[kind |-> kind, call |-> call, gen |-> gen]})

-----------------------------------------------------------------------------
(* What a message does to acc, [sas, flight, stored, stop].                *)

\* The remainder of a division in C
Rem(a, b) == IF a >= 0 THEN a % b ELSE -((-a) % b)

\* cm_olm_sas_parse_verification_start()
ParseStart(s, m) == IF m.type = "start" /\ ~m.ok THEN [s EXCEPT !.code = "unknown_method"] ELSE s

\* cm_olm_sas_set_key_verification()
SetKeyVerification(s, m) ==
  LET t == ParseStart(s, m)
      minutes == Rem(m.age, 60)
  IN  IF t.code = NULL /\ (minutes < -5 \/ minutes > 10)
      THEN [t EXCEPT !.code = "timeout"] ELSE t

\* cm_olm_sas_parse_verification_mac()
ParseMac(s, m) ==
  IF "key" \notin s.marks /\ s.code = NULL THEN [s EXCEPT !.code = "unexpected_message"]
  ELSE IF s.verified \/ s.code # NULL THEN s
  ELSE IF m.ok THEN [s EXCEPT !.verified = TRUE]
  ELSE [s EXCEPT !.code = "key_mismatch"]

\* verification_event_updated_cb()
Updated(acc) ==
  LET s == acc.sas
  IN  IF s.type = "request" /\ {"start", "ready-complete"} \subseteq s.marks /\ s.pending # NULL
      THEN [acc EXCEPT !.sas.pub_key = TRUE,
                       !.flight = Requested(@, "accept", s.pending, s.gen)]
      ELSE acc

\* cm_olm_sas_matches_event(), of a message with the transaction ID
Matched(acc, m) ==
  LET s == [acc.sas EXCEPT !.marks = @ \cup {m.type}]
      t == CASE m.type = "start"  -> ParseStart(s, m)
             [] m.type = "mac"    -> ParseMac(s, m)
             [] m.type = "cancel" -> IF s.code = NULL THEN [s EXCEPT !.code = "timeout"] ELSE s
             [] m.type = "key"    -> [s EXCEPT !.emojis = @ \/ s.pub_key]
             [] OTHER             -> s
  IN  Updated([acc EXCEPT !.sas = t])

\* With the MAC of the other device enough for the end
HastyAdded(acc) ==
  LET s == acc.sas
      over == "mac" \in s.marks
  IN  [acc EXCEPT !.stored = @ \/ (over /\ s.verified),
                  !.flight = IF over THEN Requested(@, "done", NULL, s.gen) ELSE @]

\* The part of handle_to_device() for an event that is in the list, or has been
\* added: a key is answered with ours, and a MAC is the end once ours was sent
Added(acc) ==
  LET s == acc.sas
      over == {"mac", "mac-sent"} \subseteq s.marks
  IN  [acc EXCEPT !.stored = @ \/ (over /\ s.verified),
                  !.flight = IF over THEN Requested(@, "done", NULL, s.gen) ELSE @]
SentKey(acc, m) ==
  IF m.type # "key" THEN acc
  ELSE [acc EXCEPT !.sas.pub_key = TRUE, !.sas.verification_key = TRUE,
                   !.flight = Requested(@, "key", NULL, acc.sas.gen)]

\* handle_to_device(): whatever is in the list matches the event twice.  Any return
\* leaves out the rest of the messages.
Handled(acc, m) ==
  LET s == acc.sas
      first == SetKeyVerification(NewSas(IF s = NULL THEN 1 ELSE s.gen + 1, m), m)
      once == Matched(acc, m)
  IN  IF acc.stop THEN acc
      ELSE IF s # NULL /\ s.listed
      THEN IF once.sas.code # NULL
           THEN [once EXCEPT !.stop = TRUE,
                             !.flight = Requested(@, "cancel", NULL, s.gen)]
           ELSE Added(SentKey(Matched(once, m), m))
      ELSE IF m.type \notin {"start", "request"} THEN [acc EXCEPT !.stop = TRUE]
      ELSE IF first.code # NULL
      THEN [acc EXCEPT !.stop = TRUE, !.flight = Requested(@, "cancel", NULL, 0)]
      ELSE [acc EXCEPT !.sas = [first EXCEPT !.listed = TRUE]]

-----------------------------------------------------------------------------
(* The other device.                                                       *)

Init ==
  /\ inbox = <<>> /\ told = {} /\ heard = {}
  /\ sas = NULL /\ flight = EmptyBag /\ waiting = {}
  /\ confirmed = FALSE /\ stored = FALSE

Say(m) ==
  /\ "cancel" \notin heard
  /\ m.type \notin told
  /\ CASE m.type = "request" -> told = {}
       [] m.type = "start"   -> told = {} \/ (told = {"request"} /\ "ready" \in heard)
       [] m.type = "key"     -> "start" \in told /\ "accept" \in heard
       [] m.type = "mac"     -> "key" \in told /\ "key" \in heard
       [] m.type = "done"    -> "mac" \in told /\ "mac" \in heard
       [] m.type = "cancel"  -> told # {} /\ "done" \notin told
  /\ inbox' = Append(inbox, m)
  /\ told' = told \cup {m.type}
  /\ heard' = IF m.type = "cancel" THEN {"cancel"} ELSE heard
  /\ UNCHANGED <<sas, flight, waiting, confirmed, stored>>

Plain(type) == [type |-> type, ok |-> TRUE, age |-> 0]
Begin(age)  == Say([Plain("request") EXCEPT !.age = age])
Start(ok)   == Say([Plain("start") EXCEPT !.ok = ok])
Mac(ok)     == Say([Plain("mac") EXCEPT !.ok = ok])

\* What the first n messages do, one after the other
Read[n \in 0..Len(inbox)] ==
  IF n = 0 THEN [sas |-> sas, flight |-> flight, stored |-> stored, stop |-> FALSE]
  ELSE Handled(Read[n - 1], inbox[n])

\* An answer to sync, with the first n messages
Sync(n) ==
  LET acc == Read[n]
  IN  /\ sas' = acc.sas /\ flight' = acc.flight /\ stored' = acc.stored
      /\ inbox' = SubSeq(inbox, n + 1, Len(inbox))
      /\ UNCHANGED <<told, heard, waiting, confirmed>>

-----------------------------------------------------------------------------
(* The application, which offers to continue until there are emojis to     *)
(* compare, shows what is in the list, and waits for a request of its own  *)
(* before it makes another.                                                *)

Shown == sas # NULL /\ sas.listed
Busy == \E r \in BagToSet(flight) : r.call # NULL

\* cm_verification_event_continue_async()
Continue ==
  /\ Shown /\ ~sas.emojis /\ ~Busy
  /\ waiting = {}
  /\ LET call == CHOOSE c \in Call : c # sas.pending
     IN  /\ waiting' = {call}
         /\ IF sas.type = "request" /\ sas.marks \cap {"start", "ready-complete"} = {}
            THEN /\ flight' = Requested(flight, "ready", call, sas.gen)
                 /\ UNCHANGED sas
            ELSE /\ sas' = [sas EXCEPT !.pub_key = TRUE]
                 /\ flight' = Requested(flight, "accept", call, sas.gen)
  /\ UNCHANGED <<inbox, told, heard, confirmed, stored>>

\* cm_verification_event_match_async()
Match ==
  /\ Shown /\ sas.emojis /\ ~Busy
  /\ confirmed' = TRUE
  /\ flight' = Requested(flight, "mac", "match", sas.gen)
  /\ UNCHANGED <<inbox, told, heard, sas, waiting, stored>>

\* cm_verification_event_cancel_async()
Cancel ==
  /\ Shown /\ ~Busy
  /\ flight' = Requested(flight, "cancel", "user", sas.gen)
  /\ UNCHANGED <<inbox, told, heard, sas, waiting, confirmed, stored>>

-----------------------------------------------------------------------------
(* Requests.                                                               *)

\* The server has a message that the other device waits for; nobody minds whether
\* our key could be sent
Rest(r) == flight (-) SetToBag({r})
Serve(r) ==
  /\ BagIn(r, flight) /\ r.kind \in {"ready", "accept", "key", "mac"} \ heard
  /\ "cancel" \notin heard
  /\ heard' = heard \cup {r.kind}
  /\ flight' = IF r.kind = "key" THEN Rest(r) ELSE flight
  /\ UNCHANGED <<inbox, told, sas, waiting, confirmed, stored>>

IsOf(r) == sas # NULL /\ sas.gen = r.gen

\* With the task released although it may not be complete
CarelessContinued(r) ==
  LET waits == IsOf(r) /\ sas.type = "request" /\ "start" \notin sas.marks
      cached == IsOf(r) /\ "ready-complete" \in sas.marks
  IN  IF waits /\ ~cached
      THEN /\ sas' = [sas EXCEPT !.marks = @ \cup {"ready-complete"}, !.pending = r.call]
           /\ flight' = Rest(r)
      ELSE /\ sas' = IF cached THEN [sas EXCEPT !.pending = NULL] ELSE sas
           /\ flight' = Requested(Rest(r), "devices", r.call, r.gen)

\* With the task cached for a start that may have come before
LateContinued(r) ==
  IF IsOf(r) /\ r.kind = "ready"
  THEN /\ sas' = [sas EXCEPT !.marks = @ \cup {"ready-complete"}, !.pending = r.call]
       /\ flight' = Rest(r)
  ELSE /\ sas' = IF IsOf(r) THEN [sas EXCEPT !.marks = @ \ {"ready-complete"}, !.pending = NULL]
                 ELSE sas
       /\ flight' = Requested(Rest(r), "devices", r.call, r.gen)

\* key_verification_continue_cb(): "Cache the task, we shall complete the task once
\* we have "start" event".  Once it has been accepted, the devices are loaded.
Continued(r) ==
  LET cached == IsOf(r) /\ sas.type = "request" /\ "ready-complete" \in sas.marks
      started == IsOf(r) /\ "start" \in sas.marks
  IN  IF IsOf(r) /\ sas.type = "request" /\ ~started /\ ~cached
      THEN /\ sas' = [sas EXCEPT !.marks = @ \cup {"ready-complete"}, !.pending = r.call]
           /\ flight' = Rest(r)
      ELSE /\ sas' = IF cached /\ started
                     THEN [sas EXCEPT !.marks = @ \ {"ready-complete"}, !.pending = NULL]
                     ELSE sas
           /\ flight' = Requested(Rest(r), "devices", r.call, r.gen)

\* With the end whatever the MAC was
RashMatchSent(r) ==
  /\ sas' = IF IsOf(r) THEN [sas EXCEPT !.marks = @ \cup {"mac-sent"}] ELSE sas
  /\ flight' = IF IsOf(r) /\ "mac" \in sas.marks
               THEN Requested(Rest(r), "done", "match", r.gen) ELSE Rest(r)

\* key_verification_match_cb(): the end, or the end of it, if the MAC of the other
\* device came first
MatchSent(r) ==
  /\ sas' = IF IsOf(r) THEN [sas EXCEPT !.marks = @ \cup {"mac-sent"}] ELSE sas
  /\ flight' = IF IsOf(r) /\ "mac" \in sas.marks
               THEN Requested(Rest(r), IF sas.code # NULL THEN "cancel" ELSE "done", "match", r.gen)
               ELSE Rest(r)

\* key_verification_done_cb(), key_verification_cancel_cb()
Ended(r) ==
  /\ sas' = IF ~IsOf(r) THEN sas
            ELSE [sas EXCEPT !.listed = FALSE,
                             !.marks = IF r.kind = "done" THEN @ \cup {"completed"} ELSE @]
  /\ flight' = Rest(r)

\* An answer, which returns to the caller unless there is another request to make
Answer(r) ==
  /\ BagIn(r, flight)
  /\ r.kind \in {"ready", "accept", "key", "mac"} => heard \cap {r.kind, "cancel"} # {}
  /\ CASE r.kind \in {"ready", "accept"} -> Continued(r)
       [] r.kind = "mac"                 -> MatchSent(r)
       [] r.kind \in {"done", "cancel"}  -> Ended(r)
       [] OTHER                          -> flight' = Rest(r) /\ UNCHANGED sas
  /\ waiting' = IF r.kind = "devices" THEN waiting \ {r.call} ELSE waiting
  /\ heard' = IF r.kind = "cancel" THEN {"cancel"} ELSE heard
  /\ UNCHANGED <<inbox, told, confirmed, stored>>

\* An error, whether or not the message has gone out
Fail(r, out) ==
  /\ BagIn(r, flight) /\ (LostKeys \/ r.kind # "key")
  /\ heard' = IF r.kind = "cancel" /\ out THEN {"cancel"} ELSE heard
  /\ flight' = Rest(r) /\ waiting' = waiting \ {r.call}
  /\ UNCHANGED <<inbox, told, sas, confirmed, stored>>

-----------------------------------------------------------------------------
Next ==
  \/ \E age \in Age : Begin(age)
  \/ \E ok \in BOOLEAN : Start(ok) \/ Mac(ok)
  \/ \E type \in {"key", "done", "cancel"} : Say(Plain(type))
  \/ \E n \in 1..Len(inbox) : Sync(n)
  \/ Continue \/ Match \/ Cancel
  \/ \E r \in BagToSet(flight) : Serve(r) \/ Answer(r) \/ \E out \in BOOLEAN : Fail(r, out)

\* The other device goes on, our user as well, and some request is answered in the
\* end: one that ends the verification, if others are
OtherGoesOn ==
  /\ "cancel" \notin heard
  /\ Start(TRUE) \/ Mac(TRUE) \/ \E type \in {"key", "done"} : Say(Plain(type))
Answered(kinds) == \E r \in BagToSet(flight) : r.kind \in kinds /\ Answer(r)
Fairness ==
  /\ WF_told(OtherGoesOn) /\ WF_vars(\E n \in 1..Len(inbox) : Sync(n))
  /\ WF_vars(Continue) /\ WF_vars(Match)
  /\ SF_vars(\E r \in BagToSet(flight) : Serve(r))
  /\ SF_vars(Answered({"ready", "accept", "devices", "mac"})) /\ SF_vars(Answered({"done"}))

Spec == Init /\ [][Next]_vars /\ Fairness
-----------------------------------------------------------------------------
(* Properties.                                                             *)

\* The types of the variables, and how the data of a verification belong together:
\* the call that waits for the start is kept as long as the mark that it does.
TypeOK ==
  /\ inbox \in Seq(Message) /\ BagToSet(flight) \subseteq Request
  /\ sas # NULL =>
       /\ "ready-complete" \in sas.marks <=> sas.pending # NULL
       /\ sas.verified => {"key", "mac"} \subseteq sas.marks
       /\ sas.emojis => sas.pub_key /\ "key" \in sas.marks
       /\ sas.listed => "completed" \notin sas.marks

\* A device is stored as verified only if our user said that the emojis match and
\* the other device sent the right MAC, in whatever order the two happened.
StoredIsConfirmed == stored => confirmed /\ sas.verified

\* The other side is told that the verification is done only after it was, on both
\* sides: a wrong MAC that came first is not forgotten by the answer to ours.
DoneIsVerified ==
  \A r \in BagToSet(flight) : r.kind = "done" /\ IsOf(r) => confirmed /\ sas.verified

\* A verification that nobody cancels is completed, whichever of its messages are
\* read before the answer to the request that they react to.
Cancelled == \/ "cancel" \in heard
             \/ sas # NULL /\ sas.code # NULL
             \/ \E r \in BagToSet(flight) : r.kind = "cancel"
Completed == sas # NULL /\ "completed" \in sas.marks
EventuallyDone == Shown ~> (Cancelled \/ Completed)

\* "Cancel if request is 10+ minutes from the past or 5+ minutes from the future":
\* no such request is shown to the user.
StaleIsCancelled == Shown => sas.age \in -5 * 60 .. 10 * 60
===============================================================================
