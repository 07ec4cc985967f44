-------------------------------- MODULE Outbox --------------------------------
(***************************************************************************)
(* What a room promises of the messages it is given, whatever it takes to  *)
(* encrypt them: each is sent once, one at a time, in the order in which   *)
(* the application queued them, and the application is told how it ended.  *)
(***************************************************************************)
EXTENDS Naturals, Sequences

CONSTANTS
  Room,
  MaxMessages   \* bound: the messages queued in one room

VARIABLES
  waiting,   \* for each room, the messages that are queued
  sending,   \* the message that is being sent, or 0
  finished   \* the messages whose task has returned, and whether they were sent

vars == <<waiting, sending, finished>>

Message == 1..MaxMessages

\* The messages of a room so far; they are numbered as they are queued.
Total(r) == Len(waiting[r]) + Len(finished[r]) + IF sending[r] = 0 THEN 0 ELSE 1

Init ==
  /\ waiting = [r \in Room |-> <<>>]
  /\ sending = [r \in Room |-> 0]
  /\ finished = [r \in Room |-> <<>>]

\* The room's queue, with a message more or as it is.
Queues(r) ==
  {waiting[r]} \cup (IF Total(r) < MaxMessages THEN {Append(waiting[r], Total(r) + 1)} ELSE {})

\* The messages whose task has returned, with the one that is being sent or without it.
Endings(r) ==
  {finished[r]} \cup (IF sending[r] = 0 THEN {}
                      ELSE {Append(finished[r], [msg |-> sending[r], ok |-> ok]) : ok \in BOOLEAN})

\* One message is queued, or one task returns; a room that sends nothing may
\* take the next message at once.
Step(r) ==
  \E queue \in Queues(r), ended \in Endings(r) :
    LET busy == IF ended = finished[r] THEN sending[r] ELSE 0
    IN /\ queue = waiting[r] \/ ended = finished[r]
       /\ finished' = [finished EXCEPT ![r] = ended]
       /\ \/ /\ waiting' = [waiting EXCEPT ![r] = queue]
             /\ sending' = [sending EXCEPT ![r] = busy]
          \/ /\ busy = 0 /\ queue # <<>>
             /\ waiting' = [waiting EXCEPT ![r] = Tail(queue)]
             /\ sending' = [sending EXCEPT ![r] = Head(queue)]

Next == \E r \in Room : Step(r)

Spec == Init /\ [][Next]_vars

===============================================================================
