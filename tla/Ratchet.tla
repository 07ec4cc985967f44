-------------------------------- MODULE Ratchet --------------------------------
(***************************************************************************)
(* What the sessions of an encrypted room promise to its members: nothing  *)
(* is sent with a session whose key they were not given, nothing at an     *)
(* index the key they were given last does not reach, and no two messages  *)
(* at one index of one session, whatever the program forgets between its   *)
(* starts.                                                                 *)
(***************************************************************************)
EXTENDS Integers

CONSTANTS
  Session,
  MaxIndex   \* bound: the messages of a session

VARIABLES
  shared,   \* the index of the key that was shared last, or Nothing
  last      \* the index of the message that was sent last, or Nothing

vars == <<shared, last>>

Nothing == -1
Index == 0..MaxIndex

Init ==
  /\ shared = [s \in Session |-> Nothing]
  /\ last = [s \in Session |-> Nothing]

Share(s, i) ==
  /\ i > last[s] /\ i >= shared[s]
  /\ shared' = [shared EXCEPT ![s] = i]
  /\ UNCHANGED last

Send(s, i) ==
  /\ shared[s] # Nothing /\ i >= shared[s]
  /\ i > last[s]
  /\ last' = [last EXCEPT ![s] = i]
  /\ UNCHANGED shared

Next == \E s \in Session, i \in Index : Share(s, i) \/ Send(s, i)

Spec == Init /\ [][Next]_vars

===============================================================================
