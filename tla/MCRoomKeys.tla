------------------------------ MODULE MCRoomKeys ------------------------------
(* Instances of RoomKeys for TLC: the client's user has one device, another *)
(* user two, and both are members of every room.                            *)
EXTENDS RoomKeys, TLC

CONSTANTS alice, bob, a1, b1, b2

MCOwner == [d \in {a1, b1, b2} |-> IF d = a1 THEN alice ELSE bob]
MCMembersOf == [r \in Room |-> {alice, bob}]
\* The rooms are alike, and so are the devices of one user.
Symmetry == Permutations(Room) \cup Permutations({b1, b2})
===============================================================================
