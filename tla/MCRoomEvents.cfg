SPECIFICATION Spec
CONSTANTS
  alice = alice
  bob = bob
  a1 = a1
  b1 = b1
  b2 = b2
  Room = {r1, r2}
  NoRoom = NoRoom
  User = {alice, bob}
  Me = alice
  Device = {a1, b1, b2}
  Owner <- MCOwner
  MembersOf <- MCMembersOf
  MaxMessages = 1
  MaxChanges = 0
  Files = {1}
  Events = {"join", "leave", "encryption"}
  Fails = {"members", "query", "claim", "upload", "file", "send", "omit", "no_keys"}
SYMMETRY Symmetry
CHECK_DEADLOCK FALSE
INVARIANTS QueriesAreAnswered OneStepAtATime
