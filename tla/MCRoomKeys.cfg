SPECIFICATION Spec
CONSTANTS
  alice = alice
  bob = bob
  a1 = a1
  b1 = b1
  b2 = b2
  Room = {r1, r2}
  NoRoom = NoRoom
  User = {alice, bob}
  Me = alice
  Device = {a1, b1, b2}
  Owner <- MCOwner
  MembersOf <- MCMembersOf
  MaxMessages = 2
  MaxChanges = 1
  Files = {2}
  Events = {}
  Fails = {"query", "claim", "upload", "file", "send", "no_keys"}
SYMMETRY Symmetry
CHECK_DEADLOCK FALSE
INVARIANTS TypeOK QueriesAreAnswered OneStepAtATime StaleDevicesAreMarked
PROPERTY ImplementsOutbox
