CONSTANTS
  d1 = d1
  d2 = d2
  alice = alice
  bob = bob
  carol = carol
  Device = {d1, d2}
  User = {alice, bob, carol}
  UserOf <- MCUserOf
  Candidate = {bob, carol}
  Gesture <- CreationGestures
  Viewed = {bob}
  Key <- ChatKey
  Write <- ChatWrite
  Program <- ChatProgram
  InitialDocuments <- NoChat
  MaxCalls <- CreationCalls
  MaxPendingWrites = 10
  MaxFaults <- NoFaults
SPECIFICATION ChatSpec
INVARIANT
  MembersHaveDocuments
CHECK_DEADLOCK FALSE
