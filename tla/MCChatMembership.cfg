CONSTANTS
  d1 = d1
  d2 = d2
  alice = alice
  bob = bob
  carol = carol
  Device = {d1, d2}
  User = {alice, bob, carol}
  UserOf <- MCUserOf
  Candidate = {alice, bob, carol}
  Gesture <- MembershipGestures
  Viewed = {bob, carol}
  Key <- ChatKey
  Write <- ChatWrite
  Program <- ChatProgram
  InitialDocuments <- SharedChat
  MaxCalls <- MembershipCalls
  MaxPendingWrites = 10
  MaxFaults <- OneKill
SPECIFICATION ChatSpec
INVARIANTS
  ChatInvariant
  ScreensCanShow
PROPERTIES
  LeaveByRemoval
  FieldsLeaveByAdding
CHECK_DEADLOCK FALSE
