CONSTANTS
  d1 = d1
  d2 = d2
  alice = alice
  bob = bob
  carol = carol
  Device = {d1, d2}
  User = {alice, bob}
  UserOf <- MCUserOf
  Candidate = {}
  Gesture = {"sendMessage"}
  Viewed = {}
  Key <- ChatKey
  Write <- ChatWrite
  Program <- ChatProgram
  InitialDocuments <- SharedChat
  MaxCalls <- MessageCalls
  MaxPendingWrites = 10
  MaxFaults <- OneBreak
SPECIFICATION FairChatSpec
CONSTRAINT OneEach
INVARIANTS
  CausalOrder
  OwnOrder
  LastActiveCovers
PROPERTIES
  MessagesDelivered
  ActivityNoted
CHECK_DEADLOCK FALSE
