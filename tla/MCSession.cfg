CONSTANTS
  alice = alice
  bob = bob
  NoUser = NoUser
  Account = {alice, bob}
  InitialAccounts = {alice}
  MaxPendingWrites = 1
  MaxMessages = 1
  MaxSignIns = 2
  MaxFaults <- MCMaxFaults
SPECIFICATION LiveSpec
CONSTRAINT OneTrouble
INVARIANTS
  SessionTypeOK
  CommittedAsOwner
  ViewsFollowUser
  HandlersKept
  OwnQueue
  EveryAccountIsListed
PROPERTIES
  ImplementsWriteLog
  EventuallySent
CHECK_DEADLOCK FALSE
