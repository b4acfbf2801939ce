CONSTANTS
  d1 = d1
  d2 = d2
  chat = chat
  l1 = l1
  l2 = l2
  Device = {d1, d2}
  Key = {chat}
  Write <- MCWrite
  Program <- MCProgram
  InitialDocuments <- MCInitialDocuments
  MaxCalls <- MCMaxCalls
  MaxPendingWrites = 10
  MaxFaults <- MCMaxFaults
  Listener = {l1, l2}
  WithMetadata = {l2}
  WaitsForSync = {l2}
  Matches <- MCMatches
  MaxListens <- MCMaxListens
  MaxUpsets <- MCMaxUpsets
SPECIFICATION TimerSpec
CONSTRAINT OneScenario
INVARIANTS
  ListenersInvariant
  SyncedDocumentsAreServers
  TimerWaitsForServer
PROPERTIES
  EventuallyRaised
CHECK_DEADLOCK FALSE
