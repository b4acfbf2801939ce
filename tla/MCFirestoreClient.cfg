CONSTANTS
  d1 = d1
  d2 = d2
  chat = chat
  member = member
  Device = {d1, d2}
  Key = {chat, member}
  Write <- MCWrite
  Program <- MCProgram
  InitialDocuments <- MCInitialDocuments
  MaxCalls <- MCMaxCalls
  MaxPendingWrites = 2
  MaxFaults <- MCMaxFaults
SPECIFICATION FairSpec
CONSTRAINT OneBadEnd
INVARIANTS
  QueueInvariant
  CacheFaithful
  QuietAgrees
PROPERTIES
  CacheNeverRegresses
  NoFlickerOnAcknowledge
  EventuallyAnswered
  EventuallyAgree
CHECK_DEADLOCK FALSE
