CONSTANTS
  d1 = d1
  d2 = d2
  chat = chat
  member = member
  Device = {d1}
  Key = {chat, member}
  Write <- MCWrite
  Program <- PipelineProgram
  InitialDocuments <- MCInitialDocuments
  MaxCalls <- PipelineMaxCalls
  MaxPendingWrites = 2
  MaxFaults <- PipelineMaxFaults
SPECIFICATION Spec
INVARIANTS
  SuccessIsCommitted
  CommitsInOrder
PROPERTIES
  StoredUntilAnswered
  ImplementsWriteLog
CHECK_DEADLOCK FALSE
