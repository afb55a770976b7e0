SPECIFICATION Spec
CONSTANTS
  reader = reader
  sender = sender
  key = key
  Null = Null
  Threads <- MCThreads
  Reader = reader
  Keys <- MCKeys
  TIMEOUT = 1
  PollTimeout = 2
  StrayReads <- AnyStray
  MaxRequests = 2
  MaxTime = 2
  MaxDepth = 2
  MaxQueue = 2
INVARIANT SuccessMeansDone
CHECK_DEADLOCK FALSE
