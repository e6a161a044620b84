SPECIFICATION FairSpec
CONSTANTS
  None = None
  MaxBytes = 1
  BufferBytes = 2
  MaxFiles = 1
  Faulty = {"open", "close", "rename", "reopen", "prune", "write"}
  Key <- MCKey
  KeyOf <- MCKeyOf
  BufferSize = 2
  MaxKeys = 1
  Skipped = {2}
  MaxEvents = 3
  MaxNow = 1
  MaxChain = 2
INVARIANTS
  EventsAreAccounted
  CloseIsComplete
  WindowsStayClosed
PROPERTIES
  CloseEnds
CHECK_DEADLOCK FALSE
