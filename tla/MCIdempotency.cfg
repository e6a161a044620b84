SPECIFICATION Spec
CONSTANTS
  r1 = r1  r2 = r2  r3 = r3  fpA = fpA  fpB = fpB  None = None
  Request = {r1, r2, r3}
  Fingerprint = {fpA, fpB}
  FpOf <- OtherRequest
  Version = {1, 2}
  VersionOf <- OneVersion
  InFlightTtl = 2
  Ttl = 2
  LockTtl = 2
  LockWait = 1
  FailOpen = FALSE
  Faulty <- AllFaults
  InitialRecords <- EmptyStore
  PromptWork = TRUE
  PromptLock = TRUE
SYMMETRY SameRequest
INVARIANTS AtMostOneExecution NoExecutionBehindResult
PROPERTIES OnlyOwnerSettles KeepsPromise
CHECK_DEADLOCK FALSE
