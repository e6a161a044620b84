SPECIFICATION FairSpec
CONSTANTS
  r1 = r1  r2 = r2  r3 = r3  fpA = fpA  fpB = fpB  None = None
  Request = {r1, r2, r3}
  Fingerprint = {fpA, fpB}
  FpOf <- OneFp
  Version = {1, 2}
  VersionOf <- TwoVersions
  InFlightTtl = 1
  Ttl = 1
  LockTtl = 1
  LockWait = 1
  FailOpen = TRUE
  Faulty <- ReadFaults
  InitialRecords <- UsedStore
  PromptWork = FALSE
  PromptLock = FALSE
INVARIANTS ReplayIsFaithful
PROPERTIES RunsAndClaimsEnd
CHECK_DEADLOCK FALSE
