SPECIFICATION FairSpec
CONSTANTS
  t1 = t1  t2 = t2  t3 = t3  None = None
  Token = {t1, t2}
  Providers = {"memory", "redis", "postgres"}
  Ttls = {1, 2}
  Resends = 1
INVARIANTS HoldersExclude
PROPERTIES KeepsLeasePromise AbandonedLeaseEnds
CHECK_DEADLOCK FALSE
