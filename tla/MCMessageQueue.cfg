SPECIFICATION FairSpec
CONSTANTS
  m1 = m1  m2 = m2  c1 = c1  c2 = c2  None = None
  Message = {m1, m2}
  Session = {c1, c2}
  Providers = {"memory", "redis", "kafka", "sqs", "pubsub"}
  FreshGroup = FALSE
  LateStart = FALSE
  MaxCrashes = 1
INVARIANTS HandledBeforeSettled
PROPERTIES FailedIsRedelivered CallsEndClean
CHECK_DEADLOCK FALSE
