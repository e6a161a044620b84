SPECIFICATION StoresSpec
CONSTANTS
  Corrupt = Corrupt
  None = None
  k1 = k1
  k2 = k2
  k3 = k3
  v1 = v1
  v2 = v2
  c1 = c1
  c2 = c2
  big = big
  Key = {k1, k2, k3}
  Value = {v1, v2}
  Client = {c1, c2}
  CacheProviders = {"memory", "redis", "web", "noop"}
  MaxEntries = 2
  ExpiryMs = 2
  Requests <- Batches
  CacheHorizon = 2
  MaxCalls = 3
  SecretName = {k1}
  Secret = {v1}
  Bare = {k2}
  Under <- Prefixed
  Reader = {c1, c2}
  Sources = {"env", "static", "noop", "ssm", "gcp", "kubectl"}
  TtlMs = 1
  Latency = 1
  SecretHorizon = 3
  Gets <- SecretGets
  MaxReads = 3
  MaxRotations = 1
  NumKeys = 2
  Version = {v1, v2, big}
  Typed = {v1}
  TooLarge = {big}
  User = {c1, c2}
  Backends = {"memory", "filesystem", "s3", "gcp", "noop"}
  PageSize = 1
  MaxJobs = 3
  MaxBreakdowns = 1
SYMMETRY Symmetric
INVARIANTS
  ReadsAreLive
  StoresAreTruthful
PROPERTIES
  LossIsJustified
CHECK_DEADLOCK FALSE
