SPECIFICATION FairBreakerSpec
CONSTANTS
  c1 = c1  c2 = c2  c3 = c3  c4 = c4
  Client = {c1, c2, c3, c4}
  Unpaired = {c1}
  FailureThreshold = 2
  OpenDuration = 2
  HalfOpenMaxAttempts = 2
INVARIANTS FloodBounded CountsConsecutive
PROPERTIES NeverWedges
