SPECIFICATION FairSpec
CONSTANTS
  t1 = t1  t2 = t2  t3 = t3  q = q  k1 = k1  k2 = k2  None = None
  Tx = {t1, t2, t3}
  Parent <- NestedThird
  Plain = {q}
  Conn = {k1, k2}
  Writes <- TwoAndOne
  Drivers = {"postgres", "mysql", "sqlite"}
INVARIANTS WorkLandsAsTold ReturnsClean
PROPERTIES CommitsOnlyOwn EveryCallEnds
CHECK_DEADLOCK FALSE
