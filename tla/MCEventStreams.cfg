SPECIFICATION FairSpec
CONSTANTS
  s1 = s1  s2 = s2  s3 = s3  None = None
  Socket = {s1, s2, s3}
  Transports = {"sse", "websocket"}
  Reactive = {"open", "message", "close"}
  MaxDepth = 2
INVARIANTS OneConnection ClosedIsQuiet NeverStranded
PROPERTIES DropsHeal
