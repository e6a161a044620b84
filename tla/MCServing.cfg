SPECIFICATION Spec
CONSTANTS
  None = None
  u1 = u1
  u2 = u2
  Blank = Blank
  a = a
  b = b
  c = c
  ghost = ghost
  pa = pa
  pb = pb
  pc = pc
  Data = Data
  Done = Done
  Char = Char
  Space = Space
  CR = CR
  LF = LF
  Lead = Lead
  Trail = Trail
  Wide = Wide
  Bad = Bad
  Up = Up
  Subject = {a, b, c}
  Caller = {u1, u2}
  LimiterProviders = {"memory", "redis", "noop"}
  Limit = 2
  WindowMs = 2
  MaxKeys = 2
  FailOpen = FALSE
  Costs <- CostsInPlay
  MaxChecks = 3
  MaxFaults = 1
  LimiterHorizon = 3
  Cookie = {a, b}
  Plain = pa
  Special = pb
  Foreign = pc
  Lone = Bad
  Huge = Wide
  MaxOps = 5
  Row = {1, 2, 3, 4}
  MaxLimit = 3
  DefaultLimit = 2
  Limits = {0, 1, 2, 3, 4}
  Instants = {a}
SYMMETRY Symmetric
INVARIANTS
  WindowHolds
  AuthorityIsExact
  WritesAreReadBack
  PagesCoverTheList
  DecodingIsExact
CHECK_DEADLOCK FALSE
