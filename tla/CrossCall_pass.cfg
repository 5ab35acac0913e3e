\* Three calls: slices that cross, one before or after them, and two that a
\* window of two still holds.  The clock passes the window's and the TTL's second.
SPECIFICATION Spec
CONSTANTS
  Symbols = {1, 2, 3, 4, 5, 9}
  Ids = {"long", "short"}
  Text <- MCText
  Payloads <- MCPayloads
  Dests = {d1, d2}
  NoDomain = NoDomain
  None = None
  Alone = Alone
  N = 2
  Num = 2
  Den = 3
  ReverseMin = 3
  WindowMax = 2
  WindowSecs = 1
  Ttl = 1
  MaxCalls = 3
  MaxNow = 2
SYMMETRY MCSymmetry
INVARIANTS
  TypeOK
  CrossingIsReported
  ReportIsDeserved
CHECK_DEADLOCK FALSE
