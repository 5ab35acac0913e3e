\* The same instance; two calls told of the short source, the first reported for the long one.
SPECIFICATION Spec
CONSTANTS
  Symbols = {1, 2, 3, 4, 5, 9}
  Ids = {"long", "short"}
  Text <- MCText
  Payloads <- MCPayloads
  Dests = {d1, d2}
  NoDomain = NoDomain
  None = None
  Alone = Alone
  N = 2
  Num = 2
  Den = 3
  ReverseMin = 3
  WindowMax = 2
  WindowSecs = 1
  Ttl = 1
  MaxCalls = 3
  MaxNow = 2
SYMMETRY MCSymmetry
INVARIANT
  SourcesIndependent
CHECK_DEADLOCK FALSE
