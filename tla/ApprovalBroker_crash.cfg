SPECIFICATION Spec
CONSTANTS
  k1 = k1
  c1 = c1
  c2 = c2
  Calls = {k1}
  Clients = {c1, c2}
  MaxOpen = 1
  Ids = {1}
  Slow = {c1}
  TableRoom = 4
  Py312 = FALSE
INVARIANT NoThirdOutcome
CHECK_DEADLOCK FALSE
