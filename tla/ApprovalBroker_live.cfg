\* Two calls asked at once, one companion program that may be slow but reads,
\* and Python >= 3.12.
SPECIFICATION FairSpec
CONSTANTS
  k1 = k1
  k2 = k2
  c1 = c1
  Calls = {k1, k2}
  Clients = {c1}
  MaxOpen = 2
  Ids = {1, 2}
  Slow = {c1}
  TableRoom = 4
  Py312 = TRUE
INVARIANT WaitingIsAnnounced
PROPERTIES
  AskedIsSettled
  PromiseKept
CHECK_DEADLOCK FALSE
