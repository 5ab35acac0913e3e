\* One asker at a time, as in the relay; two calls in a row, two companion
\* programs, one of which may stop reading for a while. The set of clients may be
\* rebuilt whenever a second one joins: more often than CPython does it.
SPECIFICATION Spec
CONSTANTS
  k1 = k1
  k2 = k2
  c1 = c1
  c2 = c2
  Calls = {k1, k2}
  Clients = {c1, c2}
  MaxOpen = 1
  Ids = {1, 2}
  Slow = {c1}
  TableRoom = 1
  Py312 = FALSE
SYMMETRY CallSymmetry
INVARIANTS
  TypeOK
  AllowNeedsApproval
  WaitingIsAnnounced
  OneVerdict
  AnnouncedApprovalHolds
PROPERTY PromiseKept
\* Everything may be over: calls settled, broker stopped, programs gone.
CHECK_DEADLOCK FALSE
