\* Three frames: a secret can be read, learned and sent on, and one more frame
\* waits behind.  The child's own requests have ids that the host does not use.
SPECIFICATION Spec
CONSTANTS
  Tiers = {1, 3}
  Actions = {"ask_user"}
  HostKinds = {"read", "send"}
  ChildKinds = {"request", "array"}
  ChildIds = {9}
  Py312 = FALSE
  MaxFrames = 3
  MaxTalk = 1
INVARIANTS
  TypeOK
  RegisteredBeforeDelivered
  NoUnapprovedLeak
  LinesInOrder
  FlushedAtExit
PROPERTY PromiseKept
\* The relay ends.
CHECK_DEADLOCK FALSE
