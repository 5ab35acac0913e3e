\* Two frames of every kind, and every kind of line from the child.
SPECIFICATION FairSpec
CONSTANTS
  Tiers = {1}
  Actions = {"ask_user", "block"}
  HostKinds = {"read", "send", "post", "bad", "odd", "other", "bytes"}
  ChildKinds = {"request", "array", "long"}
  ChildIds = {9}
  Py312 = TRUE
  MaxFrames = 2
  MaxTalk = 1
INVARIANTS
  NoUnapprovedLeak
  LinesInOrder
PROPERTIES
  FrameIsSettled
  EofStops
  PromiseKept
\* The relay ends.
CHECK_DEADLOCK FALSE
