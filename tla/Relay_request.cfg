\* The child numbers its own requests from 1, as the host does.
SPECIFICATION Spec
CONSTANTS
  Tiers = {1}
  Actions = {"ask_user"}
  HostKinds = {"read", "send"}
  ChildKinds = {"request"}
  ChildIds = {1}
  Py312 = FALSE
  MaxFrames = 2
  MaxTalk = 1
INVARIANT AnswersAreRegistered
CHECK_DEADLOCK FALSE
