SPECIFICATION FairSpec
CONSTANTS
  LineLen = 2
  Chunk = 3
  MaxLines = 1
  MaxTyped = 0
PROPERTY SentIsShown
CHECK_DEADLOCK FALSE
