\* Lines of three bytes come in pieces of one to four.
SPECIFICATION FairSpec
CONSTANTS
  LineLen = 3
  Chunk = 4
  MaxLines = 3
  MaxTyped = 2
INVARIANTS
  TypeOK
  ShownAsSent
PROPERTY SentIsShownOrOver
\* The program may have exited.
CHECK_DEADLOCK FALSE
