SPECIFICATION FairSpec
CONSTANTS
  Notes = {1, 2}
  Runs = {r1, r2}
  Asks = {q1, q2}
  None = None
  Modes <- Any
INVARIANTS SearchIsTrue NeverBlind AnswerIsMine
PROPERTIES AskReturns StartIndexes
CHECK_DEADLOCK FALSE
