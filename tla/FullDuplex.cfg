SPECIFICATION Spec
CONSTANTS
  A = A
  B = B
  First <- MCFirst
  Last <- MCLast
  BufSize = 2
  Width = 4
  MaxStarts = 2
INVARIANTS RepliesMatch NeverWaitsForSpace
PROPERTY BothEnd
CHECK_DEADLOCK FALSE
