SPECIFICATION Spec
CONSTANTS
  s1 = s1  s2 = s2  r1 = r1  r2 = r2  x = x  y = y
  Senders <- MCSenders
  Receivers <- MCReceivers
  Chars <- MCChars
  BufSize = 2
  Width = 4
INVARIANTS CountMatchesSemaphores
PROPERTY ImplementsBoundedFifo
