\* Every habit of the caller; a drain block both shorter and longer than what
\* is left; a request of up to three bytes or a response of up to three.
CONSTANTS
  Bodies <- MCBodies
  MaxReq = 3
  MaxSuffix = 3
  DrainBlock = 2
  Habits = {"skip", "early", "take", "retry", "again"}
SPECIFICATION Spec
CONSTRAINT OneWayLarge
INVARIANTS
  
  BodyIsBody
  FinishedIsWhole
  SessionInv
  SuffixAligned
CHECK_DEADLOCK FALSE
