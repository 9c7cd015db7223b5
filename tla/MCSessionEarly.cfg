\* The caller puts the body back before its end.
CONSTANTS
  Bodies <- MCBodies
  MaxReq = 1
  MaxSuffix = 1
  DrainBlock = 4
  Habits = {"early"}
SPECIFICATION Spec
INVARIANT SuffixStartsAfterBody
CHECK_DEADLOCK FALSE
