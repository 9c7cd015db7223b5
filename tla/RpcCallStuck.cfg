\* The caller goes away in the middle of a reply longer than the ring.
CONSTANTS
  ReqLen = 1
  RepLen = 3
  ErrLen = 1
  RingCap = 1
  Window = 2
  Faults = {"abandon"}
SPECIFICATION FairSpec
PROPERTY ReplyOkReturns
CHECK_DEADLOCK FALSE
