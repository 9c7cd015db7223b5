\* Every fault; values three times as long as the ring.
CONSTANTS
  ReqLen = 3
  RepLen = 3
  ErrLen = 1
  RingCap = 1
  Window = 2
  Faults = {"open", "encode", "mismatch", "reject", "srvdrop", "hold", "abandon", "cancel"}
SPECIFICATION FairSpec
INVARIANTS
  OnlyWholeRequestsRun
  CallInv
PROPERTIES
  CallSpec
  CallerReturns
  HandlerReturns
  CancelledCallerReturns
CHECK_DEADLOCK FALSE
