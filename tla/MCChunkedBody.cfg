\* Every fault; a window of two chunks, so that room runs out between them.
\* The safety properties and the liveness ones, under the fair specification.
CONSTANTS
  MaxBytes = 4
  K_MAX_CHUNK_PAYLOAD = 2
  Window = 6
  SourceKind = "ring"
  Faults = {"cancel", "srcfail", "overlend", "rxdrop"}
SPECIFICATION FairSpec
INVARIANTS
  DeliveredInOrder
  EndedIsComplete
  NeverMisframed
  TransferInv
PROPERTIES
  StreamSpec
  ClosedLeadsToEnded
  BothEndsStop
CHECK_DEADLOCK FALSE
