\* Three calls of any kind, both handlers, a queue of one.
CONSTANTS
  NumCalls = 3
  Handlers = {"inline", "queued"}
  QueueCap = 1
  Reserve = 2
  Faults = {"cancel", "worker"}
SPECIFICATION FairSpec
INVARIANT ServingInv
PROPERTIES
  DroppedForCause
  EveryCallSettled
  CancelStopsListener
CHECK_DEADLOCK FALSE
