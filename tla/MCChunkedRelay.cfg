\* The source of the transfer is another message's chunked body.
CONSTANTS
  MaxBytes = 2
  K_MAX_CHUNK_PAYLOAD = 2
  Window = 6
  SourceKind = "chunked"
  Faults = {}
SPECIFICATION Spec
INVARIANT EndedIsComplete
CHECK_DEADLOCK FALSE
