SPECIFICATION Spec
CONSTANTS
  EvictDest = "L2"
  TwoShires = TRUE
  Storages = {TRUE}
  NrMsgs = 2
INVARIANTS
  Received
CHECK_DEADLOCK FALSE
