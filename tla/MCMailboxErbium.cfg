SPECIFICATION Spec
CONSTANTS
  EvictDest = "L1"
  TwoShires = FALSE
  Storages = {TRUE, FALSE}
  NrMsgs = 2
INVARIANTS
  Received
CHECK_DEADLOCK FALSE
