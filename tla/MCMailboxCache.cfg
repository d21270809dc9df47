SPECIFICATION Spec
CONSTANTS
  EvictDest = "L2"
  TwoShires = FALSE
  Storages = {TRUE, FALSE}
  NrMsgs = 3
INVARIANTS
  Received
  OneWriter
  PostKept
CHECK_DEADLOCK FALSE
