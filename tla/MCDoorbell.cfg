SPECIFICATION Spec
CONSTANTS
  Slot <- MCSlot
  NrWords = 2
  WordOf <- MCWordOf
  Waker = {w1, w2}
  InitCredits = 1
  CreditMax = 6
  MaxCalls = 3
INVARIANTS
  NoLostWakeup
  IInv
  WakeAccounted
  QueueExact
PROPERTIES
  WakeDelivered
  LeavesWhenOver
CHECK_DEADLOCK FALSE
