SPECIFICATION Spec
CONSTANTS
  Config <- MCConfig
  NrMsgs = 5
INVARIANTS
  Protocol
  NoStrayWake
  Intact
  IInv
PROPERTIES
  IsRendezvous
CHECK_DEADLOCK FALSE
