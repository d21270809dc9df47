SPECIFICATION Spec
CONSTANTS
  Programs <- MCPrograms
  Results <- MCResults
  KnownSites <- MCSites
  KnownSpills <- MCSpills
INVARIANTS
  NothingMiswired
  MessagesFit
  OtherKernelsExact
  ScratchFits
  Delivered
  StorageKept
  InOneOrder
  FlowRight
  NeverStuck
  PassEarned
PROPERTY Completes
CHECK_DEADLOCK FALSE
