SPECIFICATION Spec
CONSTANTS
  Programs <- MCSparse
  Results <- MCResults
  KnownSites <- MCSites
  KnownSpills <- MCSpills
INVARIANT DetectReadsComputed
