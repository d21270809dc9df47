SPECIFICATION Spec
CONSTANTS
  Programs <- MCDemo
  Results <- MCResults
  KnownSites <- MCSites
  KnownSpills <- MCSpills
INVARIANT SinksExact
