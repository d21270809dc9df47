SPECIFICATION Spec
CONSTANTS
  Slot <- MCSlot
INVARIANTS
  Linked
  QueueExact
  WakeMeetsWait
PROPERTIES
  ReadyRuns
  WokenRuns
  NeverOvertaken
