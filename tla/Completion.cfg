CONSTANTS
  Procs = {p1, p2, p3}
  UINT_MAX = 7
  MAX_SCHEDULE_TIMEOUT = 2
  Calls <- SomeCalls
  Signals = {"signal", "kill"}
SPECIFICATION FairSpec
INVARIANTS
  CompletionInv
  NoLostWakeup
  EventsConserved
PROPERTIES
  WokenInOrder
  EventTaken
