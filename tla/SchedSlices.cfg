CONSTANTS
  InitTask = init
  Tasks = {init, t1}
  Idle = idle
  UINT_MAX = 3
  WRR_FORE_TIMESLICE = 2
  WRR_BACK_TIMESLICE = 1
  Groups = {"/", "/bg_non_interactive", "/apps"}
  SchedParams <- WrrParams
  ResetFlags = {TRUE, FALSE}
  ParamPrios = {}
  Nices = {0}
  PiPrios = {}
  SleepStates = {"UNINTERRUPTIBLE"}
SPECIFICATION Spec
INVARIANTS
  RunqueueAgrees
  LoadAgrees
PROPERTIES
  SliceStaysGood
