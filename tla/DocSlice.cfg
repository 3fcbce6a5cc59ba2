CONSTANTS
  InitTask = init
  Tasks = {init, t1}
  Idle = idle
  UINT_MAX = 3
  WRR_FORE_TIMESLICE = 2
  WRR_BACK_TIMESLICE = 1
  Groups = {"/"}
  SchedParams <- WrrParams
  ResetFlags = {FALSE}
  ParamPrios = {}
  Nices = {0}
  PiPrios = {}
  SleepStates = {}
SPECIFICATION Spec
INVARIANTS
  SliceWithinQuota
