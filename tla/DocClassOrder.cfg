CONSTANTS
  InitTask = init
  Tasks = {init, t1, t2}
  Idle = idle
  UINT_MAX = 1
  WRR_FORE_TIMESLICE = 1
  WRR_BACK_TIMESLICE = 1
  Groups = {"/"}
  SchedParams <- WrrParams
  ResetFlags = {FALSE}
  ParamPrios = {}
  Nices = {0}
  PiPrios = {}
  SleepStates = {"INTERRUPTIBLE"}
SPECIFICATION FairSpec
PROPERTIES
  WrrTurnAlways
