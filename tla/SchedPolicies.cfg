CONSTANTS
  InitTask = init
  Tasks = {init, t1}
  Idle = idle
  UINT_MAX = 1
  WRR_FORE_TIMESLICE = 1
  WRR_BACK_TIMESLICE = 1
  Groups = {"/"}
  SchedParams <- ClassParams
  ResetFlags = {FALSE}
  ParamPrios = {2}
  Nices <- RaisedNice
  PiPrios = {50}
  SleepStates = {}
SPECIFICATION Spec
INVARIANTS
  TypeOK
  RunqueueAgrees
  ClassAgrees
  BoostHeld
PROPERTIES
  SetparamKeepsPolicy
  PicksBest
  PreemptsUnlessWrr
