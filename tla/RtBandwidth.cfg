CONSTANTS
  N = 2
  RUNTIME_INF = 100
  PERIOD = 3
  RUNTIME = 2
  Runtimes = {0, 1}
  MaxTasks = 2
  MaxTime = 3
  MaxChanges = 2
SPECIFICATION FairSpec
CHECK_DEADLOCK FALSE
INVARIANTS
  RuntimeInv
  ThrottledOff
PROPERTY
  RunsAgain
