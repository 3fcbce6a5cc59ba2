SPECIFICATION Spec
CONSTANTS
  N = 3
  Tasks = {t1}
  LLC <- Apart
  MaxChanges = 2
  NONE = NONE
  IDLE = IDLE
  STOP = STOP
INVARIANTS RunsAllowed DeadEmpty CpusetHeld
