CONSTANTS
  N = 2
  Tasks = {t1, t2, t3}
  Contexts = {x1}
  Idle = Idle
  None = None
  MAX_RT_PRIO = 3
  Prios = {1, 2, 3}
  RT_MAX_TRIES = 2
  MaxChanges = 5
SPECIFICATION FairSpec
CHECK_DEADLOCK FALSE
INVARIANTS
  QueuesInv
  RunsWhereQueued
  LocalOrder
  GlobalOrder
PROPERTY
  Settles
