SPECIFICATION FairSpec
CONSTANTS
  N = 2
  Tasks = {t1, t2}
  LLC <- Apart
  MaxChanges = 1
  NONE = NONE
  IDLE = IDLE
  STOP = STOP
INVARIANTS PlacementInv OneCpu
PROPERTY WakingEnds
