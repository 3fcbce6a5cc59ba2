CONSTANTS
  CPUs = {c1, c2}
  LOAD_FREQ = 2
  WINDOW = 1
  FIXED_1 = 4
  EXP = {3}
  MaxTasks = 2
  MaxChanges = 4
  MaxLate = 1
  Jumps = {1, 4}
SPECIFICATION FairSpec
INVARIANTS
  LoadInv
PROPERTIES
  SampleExact
  NoResample
  NoOvershoot
  LoadSettles
