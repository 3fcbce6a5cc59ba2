CONSTANTS
  a = a
  b = b
  c = c
  d = d
  Groups = {a, b, c, d}
  Parent <- Tree
  Root = Root
  Writers = {w1, w2}
  None = None
  SCALE = 4
  PERIOD = 2
  RUNTIME = 1
  Periods = {2, 3}
  Runtimes = {0, 1, 2, 3, 1000000}
  MaxWrites = 3
SPECIFICATION Spec
SYMMETRY WriterSymmetry
INVARIANTS
  RtInv
  GlobalHolds
  CfsQuotaHolds
