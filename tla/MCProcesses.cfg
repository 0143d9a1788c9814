SPECIFICATION Spec
CONSTANTS
  Procs = {p1, p2, p3}
  Master = p1
  Addresses = {a1, a2}
  Nowhere = Nowhere
  Mmaps = {m1, m2, m3}
  NoMmap = NoMmap
  Room = 2
  MaxForks = 2
SYMMETRY Symmetry
INVARIANTS
  TypeOK
  StillBacked
  NotShared
  SameList
  PointersShared
CHECK_DEADLOCK FALSE
