SPECIFICATION Spec
CONSTANTS
  Procs = {p1, p2}
  Master = p1
  Addresses = {a1, a2, a3}
  Nowhere = Nowhere
  Mmaps = {m1, m2, m3, m4}
  NoMmap = NoMmap
  Room = 1
  MaxForks = 2
SYMMETRY Symmetry
INVARIANT
  NoneCircles
CHECK_DEADLOCK FALSE
