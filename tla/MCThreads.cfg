SPECIFICATION Spec
CONSTANTS
  PageSize = 2
  Threads = {t1, t2}
  Mmaps = {m1, m2}
  NoMmap = NoMmap
  MapFailed = MapFailed
  NoAllocation = NoAllocation
  MmapBlockSize = 14
  FallbackDivisor = 2
  MmapOutcomes = {"full", "none"}
  MaxGuards = 3
  Sizes = {1}
  ReallocSizes = {2}
  CallocArgs <- NoCalloc
  SizeMod = 64
  StaleWords = {0}
SYMMETRY Places
INVARIANTS
  LiveBacked
  MmapLinks
PROPERTIES
  ImplementsAllocator
