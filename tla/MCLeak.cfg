SPECIFICATION Spec
CONSTANTS
  PageSize = 2
  Threads = {t1}
  Mmaps = {m1, m2}
  NoMmap = NoMmap
  MapFailed = MapFailed
  NoAllocation = NoAllocation
  MmapBlockSize = 14
  FallbackDivisor = 2
  MmapOutcomes = {"full"}
  MaxGuards = 100
  Sizes = {1, 3}
  ReallocSizes = {}
  CallocArgs <- NoCalloc
  SizeMod = 64
  StaleWords = {0}
INVARIANTS
  NoLeak
