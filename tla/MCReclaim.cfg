SPECIFICATION Spec
CONSTANTS
  PageSize = 2
  Threads = {t1}
  Mmaps = {m1}
  NoMmap = NoMmap
  MapFailed = MapFailed
  NoAllocation = NoAllocation
  MmapBlockSize = 28
  FallbackDivisor = 2
  MmapOutcomes = {"full"}
  MaxGuards = 100
  Sizes = {1, 3, 5}
  ReallocSizes = {1, 3}
  CallocArgs <- OneCalloc
  SizeMod = 64
  StaleWords = {0}
INVARIANTS
  NoLeak
  MemoryReturned
  ListsConsistent
  LiveAccessible
