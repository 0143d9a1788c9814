SPECIFICATION Spec
CONSTANTS
  PageSize = 2
  Threads = {t1}
  Mmaps = {m1, m2}
  NoMmap = NoMmap
  MapFailed = MapFailed
  NoAllocation = NoAllocation
  MmapBlockSize = 20
  FallbackDivisor = 2
  MmapOutcomes = {"full", "fallback"}
  MaxGuards = 100
  Sizes = {0, 1, 3}
  ReallocSizes = {}
  CallocArgs <- NoCalloc
  SizeMod = 64
  StaleWords = {0}
SYMMETRY Places
INVARIANTS
  TypeOK
  BlocksTile
  ListsPassCheck
  FreeBlocksJoined
  ElementsCountsBusy
  MmapLinks
  GuardsOnHeaders
PROPERTIES
  BlocksInUseKept
