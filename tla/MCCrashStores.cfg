SPECIFICATION FairSpec
CONSTANTS
  PageSize = 1
  Procs = {p1, p2}
  Nobody = Nobody
  OwnerDied = OwnerDied
  MmapSize = 12
  Sizes = {1, 3}
  MaxCrashes = 2
  CrashInJoin = FALSE
INVARIANTS
  TypeOK
  Recoverable
  Excluded
  LiveApart
  WalksEnd
  KeptWhileLive
  StoresAddUp
PROPERTIES
  OwnedKept
  HolderLetsGo
