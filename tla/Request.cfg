SPECIFICATION FairSpec
CONSTANTS
  p1 = p1
  p2 = p2
  Proc <- MCProc
  NoPage = NoPage
  EnableHttpClone = FALSE
  CacheSize = 1
  StaticTtl <- MCNever
  Request <- MCRequest
  AuthFilter = TRUE
  RootTtl = 1
  RepoTtl = 1
  AboutTtl = 1
  SnapshotTtl = 1
  DynamicTtl = 1
  MaxPush = 2
  MaxAge = 2
  MaxFaults = 1
INVARIANTS LoginNeverCached HeadAnswered
PROPERTIES SlotNeverOlder RefPagesRefreshed
