SPECIFICATION FairSpec
CONSTANTS
  r1 = r1
  r2 = r2
  r3 = r3
  Req <- MCReq3
  Past = past
  NoFile = NoFile
  Chunks = 2
  Ttl = 0
  MaxTime = 1
  MaxTree = 1
  MaxFaults = 1
INVARIANTS LockInv RcWhole
PROPERTIES NeverOlder NeverBehind RefreshedAfterTtl
