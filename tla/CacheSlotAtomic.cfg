SPECIFICATION FairSpec
CONSTANTS
  p1 = p1
  p2 = p2
  p3 = p3
  past = past
  k1 = k1
  k2 = k2
  Proc <- MCProc3
  Keys = {k1, k2}
  KeyOf <- MCKeyOf3
  PageLen <- MCPageLen
  MaxLen = 2
  TtlOf <- MCTtl
  Bypass = {p2}
  Past = past
  Left = left
  NoFile = NoFile
  NoProc = NoProc
  Hole = Hole
  ErrorPage = ErrorPage
  MaxTime = 2
  MaxFaults = 1
  Sendfile = TRUE
  Lost = Lost
  Torn = Torn
INVARIANTS TypeOK SlotIntact ServedIntact
PROPERTIES SlotNeverPruned ImplementsAtomicSlot
