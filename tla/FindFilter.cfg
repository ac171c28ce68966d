SPECIFICATION Spec
CONSTANTS
  p1 = p1
  p2 = p2
  p3 = p3
  past = past
  k1 = k1
  k2 = k2
  Proc <- MCProc2
  Keys = {k1, k2}
  KeyOf <- MCKeyOf2
  PageLen <- MCPageLen
  MaxLen = 2
  TtlOf <- MCTtl
  Bypass = {}
  Past = past
  Left = left
  NoFile = NoFile
  NoProc = NoProc
  Hole = Hole
  ErrorPage = ErrorPage
  MaxTime = 2
  MaxFaults = 0
  Sendfile = TRUE
  Lost = Lost
  Torn = Torn
INVARIANT FilledIntact
