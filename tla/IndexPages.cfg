SPECIFICATION Spec
CONSTANTS
  None = None
  IntMax = 7
  MaxPushes = 1
  NewTimes = {4}
  Alphabet <- MCAlphabet
  Lower <- MCLower
  Sites <- MCSites
  Requests <- MCRequests
CHECK_DEADLOCK FALSE
INVARIANTS PagesInv TextsArrive OrderInv
