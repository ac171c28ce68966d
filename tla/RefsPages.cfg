SPECIFICATION Spec
CONSTANTS
  None = None
  Base <- MCBase
  Digits = {"1"}
  Id <- MCId
  Names <- MCNames
  Repos <- MCRepos
  Files <- MCFiles
  NewRefs <- MCNewRefs
  IntMax = 7
  MaxPushes = 1
CHECK_DEADLOCK FALSE
INVARIANTS ListsInv LinkServes
