SPECIFICATION Spec
CONSTANTS
  None = None
  RepoList <- MCRepoList
  Sha <- MCSha
  Typed <- MCTyped
  DiffType = 0
  MaxOfs = 1
  MaxPath = 2
CHECK_DEADLOCK FALSE
INVARIANTS RepoInv
PROPERTIES LinkArrives PageStays RedirectsRight
