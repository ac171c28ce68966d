CONSTANTS
  None = None
  Default = Default
  FileOwner = FileOwner
  Formats = {"tar", "zip"}
  Stem <- MCStem
  MaxNesting = 2
  Chunk = 2
  MaxLines = 4
  Oddities = TRUE
SPECIFICATION Spec
CHECK_DEADLOCK FALSE
INVARIANTS SettingsInv
PROPERTIES ScanRight ListKeepsRepos
