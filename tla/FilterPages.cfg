CONSTANTS
  None = None
  Commands <- MCCommands
  Pages <- MCPages
  Keeps <- MCKeeps
  PipeSize = 1
  MaxDies = 2
  MaxLen = 2
SPECIFICATION Spec
CHECK_DEADLOCK FALSE
INVARIANTS OutputInv HookFree
PROPERTIES RequestEnds
