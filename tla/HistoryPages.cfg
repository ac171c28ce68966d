SPECIFICATION Spec
CONSTANTS
  None = None
  Names <- MCNames
  Histories <- MCHistories
  Count = 2
  FollowLinks = TRUE
  MaxCommits = 5
  Queues <- MCQueues
  Limits <- MCLimits
  MaxLine = 4
  FirstSlots = 1
  Author = {ann, bob}
  Columns = 5
  DefaultTop = 1
  Years <- MCYears
  Clock <- MCClock
  Dated <- MCDated
  MaxStats = 3
  MaxDated = 2
  MaxTicks = 1
INVARIANTS LogInv RowsOwn SideBySide DiffInv TableInv
