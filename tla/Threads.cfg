SPECIFICATION MCSpec
CONSTANTS
  Count = 4
  Concurrency = 3
  None = none
  Helpers = {h1, h2}
  Scorer = scorer
  MaxRows = 2
  MaxBatches = 2
  Input = 2
  Output = 2
  Room = 1
  Interval = 2
  MaxTime = 7
  Total = 2
  p1 = p1
  p2 = p2
  Procs = {p1, p2}
  Nobody = nobody
  MaxFiles = 2
  MaxKills = 1
INVARIANTS EverySlotFilled RowsScored OutputWhole HeartbeatRegular
           RunsRight
PROPERTY CallsEnd
CHECK_DEADLOCK FALSE
