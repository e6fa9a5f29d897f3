SPECIFICATION MCSpec
CONSTANTS
  p1 = p1
  Procs = {p1}
  Shards = 2
  Chunks = 2
  Resolution = 1
  MaxChanges = 3
  u1 = u1
  u2 = u2
  Users = {u1, u2}
  MaxPuts = 2
  Sizes = {2, 3}
  Limit = 2
  NameAttempts = 2
  Attempts = 2
  MaxFaults = 2
  MaxDepth = 3
  MaxPattern = 3
  MaxTree = 2
SYMMETRY MCSymmetry
INVARIANTS MemoTrue OneModel OneChangeTolerated ObjectsWhole
           SelectionAsCommitted
CHECK_DEADLOCK FALSE
