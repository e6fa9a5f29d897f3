SPECIFICATION Spec
CONSTANTS
  p1 = p1
  Procs = {p1}
  Shards = 1
  Chunks = 2
  Resolution = 2
  MaxChanges = 2
INVARIANTS MemoTrue
