SPECIFICATION Spec
CONSTANTS
  p1 = p1
  Procs = {p1}
  own = own
  other = other
  Publications = {own, other}
  Good = {own}
  Nobody = nobody
  Absent = absent
  MaxFaults = 2
INVARIANT SameCommit
