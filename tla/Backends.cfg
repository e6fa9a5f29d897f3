SPECIFICATION FairSpec
CONSTANTS
  p1 = p1
  p2 = p2
  Procs = {p1, p2}
  own = own
  other = other
  Publications = {own, other}
  Good = {own}
  Nobody = nobody
  Absent = absent
  MaxFaults = 2
INVARIANTS LoadedWhole FetchedAsAsked VerifiedStays
PROPERTY LocksReturned
