SPECIFICATION FairSpec
CONSTANTS
  Procs = {p1, p2}
  Keys = {k1, k2}
  NoProc = noProc
  NoKey = noKey
  MaxSize = 2
  Limit = 3
  MaxAge = 1
  SweepInterval = 1
  MaxTime = 2
INVARIANTS
  LiveTemporariesKept
  AccountingExact
  NextExpiryConservative
PROPERTIES
  ExpiredNotRevived
  ImplementsDirectory
PROPERTY LockReleased
