SPECIFICATION FairSpec
CONSTANTS
  Procs = {p1, p2}
  Models = {m1, m2}
  Nobody = nobody
  NoModel = nomodel
  Size = 2
  MaxFaults = 2
INVARIANTS
  FilesIntact
  Undisturbed
PROPERTIES
  NoRecordLost
  EndsWhenAlone
