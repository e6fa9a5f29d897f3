SPECIFICATION RetrySpec
CONSTANTS
  Procs = {p1}
  Models = {m1}
  Nobody = nobody
  NoModel = nomodel
  Size = 2
  MaxFaults = 2
PROPERTIES
  Resumable
