CONSTANTS
  p = p
  q = q
  s = s
  t = t
  m = m
  n = n
  Items = {1, 2, 3}
  Scorers = {s}
  Models = {m}
  Fingerprints <- MCOneFingerprints
  Damaged = damaged
  None = none
  Unusable = unusable
  Earlier <- MCOneEarlier
  MaxFaults = 1
  Plans = {p}
  Requests <- MCOneRequests
  MaxWorkers <- MCOneMaxWorkers
  Size <- MCOneSize
  Identities = {pipeline}
  Oversized = {}
  Hosted = {p}
SPECIFICATION FairSpec
INVARIANTS Partitioned Balanced NoFalseAlarm
PROPERTY WorkersEnd
CHECK_DEADLOCK FALSE
