CONSTANTS
  p = p
  q = q
  s = s
  t = t
  m = m
  n = n
  Items = {1}
  Scorers = {s, t}
  Models = {m, n}
  Fingerprints <- MCFingerprints
  Damaged = damaged
  None = none
  Unusable = unusable
  Earlier = {}
  MaxFaults = 1
  Plans = {p, q}
  Requests <- MCRequests
  MaxWorkers <- MCMaxWorkers
  Size <- MCSize
  Identities = {pipeline}
  Oversized = {q}
  Hosted = {}
SPECIFICATION Spec
INVARIANTS ResultsTrue NothingUnmeasured
CHECK_DEADLOCK FALSE
