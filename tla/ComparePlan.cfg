\* One repository whose only changes are two empty files of different
\* languages and a third file; three workers.
CONSTANTS
  Items = {1, 2, 3}
  Scorers = {s}
  Models = {m}
  Fingerprints <- MCFingerprints
  Damaged = damaged
  None = none
  Unusable = unusable
  Earlier = {}
  MaxFaults = 0
  Plans = {p}
  Requests <- MCRequests
  MaxWorkers <- MCMaxWorkers
  Size <- MCSize
SPECIFICATION PlanSpec
INVARIANT PlanAccepted
CHECK_DEADLOCK FALSE
