SPECIFICATION FairSpec
CONSTANTS
  Domains = {d1}
  Requests = {r1, r2}
  Workers = {w1}
  MaxScans = 3
  MaxRetries = 1
  Faults <- NoFaults
  MaxFaults = 0
INVARIANTS
  NoStrandedScan
  LockHeldByOneTrigger
PROPERTIES
  ScanEventuallyEnds
