SPECIFICATION Spec
CONSTANTS
  Domains = {d1, d2}
  Requests = {r1}
  Workers = {w1}
  MaxScans = 1
  MaxRetries = 1
  Faults <- AllFaults
  MaxFaults = 2
INVARIANTS
  RestartHeals
  EveryScanIsSeenTo
