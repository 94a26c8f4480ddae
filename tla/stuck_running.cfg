SPECIFICATION Spec
CONSTANTS
  Domains = {d1}
  Requests = {r1}
  Workers = {w1}
  MaxScans = 2
  MaxRetries = 1
  Faults <- DbErrors
  MaxFaults = 1
INVARIANTS
  NoScanStuckRunning
