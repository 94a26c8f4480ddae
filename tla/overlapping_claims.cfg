SPECIFICATION Spec
CONSTANTS
  Domains = {d1}
  Requests = {r1, r2}
  Workers = {w1, w2}
  MaxScans = 2
  MaxRetries = 0
  Faults <- NoFaults
  MaxFaults = 0
INVARIANTS
  OneRunningScanPerDomain
