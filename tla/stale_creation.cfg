SPECIFICATION Spec
CONSTANTS
  Domains = {d1}
  Requests = {r1, r2}
  Workers = {w1}
  MaxScans = 2
  MaxRetries = 1
  Faults <- NoFaults
  MaxFaults = 0
INVARIANTS
  DomainShowsSomeOutcome
