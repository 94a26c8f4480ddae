SPECIFICATION Spec
CONSTANTS
  Domains = {d1}
  Requests = {r1}
  Workers = {w1, w2}
  MaxScans = 2
  MaxRetries = 1
  Faults <- AllFaults
  MaxFaults = 1
INVARIANTS
  TypeOK
  RowsInvariant
  NoOrphanRows
  CompletedHasAssets
  EveryScanIsSeenTo

  
