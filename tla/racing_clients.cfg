SPECIFICATION WatchedFairSpec
CONSTANTS
  Domains = {d1}
  Requests = {r1, r2}
  Workers = {w1, w2}
  MaxScans = 2
  MaxRetries = 1
  Faults <- NoFaults
  MaxFaults = 0
INVARIANTS
  NoStrandedScan
  WorkersInvariant
  MirrorInvariant
  OverlappingScansAreRivals
  TriggerCheckStaysValid
  AssetsStoredOnce
  DomainMirrorsLatestScan
PROPERTIES
  FinishedStaysFinished
  ImplementsLifecycle
  ScanEventuallyEnds
