SPECIFICATION Spec
CONSTANTS
  Limit = 2
  MaxTime = 2
  MaxBatch = 3
  MaxChanges = 0
INVARIANTS
  MissedAtMostRemoved
