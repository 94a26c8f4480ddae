SPECIFICATION Spec
CONSTANTS
  Limit = 2
  MaxTime = 6
  MaxBatch = 1
  MaxChanges = 3
INVARIANTS
  TypeOK
  MissedAtMostRemoved
  RepeatedAtMostInserted
  QuietTotalIsSeen
  WalkInvariant
