SPECIFICATION FairSpec
CONSTANTS
  Requests = {r1, r2, r3}
  Threads = 1
  PoolSize = 2
  MaxCommits = 1
INVARIANTS
  TypeOK
PROPERTIES
  RefusedOnlyOverloaded
  EveryRequestAnswered
