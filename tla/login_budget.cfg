SPECIFICATION Spec
CONSTANTS
  Threads = {t1, t2, t3}
  Clients = {c1}
  Limit = 2
  Window = 3
  MaxStall = 1
  MaxTime = 7
SYMMETRY Symmetry
INVARIANTS
  WindowInvariant
  BudgetPerWindow
PROPERTIES
  RefusedOnlyOverBudget
