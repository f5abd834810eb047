CONSTANTS
  Workers = {w1}
  NoOwner = NoOwner
  Total = 3
  MaxAttempts = 3
  LeaseTTL = 1
  Budgets <- TimeOnly
  MaxRetries = 1
SPECIFICATION Spec
CHECK_DEADLOCK FALSE
INVARIANTS
  CompletedIsComplete
