CONSTANTS
  Workers = {w1, w2}
  NoOwner = NoOwner
  Total = 2
  MaxAttempts = 2
  LeaseTTL = 2
  Budgets <- MCBudgets
  MaxRetries = 1
SPECIFICATION FairSpec
CHECK_DEADLOCK FALSE
INVARIANTS
  TypeOK
  SpendIsCovered
  PublishedIsTruthful
  CompletedHasNoFailure
  CompletedIsTruthful
PROPERTIES
  ImplementsLifecycle
  EventuallyAtRest
