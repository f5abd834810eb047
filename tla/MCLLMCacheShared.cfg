CONSTANTS
  Callers = {c1, c2}
  NoCaller = NoCaller
  Sources = {s1, s2}
  RefSets <- MCSingles
  LeaseTTL = 1
  MaxRequests = 2
  MaxOutages = 0
SPECIFICATION Spec
CHECK_DEADLOCK FALSE
INVARIANTS
  ReuseIsReferenced
