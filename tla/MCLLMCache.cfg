CONSTANTS
  Callers = {c1, c2}
  NoCaller = NoCaller
  Sources = {s1}
  RefSets <- MCRefSets
  LeaseTTL = 1
  MaxRequests = 2
  MaxOutages = 1
SPECIFICATION FairSpec
CHECK_DEADLOCK FALSE
INVARIANTS
  TypeOK
  DurableIsErasable
  HotCopiesAreChecked
PROPERTIES
  ReadyIsImmutable
  RequestsEnd
  PurgesEnd
