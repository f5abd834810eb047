CONSTANTS
  Recordings = {"a", "b"}
  Timelines = {"", "a", "b", "ab", "ba"}
  Empty = ""
  Erasable = {"b"}
  Uses <- MCUses
  Without <- MCWithout
  Paths = {1, 2, 3}
  NoPath = 0
  Users = {"u1", "u2"}
  Runners = {"n1", "n2"}
  Workers = {"w1", "w2"}
  Teams <- MCTeams
  NoOwner = NoOwner
  MaxAttempts = 2
  MaxTroubles = 2
  Spared <- MCSpared
SPECIFICATION FairSpec
CHECK_DEADLOCK FALSE
INVARIANTS TypeOK MergedAudioPlays DerivedFromTimeline FilesAreAccountedFor OneGeneration ReadyIsEarned
PROPERTIES OperationsEnd LeftoversGo
