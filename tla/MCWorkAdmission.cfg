SPECIFICATION FairSpec
CONSTANTS
  Calls = {c1}
  Sprints = {s1, s2}
  Workers = {w1}
  Slots = 2
  QueueLimit = 1
  NoRequest = NoRequest
CHECK_DEADLOCK FALSE
INVARIANTS
  SealedIsQuiet
  SlotsAreOwned
  ShutdownDrains
PROPERTIES
  LeasesEnd
  ShutdownEnds
