SPECIFICATION FairSpec
CONSTANTS
  Procs = {daemon, dashboard}
  Executors = {daemon}
  Ids = {e1, e2}
  NoId = NoId
  MaxDeadLetterEntries = 1
  MaxReplayAttempts = 2
  PushAttempts = {0, 1}
  MaxClaims = 6
  MaxFaults = 2
INVARIANTS
  ActedIsHeld
  OwnerKeepsClaim
  ReplayBudget
PROPERTIES
  NeverTwice
  RequeuedIsTaken
