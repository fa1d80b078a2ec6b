SPECIFICATION StormSpec
CONSTANTS
  Sweep <- Alone
  FleetWatchers = {periodic, idle}
  MaxHead = 1
  MaxAttempts = 2
INVARIANT AttemptsAreCapped
