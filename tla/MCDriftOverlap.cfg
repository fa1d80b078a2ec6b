SPECIFICATION Spec
CONSTANTS
  Sweep <- Alone
  FleetWatchers = {periodic, idle}
  MaxHead = 2
  MaxAttempts = 1
SYMMETRY MCSymmetry
INVARIANT BuiltIsInstalled
