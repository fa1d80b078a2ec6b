SPECIFICATION Spec
CONSTANTS
  Sweep <- MCSweep
  FleetWatchers = {periodic, idle}
  MaxHead = 1
  MaxAttempts = 1
SYMMETRY MCSymmetry
INVARIANTS HandoffIsQuiet SealsAreOwned HandsOverTested
