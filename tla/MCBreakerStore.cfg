SPECIFICATION StoreSpec
CONSTANTS
  AgentStores = {daemon, dashboard}
  WinnerStores = {auction}
  AgentKeys = {x}
  WinnerKeys = {w}
  FailureThreshold = 1
  MaxFaults = 1
  Nothing = Nothing
INVARIANTS
  WinnersPersist
  NoRestoredWedge
