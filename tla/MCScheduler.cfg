SPECIFICATION FairSpec
CONSTANTS
  Agents = {a1}
  Slots = {k1, k2}
  Workers = {w1, w2}
  MaxConcurrent = 2
  MaxFaults = 2
  Edits = {"on_demand", "absent"}
  Requests = {"every"}
  NoJob = NoJob
  NoAgent = NoAgent
  NoSlot = NoSlot
INVARIANTS
  DurableEvidence
  UnsettledIsOwned
  OnlyReactivatedFork
  LaneExclusion
  NoStrandedJob
  GracefulStopIsClean
PROPERTIES
  NoReplay
  HoldIsSticky
  StopReturns
  LaneIsReleased
