SPECIFICATION Spec
CONSTANTS
  Tasks = {t1, t2}
  NoTask = NoTask
INVARIANTS
  ClaimsAreOwned
  AuditAgrees
PROPERTIES
  NoReplay
  DecisionsStand
