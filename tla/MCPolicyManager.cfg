SPECIFICATION FairSpec
CONSTANTS
  Client = {c1, c2}
  Runner = {r1, r2}
  Free = Free
  Policy = {"p1", "p2"}
  Resource = {"s1", "s2"}
  Visitor = {"v1", "v2"}
  Resources <- MCResources
  Owner <- MCOwner
  Action = {"BLOCK_AND_DROP"}
  DefaultActions <- MCNoActions
  MaxPolicies = 2
CHECK_DEADLOCK FALSE
INVARIANTS OneRunner VisitorsAlive PassComplete
PROPERTIES PassIsolated StuckForever NotifyStartsNoPass StopReturns
