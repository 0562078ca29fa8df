SPECIFICATION FairSpec
CONSTANTS
  NoOne = NoOne
  R1 = R1
  R2 = R2
  Wakers = {w1}
  EventLoops = {}
  PassLoops = {p1}
  Callers = {w1, p1}
  Idlers = {l1, l2}
  Deleters = {d1}
  OnR2 = {l2}
  ReplicaOf <- TwoReplicas
  Addresses = {1, 2, 3, 4, 5, 6}
  IdleTimeout = 1
  StuckAfter = 2
  MaxEvents = 1
  MaxLags = 1
  Limits <- DrainLimits
INVARIANTS
  TypeOK
  HeldInSlowPath
  RunningHasAddress
  BareItemHasCause
PROPERTY QuietTenantDrains
