SPECIFICATION FairSpec
CONSTANTS
  NoOne = NoOne
  R1 = R1
  R2 = R2
  Wakers = {w1}
  EventLoops = {e1}
  PassLoops = {p1}
  Callers = {w1, e1, p1}
  Idlers = {l1}
  Deleters = {}
  OnR2 = {}
  ReplicaOf <- TwoReplicas
  Addresses = {1, 2, 3, 4, 5, 6}
  IdleTimeout = 1
  StuckAfter = 2
  MaxEvents = 2
  MaxLags = 0
  Limits <- StallLimits
PROPERTY QuietTenantDrains
