SPECIFICATION Spec
CONSTANTS
  NoOne = NoOne
  R1 = R1
  R2 = R2
  Wakers = {w1}
  EventLoops = {}
  PassLoops = {p1}
  Callers = {w1, p1}
  Idlers = {l1}
  Deleters = {}
  OnR2 = {}
  ReplicaOf <- TwoReplicas
  Addresses = {1, 2, 3, 4, 5, 6}
  IdleTimeout = 1
  StuckAfter = 2
  MaxEvents = 1
  MaxLags = 0
  Limits <- SpareClaim
PROPERTY WakingPodSpared
