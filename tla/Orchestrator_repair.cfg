SPECIFICATION FairSpec
CONSTANTS
  NoOne = NoOne
  R1 = R1
  R2 = R2
  Wakers = {w1}
  EventLoops = {e1}
  PassLoops = {p1}
  Callers = {w1, e1, p1}
  Idlers = {}
  Deleters = {}
  OnR2 = {p1}
  ReplicaOf <- TwoReplicas
  Addresses = {1, 2, 3, 4, 5, 6}
  IdleTimeout = 1
  StuckAfter = 2
  MaxEvents = 1
  MaxLags = 0
  Limits <- RepairLimits
INVARIANTS
  PollersWaitForHolder
  StrayKeyHasCause
PROPERTIES
  WakesUnderLock
  ObeysMutex
  RepairedInTheEnd
