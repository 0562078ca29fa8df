SPECIFICATION Spec
CONSTANTS
  None = None
  M1 = m1
  Claimers = {c1, c2, c3}
  Managers = {m1}
  Requests = {}
  RunsIn <- OneEach
  WarmPods = {p1, p2, p3}
  Default = 2
  Wanted = {}
  IntRange = 4
  MaxFaults = 1
  MaxPuts = 0
  MaxLosses = 1
SYMMETRY PoolSymmetry
INVARIANTS
  TypeOK
  ClaimedOnce
  LeaksAreFaults
