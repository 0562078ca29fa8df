SPECIFICATION FairSpec
CONSTANTS
  None = None
  M1 = m1
  Claimers = {}
  Managers = {m1, m2}
  Requests = {a1}
  RunsIn <- OneEach
  WarmPods = {p1, p2}
  Default = 1
  Wanted = {0, 2, 5}
  IntRange = 3
  MaxFaults = 1
  MaxPuts = 1
  MaxLosses = 1
INVARIANT TargetsAreAskedFor
PROPERTY PoolFollowsTarget
