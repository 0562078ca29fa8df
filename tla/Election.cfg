SPECIFICATION FairSpec
CONSTANTS
  Replicas = {r1, r2, r3}
  NoOne = NoOne
  Wanted = 2
  LeaseDuration = 6
  RenewDeadline = 3
  RetryPeriod = 1
  CallBudget = 1
  MaxOutages = 1
  MaxEnds = 1
INVARIANTS
  TypeOK
  OneLeads
PROPERTY LoopRunsAgain
