SPECIFICATION FairSpec
CONSTANTS
  Replicas = {r1, r2}
  NoOne = NoOne
  Wanted = 2
  LeaseDuration = 6
  RenewDeadline = 3
  RetryPeriod = 1
  CallBudget = 1
  MaxOutages = 2
  MaxEnds = 0
PROPERTY LoopRunsAgain
