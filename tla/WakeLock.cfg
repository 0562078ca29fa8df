SPECIFICATION FairSpec
CONSTANTS
  Callers = {c1, c2, c3}
  NoOne = NoOne
  WakeLockTTL = 5
  PodReadyWait = 3
  CallBudget = 1
INVARIANTS
  TypeOK
  ExclusiveSlowPath
  SlowPathOwnsKey
  PollOutlivesSlowPath
PROPERTIES
  ImplementsMutex
  KeyNeverStuck
  EveryCallReturns
