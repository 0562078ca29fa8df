SPECIFICATION FairSpec
CONSTANTS
  Bots = {b1, b2}
  NoBot = NoBot
  Requests = {q1, q2}
  MaxRequests = 3
  MaxFaults = 1
INVARIANTS
  TypeOK
  StrayHasCause
  BotIsHooked
PROPERTY PodServesBot
