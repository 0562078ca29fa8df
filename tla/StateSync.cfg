SPECIFICATION FairSpec
CONSTANTS
  Updates = {u1, u2}
  MaxFaults = 1
INVARIANTS
  TypeOK
  LossHasCause
PROPERTIES
  S3NeverGoesBack
  WritesReachS3
