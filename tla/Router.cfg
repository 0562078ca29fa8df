SPECIFICATION MCSpec
CONSTANTS
  Updates = {u1, u2}
  Unsigned = {u2}
  Addresses = {1, 2, 3, 4}
  MaxMishaps = 1
INVARIANTS
  TypeOK
  DuplicatesHaveCauses
  DropsHaveCauses
  AtMostFiveCopies
PROPERTIES
  UpdatesEnd
  ImplementsDelivery
