SPECIFICATION Spec
CONSTANTS
  Addresses = {a1, a2}
  Callers = {c1, c2}
  Unit = 2
  Burst = 3
  MaxWindow = 14
  None = None
INVARIANTS
  TypeOK
  RateBounded
  OneLimiterEach
PROPERTIES
  OwnBuckets
