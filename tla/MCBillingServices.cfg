SPECIFICATION FairSpec
CONSTANTS
  Users = {u1}
  OrderIds = {o1}
  ServiceIds = {s1}
  Workers = {w1, w2}
  Gateway = "coingate"
  UnreliableSteps <- AllButLookups
  MaxFaults = 2
  NoRow = NoRow
INVARIANTS
  PayableIsResolvable
  CompletedIsCredited
  AcknowledgedIsCredited
PROPERTIES
  ServiceMovesByPayment
  KeepsPromise
  PaidIsCredited
\* The bounded instance stops when its order ids are used up.
CHECK_DEADLOCK FALSE
