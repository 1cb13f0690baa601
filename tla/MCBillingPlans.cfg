SPECIFICATION Spec
CONSTANTS
  Users = {u1, u2}
  OrderIds = {o1, o2}
  ServiceIds = {}
  Workers = {w1, w2}
  Gateway = "nowpayments"
  UnreliableSteps <- AllSteps
  MaxFaults = 1
  NoRow = NoRow
SYMMETRY Sym
INVARIANTS
  TypeOK
  PayableIsResolvable
  PlanIsPaidFor
  CompletedIsCredited
PROPERTIES
  KeepsPromise
\* The bounded instance stops when its order ids are used up.
CHECK_DEADLOCK FALSE
