SPECIFICATION Spec
CONSTANTS
  Users = {u1}
  OrderIds = {o1}
  ServiceIds = {s1}
  Workers = {w1}
  Gateway = "nowpayments"
  UnreliableSteps <- AllSteps
  MaxFaults = 1
  NoRow = NoRow
SYMMETRY Sym
INVARIANTS
  AcknowledgedIsCredited
\* The bounded instance stops when its order ids are used up.
CHECK_DEADLOCK FALSE
