SPECIFICATION Spec
CONSTANTS
  Users = {u1}
  Workers = {w1, w2}
  MonthlyCheckLimit <- SmallLimits
  LastMonth = 1
  MaxCalls = 4
  UnreliableSteps <- AllSteps
  MaxFaults = 1
SYMMETRY Sym
INVARIANTS
  TypeOK
  OvershootBounded
  ServedIsCounted
\* The bounded instance stops when its calls and months are used up.
CHECK_DEADLOCK FALSE
