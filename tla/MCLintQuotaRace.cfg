SPECIFICATION Spec
CONSTANTS
  Users = {u1}
  Workers = {w1, w2}
  MonthlyCheckLimit <- SmallLimits
  LastMonth = 0
  MaxCalls = 3
  UnreliableSteps = {}
  MaxFaults = 0
SYMMETRY Sym
INVARIANT QuotaEnforced
CHECK_DEADLOCK FALSE
