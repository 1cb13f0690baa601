SPECIFICATION Spec
CONSTANTS
  Browsers = {b1}
  GoogleIds = {g1, g2}
  GitHubIds = {h1}
  e1 = e1
  e2 = e2
  Emails = {e1, e2}
  Profiles <- SmallProfiles
  Workers = {w1, w2}
  MaxSignIns = 2
  MaxChanges = 2
  MaxFaults = 0
  None = None
SYMMETRY Sym
INVARIANTS
  TypeOK
  SignedInByHolder
  LinkedToOne
\* The bounded instance stops when its sign-ins are used up.
CHECK_DEADLOCK FALSE
