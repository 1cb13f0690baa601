SPECIFICATION Spec
CONSTANTS
  Browsers = {b1, b2}
  GoogleIds = {}
  GitHubIds = {h1}
  e1 = e1
  e2 = e2
  Emails = {e1, e2}
  Profiles <- OneProfile
  Workers = {w1, w2}
  MaxSignIns = 2
  MaxChanges = 0
  MaxFaults = 1
  None = None
SYMMETRY Sym
INVARIANTS
  SignInStaysInBrowser
PROPERTIES
  LoneSignInConfirmed
\* The bounded instance stops when its sign-ins are used up.
CHECK_DEADLOCK FALSE
