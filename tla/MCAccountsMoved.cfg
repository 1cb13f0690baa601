SPECIFICATION Spec
CONSTANTS
  Browsers = {b1}
  GoogleIds = {}
  GitHubIds = {h1}
  e1 = e1
  e2 = e2
  Emails = {e1, e2}
  Profiles <- SmallProfiles
  Workers = {w1}
  MaxSignIns = 2
  MaxChanges = 1
  MaxFaults = 0
  None = None
PROPERTIES
  FoundByProviderId
\* The bounded instance stops when its sign-ins are used up.
CHECK_DEADLOCK FALSE
