SPECIFICATION Spec
CONSTANTS
  b1 = b1
  b2 = b2
  k1 = k1
  k2 = k2
  Bases = {b1, b2}
  defaultBase = b1
  Keys = {k1, k2}
  Home <- TwoHomes
  Processes = {p1, p2}
  None = None
SYMMETRY Sym
INVARIANTS
  TypeOK
  SavedPairVerified
  LastSaveKept
PROPERTIES
  BrokenForGood
