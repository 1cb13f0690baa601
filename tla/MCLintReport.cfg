SPECIFICATION Spec
CONSTANTS
  Unset = Unset
  Cent = 10
  Pricing <- SmallPricing
  Paths = {1, 2}
  Documents <- SmallDocuments
  MaxManifestBytes = 4
  MaxDocuments = 3
  Guesses = {1, 4}
INVARIANTS
  FailsLikeItsDocuments
  TableGrouped
  MissingAmountsFlagged
  RangeOrdered
  RoundingBounded
PROPERTIES
  OthersKeepFindings
