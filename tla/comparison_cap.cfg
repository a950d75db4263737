SPECIFICATION ComparisonSpec
CONSTANTS
  OutletOf <- Outlets4
  GroupOf <- Groups3
  Days <- AnyDays
  EvidenceCap = 3
  VariantCap = 3
INVARIANTS ComparisonAccepted
CHECK_DEADLOCK FALSE
