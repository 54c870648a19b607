SPECIFICATION Spec
CONSTANTS
  Kinds = {"V", "E", "VE"}
  Gids <- LookupGids
  Field = {p, q}
  W = 4
  MaxClock = 4
  RealTime = TRUE
  Epoch = 1
  MaxTicks = 3
  Period = 2
SYMMETRY FieldSymmetry
INVARIANTS AsOfFindsVersion RangeFindsVersions AnchoredContent EdgeContent
CHECK_DEADLOCK FALSE
