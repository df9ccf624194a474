SPECIFICATION SpecBoth
CONSTANTS
  One = 10
  Kopeck = 3
  Cent = 2
  TBC = "165"
  Markets <- SomeMarkets
  Targets = {1, 2, 3, 4, 5}
  Filters <- SomeFilters
  Missing = Missing
CHECK_DEADLOCK FALSE
INVARIANTS TypeOK NeverShort NothingToSpare ThinForReal FallbacksMarked UsdCovered UsdCheapest
