\* The exchanging modes against the "foreign data on each processor" claim.
CONSTANTS
  RegionCount = 2
  ProcsPerRegion = 2
  Multiplier = 2
SPECIFICATION Spec
CHECK_DEADLOCK FALSE
INVARIANT ExchangeCrossesProcessors
