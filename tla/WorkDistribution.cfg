\* One iteration of one worker pair with two payloads each, on two memory regions of two processors.
CONSTANTS
  RegionCount = 2
  ProcsPerRegion = 2
  Multiplier = 2
SPECIFICATION Spec
CHECK_DEADLOCK FALSE
INVARIANT TypeOK
INVARIANT ListsMatchDocumentedModes
PROPERTY IterationCompletes
