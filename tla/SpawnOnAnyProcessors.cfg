\* Three processors, a clock of two ticks a second.
CONSTANTS
  ProcessorCount = 3
  TicksPerSec = 2
SPECIFICATION Spec
CHECK_DEADLOCK FALSE
INVARIANT TypeOK
PROPERTY Termination
