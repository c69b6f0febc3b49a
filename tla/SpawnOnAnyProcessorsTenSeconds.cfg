\* The documented 10 seconds of spinning against the as_secs() > 10 break.
CONSTANTS
  ProcessorCount = 3
  TicksPerSec = 2
SPECIFICATION Spec
CHECK_DEADLOCK FALSE
INVARIANT SpinsTenSeconds
