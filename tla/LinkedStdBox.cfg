\* linked_std_box.rs with 3 workers x 2 increments; the program ends, so
\* its final state has no successor.
CONSTANTS
  ThreadCount = 3
  Records = 2
  None = None
  NoFamily = NoFamily
  Families <- MC_Families
  Instances <- MC_Instances
SPECIFICATION Spec
CHECK_DEADLOCK FALSE
INVARIANTS
  TypeOK
  FinalCountExact
  ReportSeesOwnWork
PROPERTIES
  Termination
