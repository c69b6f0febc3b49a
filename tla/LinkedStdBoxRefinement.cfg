\* linked_std_box.rs with 3 workers x 2 increments, checked against the
\* abstract family specification; the program ends.
CONSTANTS
  ThreadCount = 3
  Records = 2
  None = None
  NoFamily = NoFamily
  Families <- MC_Families
  Instances <- MC_Instances
SPECIFICATION Spec
CHECK_DEADLOCK FALSE
PROPERTIES
  RefinesLinkedFamilies
