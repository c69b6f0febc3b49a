\* linked_std_box.rs against the spec's thread-local slot lifetime.
CONSTANTS
  ThreadCount = 3
  Records = 2
  None = None
  NoFamily = NoFamily
  Families <- MC_Families
  Instances <- MC_Instances
SPECIFICATION Spec
CHECK_DEADLOCK FALSE
INVARIANT
  SlotLivesWithThread
