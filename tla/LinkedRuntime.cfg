\* The linked object API under two threads; refinement of LinkedFamilies.
CONSTANTS
  Threads = {t1, t2}
  MaxHandles = 2
  NoThread = NoThread
  NoFamily = NoFamily
  Families <- MC_Families
  Instances <- MC_Instances
SYMMETRY MC_Symmetry
SPECIFICATION Spec
CHECK_DEADLOCK FALSE
INVARIANT
  TypeOK
PROPERTY
  RefinesLinkedFamilies
