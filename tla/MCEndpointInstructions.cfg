\* Three instructions; either process may crash, once.
SPECIFICATION FairSpec
CONSTANTS
  Instructions <- ThreeInstructions
  MaxConcurrent = 2
  MaxCrashes = 1
INVARIANTS TypeOK
PROPERTIES NoLateStart Served
\* Every dispatch may have ended and the directory be empty.
CHECK_DEADLOCK FALSE
