CONSTANTS
  e1 = e1  e2 = e2
  r1 = r1  r2 = r2  a1 = a1
  None = None
  Events <- MCEvents
  Staff <- MCStaff
  Author <- MCAuthor
  PageSize = 1
SPECIFICATION FairSpec
PROPERTIES OpenGetDecided ErasureCompletes
CHECK_DEADLOCK FALSE
