CONSTANTS
  f1 = f1  f2 = f2
  h1 = h1  h2 = h2
  NoFile = NoFile
  Files <- MCFiles
  Handlers <- MCHandlers
  MaxFaults = 2
SPECIFICATION FairSpec
CHECK_DEADLOCK FALSE
INVARIANTS RowsHaveBlobs NoOrphans
PROPERTY DeletionCompletes
