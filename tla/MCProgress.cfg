CONSTANTS
  d1 = d1  d2 = d2
  e1 = e1  e2 = e2  e3 = e3
  r1 = r1  r2 = r2  r3 = r3
  NoRequest = NoRequest
  Devices <- MCDevices
  Edits <- MCEdits
  Own <- MCOwn
  Requests <- MCRequests
  MaxFaults = 2
SPECIFICATION FairSpec
INVARIANTS WriterHasMerged
PROPERTIES OnlyBlindErases ImplementsDocument EditsGetStored
