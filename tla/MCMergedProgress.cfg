CONSTANTS
  d1 = d1  d2 = d2
  Devices <- MCDevices
  Items = {1}
  Old = 0
  MaxChanges = 3
  MaxFaults = 1
SPECIFICATION FairMergedSpec
CHECK_DEADLOCK FALSE
INVARIANTS DocumentsOK IncrementsKept ItemsKept
PROPERTIES NotesGoForward DevicesAgree
