CONSTANTS
  u1 = u1  u2 = u2
  e1 = e1  e2 = e2  e3 = e3  e4 = e4  e5 = e5
  None = None
  Users <- MCUsers
  Named <- MCNamed
  Nameless <- MCNameless
  Payloadless <- MCPayloadless
  Malformed <- MCMalformed
  Deviceless <- MCDeviceless
  BatchLimit = 2
SPECIFICATION FairSpec
INVARIANTS AcceptedIsStored RetriesInsertOnce ErasedLeaveNothing
PROPERTIES EventsGetStored
