CONSTANTS
  e1 = e1  e2 = e2
  d1 = d1
  k1 = k1  k2 = k2
  Events <- MCEvents
  Devices <- MCDevices
  Compactions <- MCCompactions
  PageSize = 1
  CompactLimit = 1
  ReplayLimit = 3
  MaxClock = 2
SPECIFICATION FairSpec
INVARIANTS CompactionKeepsEvents GapsAreLateOrTied
PROPERTIES Delivered ReplayRecovers
