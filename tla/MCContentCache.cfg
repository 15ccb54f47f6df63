CONSTANTS
  k1 = k1  k2 = k2
  r1 = r1
  w1 = w1  w2 = w2
  All = All
  Nothing = Nothing
  Kinds <- MCKinds
  Readers <- MCReaders
  Writers <- MCWriters
  MaxWrites = 1
  MaxLosses = 1
SPECIFICATION FairCacheSpec
INVARIANTS StaleOnlyByRace
PROPERTY CacheCatchesUp
