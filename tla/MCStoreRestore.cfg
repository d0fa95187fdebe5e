SPECIFICATION StoresFairSpec
CONSTANTS
  Nil = Nil
  s1 = s1  s2 = s2  s3 = s3
  Chunk = {0, 1, 2, 3}
  Store = {s1, s2, s3}
  Listings <- MCListings
  Groups <- MCGroups
  NParity = 1
  MaxBad = 2
  OneVariable = FALSE
  MaxLines = 4
  Counts = {4}
  NShards = 2
  Outer = 2
  Inner = 2
  Faults = {"lost", "error"}
  Plain = {s3}
INVARIANTS RestoredIfAffordable LostOnlyIfAllFail
PROPERTIES NotAskedAgain RestoreEnds
