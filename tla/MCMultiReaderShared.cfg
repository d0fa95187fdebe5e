SPECIFICATION Spec
CONSTANTS
  c1 = c1  c2 = c2  c3 = c3  c4 = c4
  s1 = s1  s2 = s2  s3 = s3
  Chunk = {c1, c2, c3, c4}
  Store = {s1, s2, s3}
  Listings <- MCListings
  Groups <- MCGroups
  NParity = 1
  MaxBad = 1
  OneVariable = TRUE
INVARIANT OneStoreMayFail
