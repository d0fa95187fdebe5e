SPECIFICATION FairSpec
CONSTANTS
  u1 = u1
  u2 = u2
  u3 = u3
  p = p
  q = q
  Nil = Nil
  User <- MCUser
  Path <- MCPath
  Faults = TRUE
INVARIANTS
  LostOnlyIfRevived
  RemoveSucceeds
  WaitMeansClean
PROPERTIES
  DirLeftForAReason
  EntriesGo
