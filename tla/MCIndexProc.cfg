SPECIFICATION FairSpec
CONSTANTS
  a = a
  b = b
  c = c
  Nil = Nil
  N = 3
  Hash <- MCHash
  NFinals <- MCNFinals
  Faults = TRUE
INVARIANTS
  TypeOK
  LogIsPrefix
  NeverLate
  NoRefusal
  CleanRunIsWhole
PROPERTIES
  EventuallyWhole
  ImplementsIndexLog
