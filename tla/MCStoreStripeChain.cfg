SPECIFICATION FairSpec
CONSTANTS
  g1 = g1
  g2 = g2
  g3 = g3
  h1 = h1
  h2 = h2
  h3 = h3
  a = a
  b = b
  c = c
  Nil = Nil
  Group <- ChainGroup
  Hash <- ChainHash
  Members <- ChainMembers
  Store <- MCStore
  Listings <- ChainListings
  Quota <- MCQuota
  Min = 2
  Slots = 2
  Faults = TRUE
INVARIANTS
  IndInv
  NoNeedlessCopy
  EndedIsCopied
  QuotaKept
PROPERTIES
  AllReturn
