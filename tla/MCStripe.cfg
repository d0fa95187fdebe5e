SPECIFICATION FairSpec
CONSTANTS
  K = 3
  L = 3
  Mins = {1, 2}
  Excls = {0, 1, 2, 3}
INVARIANTS
  Enough
  LossBound
  MakesCopyPlan
  ShortJustified
PROPERTIES
  Terminates
