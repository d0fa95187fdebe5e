SPECIFICATION FairSpec
CONSTANTS
  Nil = Nil
  MaxLines = 6
  Counts <- MCCounts
  NShards = 3
  NParity = 1
  Outer = 2
  Inner = 1
  Faults <- MCFaults
INVARIANTS IndInv OutputInOrder SortNeverPanics NoErrorMeansWhole ErrorJustified
PROPERTIES Ends ImplementsOrderedOutput
