SPECIFICATION FairSpec
CONSTANTS
  a = a  b = b  c = c
  h1 = h1  h2 = h2
  i1 = i1  i2 = i2  i3 = i3
  Absent = Absent
  Store = {a, b, c}
  Kind <- MCKind
  Hash = {h1, h2}
  Size <- MCSize
  Inst = {i1, i2, i3}
  HashOf <- MCHashOf
  Min = 2
  Ways = {"stripe", "direct", "restore"}
  MaxFaults = 2
  OneVariable = TRUE
INVARIANTS OkMeansWritten ReadBack
PROPERTIES WholeStaysWhole NoneInExcess RunsEnd
