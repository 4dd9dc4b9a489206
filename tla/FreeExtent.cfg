\* Three slots over four cells; a request of one cell, of two, and of an odd size.
SPECIFICATION Spec
CONSTANTS
  k0 = k0  k1 = k1  k2 = k2  v = v
  Keys = {k0, k1, k2}
  Objects = {k0, k1, k2}
  Fold <- MCFold
  Values = {v}
  Size <- MCSize
  NumSlots = 3
  DataSize = 256
  GenMax = 1
  NoKey = NoKey
  NoVal = NoVal
  Directories <- MCDirectories
  Requests = {40, 64, 128}
  NoOffset = NoOffset
INVARIANTS Swept ReturnsFirstFit NoSpaceIsTrue
CHECK_DEADLOCK FALSE
