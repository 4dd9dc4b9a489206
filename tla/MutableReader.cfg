\* A reader beside one writer of another process: the call under way when it opens
\* and one more.
SPECIFICATION ReaderSpec
CONSTANTS
  k1 = k1  k2 = k2  o1 = o1  o2 = o2
  small = small  large = large  w1 = w1  p1 = p1  p2 = p2
  Keys = {k1, k2}
  Objects = {o1, o2}
  Fold <- MCFold
  Values = {small, large}
  Size <- MCSize
  NumSlots = 2
  DataSize = 128
  GenMax = 2
  NoKey = NoKey
  NoVal = NoVal
  Writers = {w1}
  Processes = {p1, p2}
  ProcessOf <- MCProcess
  NoProcess = NoProcess
  Capacities = {}
  ReaderProcess = p2
  MaxCalls = 1
INVARIANTS RegularLookup CursorExactUnlessChanged
VIEW PageCache
SYMMETRY Alike
