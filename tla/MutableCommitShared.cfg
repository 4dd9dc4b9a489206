\* Two processes that write and delete one object in its two spellings; there is
\* room for a second slot and extent, and a capacity that is stored rounded up.
SPECIFICATION FairSpec
CONSTANTS
  k1 = k1  K1 = K1  k2 = k2  o1 = o1  o2 = o2
  small = small  other = other  large = large  w1 = w1  w2 = w2  p1 = p1  p2 = p2
  Keys = {k1, K1}
  Objects = {o1}
  Fold <- MCFold
  Values = {small}
  Size <- MCSize
  NumSlots = 2
  DataSize = 128
  GenMax = 2
  NoKey = NoKey
  NoVal = NoVal
  Writers = {w1, w2}
  Processes = {p1, p2}
  ProcessOf <- OneProcessEach
  NoProcess = NoProcess
  Capacities = {40}
INVARIANTS IInv KeepsPromises
PROPERTY EveryCallReturns
