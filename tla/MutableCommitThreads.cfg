\* Two threads of one process, which the process's record lock does not keep apart.
SPECIFICATION Spec
CONSTANTS
  k1 = k1  K1 = K1  k2 = k2  o1 = o1  o2 = o2
  small = small  other = other  large = large  w1 = w1  w2 = w2  p1 = p1  p2 = p2
  Keys = {k1, k2}
  Objects = {o1, o2}
  Fold <- MCFold
  Values = {small, other}
  Size <- MCSize
  NumSlots = 2
  DataSize = 64
  GenMax = 2
  NoKey = NoKey
  NoVal = NoVal
  Writers = {w1, w2}
  Processes = {p1}
  ProcessOf <- SameProcess
  NoProcess = NoProcess
  Capacities = {}
INVARIANT ActiveIntact
