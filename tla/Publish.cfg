\* Two callers, one destination, every kind of call, every crash.
SPECIFICATION Spec
CONSTANTS
  c1 = c1  c2 = c2  t1 = t1  t2 = t2  i1 = i1  i2 = i2  i3 = i3  v1 = v1
  Callers = {c1, c2}
  Contents = {v1}
  Temps = {t1, t2}
  Inodes = {i1, i2, i3}
  Dest = Dest
  None = None
  Requests <- MCRequests
INVARIANTS IInv DurableIsWhole TempsAreOwned AnswersAreTrue
PROPERTIES ImplementsAtomicFile
SYMMETRY Symmetric
VIEW Held
