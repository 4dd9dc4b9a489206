\* Two callers of one cache directory, a payload of two chunks, one change.
SPECIFICATION Spec
CONSTANTS
  c1 = c1  c2 = c2  a = a  b = b
  Callers = {c1, c2}
  Bytes = {a, b}
  Length = 2
  Original <- MCOriginal
  Changes = 1
  Spoilt = Spoilt
  None = None
INVARIANTS PathHolds EntriesHoldTheirHash AuthenticUnlessChanged PublishedStays
SYMMETRY Symmetric
