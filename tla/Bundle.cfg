\* Up to three files of up to three bytes, two changes by other programs, and every object of
\* another program's that claims up to three entries.
SPECIFICATION Spec
CONSTANTS
  Paths = {1, 2, 3}
  PathSize <- MCPathSize
  Fold <- MCFold
  Contents <- MCContents
  Requests <- MCRequests
  HeaderSize = 2
  EntrySize = 1
  Align = 2
  MaxBundle = 14
  MaxEntries = 3
  MaxPath = 2
  Chunk = 3
  MaxChanges = 2
  Foreign = Foreign
  None = None
INVARIANTS StreamIsLayout OpensToOneVersion UntouchedOpens PortableNames BundleAccounted
CHECK_DEADLOCK FALSE
