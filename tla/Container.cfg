\* Words below 14, regions of a few bytes; every foreign file, and every
\* file the writer makes of up to three entries.
SPECIFICATION Spec
CONSTANTS
  Modulus = 14  FooterSize = 1  IndexHeader = 1  IndexEntry = 1
  Align = 2  MutableMin = 6  SlotSize = 1  SlotUnit = 2
  MaxEntries = 2
  Foreign = Foreign  Unwritten = Unwritten
  Jobs <- MCJobs
INVARIANTS ReadsInside IndexBelowMutable RegionsTile BytesAccounted RoundTrip HashCoversImmutable
CHECK_DEADLOCK FALSE
