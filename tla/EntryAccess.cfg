\* Two cursors on an entry of three bytes, with and without pread; a mapping of every entry of a
\* file of three pages of three bytes.
SPECIFICATION Spec
CONSTANTS
  Modulus = 10
  Page = 3
  FileSize = 9
  Entries <- MCEntries
  CursorEntries <- MCCursorEntries
  MaxRead = 3
  Cursors = {c1, c2}
  Builds = {"pread", "lseek"}
  Zero = Zero
  Guarded = Guarded
INVARIANTS SeekIsExact ReadIsExact MappedIsEntry
CHECK_DEADLOCK FALSE
