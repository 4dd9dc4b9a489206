\* Two sessions, two attempts each, on an object that is absent, or any document of a few fields.
SPECIFICATION Spec
CONSTANTS
  Sessions = {s1, s2}
  Limit = 2
  SmallLimit = 1
  Times = {0, 1}
  NoTime = NoTime
  ForeignDocs <- MCForeignDocs
  MaxAttempts = 2
  Junk = Junk
  Absent = Absent
  Hidden = Hidden
  Lost = Lost
INVARIANTS RefusedForCause ReadsWhatWasWritten AddsUp
CHECK_DEADLOCK FALSE
