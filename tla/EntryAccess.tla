----------------------------- MODULE EntryAccess -----------------------------
(***************************************************************************)
(* The two ways to an entry's bytes: cursors (src/src/payload_file.c,      *)
(* vfs_file.c, mutable.c), which read through the descriptor of the reader *)
(* they belong to (src/src/io_file.c), and a guarded mapping of the        *)
(* entrypoint (romx_file_map_payload).                                     *)
(*                                                                         *)
(* Positions of cursors are machine words and offsets of seeks are signed. *)
(* Several threads may read through one descriptor.  Where the platform    *)
(* has no pread, the build makes one of lseek and read, which is two steps.*)
(* A mapping is built page by page over an inaccessible reservation.       *)
(***************************************************************************)
EXTENDS Integers, Sequences

CONSTANTS
  Modulus,        \* positions are 0 .. Modulus - 1
  Page,           \* size of a page
  FileSize,       \* size of the container, which is larger than any entry
  Entries,        \* the entries: records of offset and size
  CursorEntries,  \* those of them that cursors are opened on, a bound
  MaxRead,        \* bound on the length of a read
  Cursors,        \* one per thread
  Builds,         \* of "pread" and "lseek"
  Zero, Guarded   \* a byte that is zero, an address that cannot be accessed

\* The size of an entry is a position.
ASSUME AccessAssumption ==
  /\ Modulus \in Nat
  /\ Page \in Nat \ {0}
  /\ FileSize \in Nat
  /\ MaxRead \in Nat
  /\ \A e \in Entries : e.offset \in Nat /\ e.size \in 0 .. Modulus - 1
  /\ Builds \subseteq {"pread", "lseek"}

VARIABLES
  entry,    \* the entry at hand
  build,    \* which romx_file_pread the library was built with
  pos,      \* position of each cursor
  job,      \* the read each cursor is in, or NoJob
  fd,       \* offset of the shared descriptor
  crossed,  \* history: two reads were under way at a time
  ideal,    \* history: where each cursor would be if positions were integers
  map,      \* how far the mapping has come
  view      \* the pages of the mapping, from the one that holds the entry's first byte

cursor == <<pos, job, fd, crossed, ideal>>
mapping == <<map, view>>
vars == <<entry, build, cursor, mapping>>

Byte(q) == q
NoJob == [at |-> 0, want |-> 0, buf |-> <<>>, placed |-> FALSE]
NoView == [x \in {} |-> Zero]

Init ==
  /\ entry \in Entries
  /\ build \in Builds
  /\ pos = [c \in Cursors |-> 0]
  /\ job = [c \in Cursors |-> NoJob]
  /\ fd = 0
  /\ crossed = FALSE
  /\ ideal = [c \in Cursors |-> 0]
  /\ map = "none"
  /\ view = NoView

Busy(c) == job[c] # NoJob

-----------------------------------------------------------------------------
(* Cursors.                                                                *)

Offsets == -(Modulus \div 2) .. (Modulus \div 2) - 1
Magnitude(offset) == IF offset < 0 THEN -offset ELSE offset

\* Mutant: the position may wrap around.
InReachUnchecked(base, offset) == offset < 0 => Magnitude(offset) <= base

\* romx_payload_file_add_offset and its two sisters.
InReach(base, offset) ==
  IF offset < 0 THEN Magnitude(offset) <= base ELSE base <= Modulus - 1 - Magnitude(offset)

Base(c, origin) == CASE origin = "start" -> 0 [] origin = "current" -> pos[c] [] origin = "end" -> entry.size

Seek(c) ==
  /\ entry \in CursorEntries
  /\ ~Busy(c)
  /\ \E origin \in {"start", "current", "end"}, offset \in Offsets :
       LET base == Base(c, origin)
           place == CASE origin = "start" -> 0 [] origin = "current" -> ideal[c] [] origin = "end" -> entry.size
       IN
       /\ InReach(base, offset)
       /\ pos' = [pos EXCEPT ![c] = (base + offset) % Modulus]
       /\ ideal' = [ideal EXCEPT ![c] = place + offset]
  /\ UNCHANGED <<entry, build, job, fd, crossed, mapping>>

\* A read that finds something to read; others return no bytes and move nothing.
BeginRead(c) ==
  /\ entry \in CursorEntries
  /\ ~Busy(c)
  /\ pos[c] < entry.size
  /\ \E n \in 1 .. MaxRead :
       LET left == entry.size - pos[c] IN
       job' = [job EXCEPT ![c] = [at |-> entry.offset + pos[c], want |-> IF n < left THEN n ELSE left,
                                  buf |-> <<>>, placed |-> FALSE]]
  /\ crossed' = (crossed \/ \E d \in Cursors \ {c} : Busy(d))
  /\ UNCHANGED <<entry, build, pos, fd, ideal, mapping>>

\* Mutant: after a short read the next one begins where the first did.
NextAtStart(c) == job[c].at

\* Where romx_file_read_at goes on.
NextAt(c) == job[c].at + Len(job[c].buf)
Missing(c) == job[c].want - Len(job[c].buf)

\* lseek, the first half of the pread of builds that have none.
Reposition(c) ==
  /\ build = "lseek"
  /\ Busy(c) /\ ~job[c].placed /\ Missing(c) > 0
  /\ fd' = NextAt(c)
  /\ job' = [job EXCEPT ![c].placed = TRUE]
  /\ UNCHANGED <<entry, build, pos, crossed, ideal, mapping>>

\* pread or read; as many bytes as it pleases, but within the file.
Transfer(c) ==
  /\ Busy(c) /\ Missing(c) > 0
  /\ build = "lseek" => job[c].placed
  /\ LET from == IF build = "lseek" THEN fd ELSE NextAt(c) IN
     \E n \in 1 .. Missing(c) :
       /\ from + n <= FileSize
       /\ job' = [job EXCEPT ![c].buf = @ \o [i \in 1 .. n |-> Byte(from + i - 1)], ![c].placed = FALSE]
       /\ fd' = IF build = "lseek" THEN from + n ELSE fd
  /\ UNCHANGED <<entry, build, pos, crossed, ideal, mapping>>

EndRead(c) ==
  /\ Busy(c) /\ Missing(c) = 0
  /\ pos' = [pos EXCEPT ![c] = @ + job[c].want]
  /\ ideal' = [ideal EXCEPT ![c] = @ + job[c].want]
  /\ job' = [job EXCEPT ![c] = NoJob]
  /\ UNCHANGED <<entry, build, fd, crossed, mapping>>

\* A read fails or, past the end of the file, gets nothing: the cursor stays.
FailRead(c) ==
  /\ Busy(c) /\ Missing(c) > 0
  /\ job' = [job EXCEPT ![c] = NoJob]
  /\ UNCHANGED <<entry, build, pos, fd, crossed, ideal, mapping>>

-----------------------------------------------------------------------------
(* romx_file_map_payload.                                                  *)

Floor(x) == x - (x % Page)
Ceiling(x) == Floor(x + Page - 1)

Last == entry.offset + entry.size         \* payload_end
Aligned == Floor(entry.offset)            \* aligned_offset
Delta == entry.offset - Aligned
Pages == 0 .. Ceiling(Last) - Aligned - 1 \* without the guard pages at both ends

\* The bytes from file offset a up to b, in their place.
From(a, b) == [x \in {q - Aligned : q \in a .. b - 1} |-> Byte(Aligned + x)]
Over(f, g) == [x \in DOMAIN f |-> IF x \in DOMAIN g THEN g[x] ELSE f[x]]

\* A fresh page of zeroes, and the bytes from a up to b copied into it.
Copied(start, a, b) ==
  [x \in start - Aligned .. start - Aligned + Page - 1 |-> IF Aligned + x \in a .. b - 1 THEN Byte(Aligned + x) ELSE Zero]

\* Mutant: the mapping is given up, but not its address space.
GiveUpMapped == map' = "failed" /\ view' = view

GiveUp == map' = "failed" /\ view' = NoView

\* A step that may fail, and one that has nothing to do.
Try(next, v) ==
  /\ \/ map' = next /\ view' = v
     \/ GiveUp
  /\ UNCHANGED <<entry, build, cursor>>

Skip(next) == map' = next /\ UNCHANGED <<entry, build, cursor, view>>

Reserve ==
  /\ map = "none"
  /\ entry.size # 0
  /\ Try("reserved", [x \in Pages |-> Guarded])

\* Whole pages of the entry are pages of the file.
MiddleStart == IF Ceiling(entry.offset) > Last THEN Last ELSE Ceiling(entry.offset)
MiddleEnd == IF Floor(Last) < MiddleStart THEN MiddleStart ELSE Floor(Last)

MapMiddle ==
  /\ map = "reserved"
  /\ IF MiddleEnd > MiddleStart
     THEN Try("middle", Over(view, From(MiddleStart, MiddleEnd)))
     ELSE Skip("middle")

\* A page that the entry does not fill is a page of zeroes with a copy in it.
FirstEnd == IF Last < Aligned + Page THEN Last ELSE Aligned + Page

CopyFirst ==
  /\ map = "middle"
  /\ IF entry.offset # Aligned \/ Last < Aligned + Page
     THEN Try("first", Over(view, Copied(Aligned, entry.offset, FirstEnd)))
     ELSE Skip("first")

\* Mutant: a last page that is partly filled is left to the mapping of the middle.
NeedsLastLoose == FALSE

NeedsLast == Last % Page # 0 /\ (Last - 1) \div Page # entry.offset \div Page

CopyLast ==
  /\ map = "first"
  /\ IF NeedsLast
     THEN Try("last", Over(view, Copied(Floor(Last), Floor(Last), Last)))
     ELSE Skip("last")

\* The handle, which outlives the reader; the failures above release the pages too.
HandOut == map = "last" /\ Try("ready", view)

CloseMapping ==
  /\ map = "ready"
  /\ map' = "closed" /\ view' = NoView
  /\ UNCHANGED <<entry, build, cursor>>

Next ==
  \/ \E c \in Cursors : Seek(c) \/ BeginRead(c) \/ Reposition(c) \/ Transfer(c) \/ EndRead(c) \/ FailRead(c)
  \/ Reserve \/ MapMiddle \/ CopyFirst \/ CopyLast \/ HandOut \/ CloseMapping

Spec == Init /\ [][Next]_vars

-----------------------------------------------------------------------------
\* A cursor is where a caller who counts without limits believes it to be: a
\* seek that would leave the words is refused and never wraps around.
SeekIsExact == pos = ideal

\* What a read has so far are the entry's bytes from the cursor on, and no read
\* goes past the entry; with pread whatever other threads read through the same
\* descriptor, without it only as long as no two reads cross.
ReadIsExact ==
  (build = "pread" \/ ~crossed) =>
    \A c \in Cursors : Busy(c) =>
      /\ ideal[c] + job[c].want <= entry.size
      /\ job[c].buf = [i \in 1 .. Len(job[c].buf) |-> Byte(entry.offset + ideal[c] + i - 1)]

\* Through a mapping one sees all of the entry's bytes and no other byte of the file,
\* also on the pages that the entry shares with its neighbours; and a mapping
\* that could not be made, or was closed, leaves nothing accessible behind.
MappedIsEntry ==
  /\ map = "ready" =>
       /\ Delta .. Delta + entry.size - 1 \subseteq DOMAIN view
       /\ \A x \in DOMAIN view :
            IF Delta <= x /\ x < Delta + entry.size THEN view[x] = Byte(Aligned + x) ELSE view[x] \in {Zero, Guarded}
  /\ map \in {"none", "failed", "closed"} => view = NoView
=============================================================================
