# Formal models of libromx

libromx reads and writes ROMX containers: one file that holds a game's payload
files, an index, metadata and a cover, all immutable, and a *mutable region* in
which saves, cheats and statistics are rewritten in place. This directory holds
TLA+ modules for the parts of it whose correctness depends on the order in
which things happen, TLC configurations that check them on small instances, and
proofs, checked by TLAPS, that hold for every instance. `PROJECT.json` lists the
runs, the mutants that each property has been seen to detect, and the source
lines behind each definition.

Paths are relative to the repository, whose C sources are in `src/`, headers in
`include/` and documents in `docs/`. The models follow the code; the documents
are quoted where a property states what they promise.

## The system

A container is laid out as payload, index (RIDX), metadata, cover, zero padding
to 4096, mutable region (header of 4096, directory of 512-byte slots, data
area), and a footer of 128 bytes.

| part | state it keeps | operations | what is hard | what makes it correct |
|---|---|---|---|---|
| Mutable region directory (`mutable.c`) | slots and data area in the file | parse; find an object; validate its data | damaged, conflicting and abandoned slots | an object is served only if its slot is sound and its bytes are the ones checksummed |
| Mutable commit (`mutable_write.c`) | the file, its lock; per call a plan and a position | write, delete | processes and threads on one file, kills, power losses, short and failing writes, sources that change | no ACTIVE entry over wrong bytes; no two objects over one extent; an answer of `ROMX_OK` is kept |
| Free-extent search (`mutable_write.c`) | a cursor over sorted extents | `find_free_extent` | boundaries: exact gaps, rounding, extents that overlap | first fit, and `NO_SPACE` only when there is no space |
| Mutable reader (`mutable.c`, `reader.c`) | the parsed directory, a cursor | open, find, read | no lock: the writers go on meanwhile | a lookup returns something that was there; a cursor is exact unless its object changed |
| Publishing (`writer.c`, `extract.c`) | a temporary file and its name | create, fill, flush, rename or link, remove | callers race for one destination; failures at every step; power losses | the destination changes in one step to a whole file or not at all; temporaries are removed; the answer is true |
| Writer layout (`writer.c`, `footer.c`, `region.c`) | offsets of the regions | write all regions, parse the footer | sums and alignments near the limits | the reader finds each region where the writer put it |
| Payload index (`ridx.c`) | entries, checked one by one and then as sorted ranges | parse, find, read | sums of foreign sizes, equal and empty ranges, gaps | every byte of the payload belongs to one entry or is zero; reads stay inside |
| Extraction cache (`extract.c`) | files named by hash | match, extract, match again | concurrent users, damaged entries, durability | a path that is returned holds the payload its name says |
| Mutable bundles (`mutable_bundle.c`) | an index of files in one object | build, stream, parse, read | a stream read at arbitrary positions; files that change meanwhile | what opens holds one version of each file, and files nobody touched open |
| Statistics (`mutable_stats.c`) | counters in one object | read, add, write back | sessions that overlap | no session's counts are lost or counted twice |
| Cursors and mapping (`payload_file.c`, `payload_view.c`, `vfs_file.c`, `io_file.c`) | a position, a mapping | seek, read, map | ends of the 64-bit range, short reads, a shared descriptor, page alignment | a position is exact; reads and mappings show the entry's bytes and no others |
| Parsers of text and images (`json.c`, `metadata.c`, `png.c`, `probe.c`), digests, registry, errors | none | | | |

The parts meet at the file. The reader parses footer, index and mutable region;
the mutable writer opens a reader on the file it has locked, plans from what
that reader parsed, and writes slots and data behind the reader's back.
Bundles and statistics are contents of mutable objects, written through
`romx_mutable_write_io_path`. The writer and the extraction functions produce
whole files through the same temporary-file protocol. The extraction cache
calls extraction between two looks at its directory. Cursors and mappings use
the descriptor of the reader they belong to.

## Modules

| module | models | extends |
|---|---|---|
| `MutableRegion` | entries, quarantine, conflicts, lookups, first fit: constant operators over a directory and a data area | |
| `MutableCommit` | the two calls of `mutable_write.c`, the lock, the page cache and the disk | `MutableRegion` |
| `MutableStore` | what those calls promise, as a map from objects to contents | |
| `MutableCommitProofs` | theorems about `MutableCommit` and `MutableReader` | `MutableReader` |
| `FreeExtent`, `FreeExtentProofs` | `find_free_extent` as a loop, and its theorems | `MutableRegion` |
| `MutableReader` | a reader beside the writers of `MutableCommit` | `MutableCommit` |
| `Publish` | temporaries, flush, rename and link, for `writer.c` and `extract.c` | |
| `AtomicFile` | what publishing promises, as one destination that changes in one step | |
| `PublishProofs` | theorems about `Publish` | `Publish` |
| `ExtractCache`, `ExtractCacheProofs` | `romx_extract_payload_cache` by concurrent callers, and its theorems | |
| `ContainerReader` | the parsers of footer, index and mutable header on any file | |
| `Container`, `ContainerProofs` | the writer, that reader on what it wrote, and theorems about both | `ContainerReader` |
| `Bundle`, `BundleProofs` | laying out, streaming, committing and opening a bundle, and its theorems | |
| `StatsSession`, `StatsSessionProofs` | the STATS document, sessions that read, add and write back, and theorems about them | |
| `EntryAccess`, `EntryAccessProofs` | cursors over one descriptor, the guarded mapping, and theorems about both | |
| `MC*` | values of the constants for TLC | |

### MutableRegion

`romx_parse_mutable` classifies slots in two passes. The first checks each entry
by itself (`WellFormed`); an entry that fails is *torn*. The second compares
slots pairwise in index order; conflicting ones (`Conflict`: one object, or
overlapping extents) lose. The pass is not symmetric, because a slot that was
marked earlier no longer marks others; `ReachTurn` is the set of slots still
usable at their own turn, `Kept` what is left at the end, and `Usable` the same,
which is every well-formed slot where nothing conflicts. `Degraded` is the status
`ROMX_MUTABLE_DEGRADED`.

Abstractions: offsets are relative to the data area; the data area is divided
into cells of 64 bytes, the alignment of extents; a content is a member of
`Values` with a `Size`, and an entry's `val` stands for its `data_size` and
`data_crc32`, which is to say that a CRC32 is taken to tell contents apart. The
rest of the entry (timestamp, reserved bytes) is left out. Saturation of `align64`
is left out: it needs a capacity within 63 of 2^64, which exceeds every region.

### MutableCommit

One action for each step of a call that another process or a crash can come
between:

| action | code |
|---|---|
| `BeginWrite`, `BeginDelete` | argument checks and `source_crc`, before the lock |
| `Lock`, `Unlock` | `fcntl(F_SETLKW)` in `disk_open_locked`, `disk_close`; the owner is the process |
| `OpenFails` | every failure to open, lock, read or parse, and the search that has no memory |
| `PlanReplace`, `PlanCreate`, `PlanDelete`, `PlanRefuse` | the search for the slot and the choice of slot, extent and generation |
| `PutWriting`, `SyncWriting` | stage 1: the WRITING entry and its fsync |
| `CopyChunk`, `CopyDone`, `CopyFails`, `SyncData` | stage 2: `source_write`, the comparison of checksums, fsync |
| `PutActive`, `SyncActive` | stage 3: the ACTIVE entry and its fsync |
| `PutDeleting`, `SyncDeleting`, `ClearSlot`, `SyncClear` | a deletion |
| `Return` | `done:` |
| `Kill`, `WriteBackSlot`, `WriteBackCell`, `PowerLoss` | the environment |

`dir` and `data` are the page cache, which every process reads; `ddir` and
`ddata` are the disk. A slot or cell may be written back at any time; an fsync
writes all of them back, or fails and leaves them dirty. A power loss leaves
the disk's copies, with any slot or cell that was on its way torn. A write that
fails may leave half of a slot or cell behind. `CopyChunk` may copy other bytes
than the ones the checksum was computed over, since the source is read twice.
One cell stands for the chunk a pass of the copy loop moves (at least 1024
bytes in the code). `allowed` is a history variable: per object, the results
that the calls so far allow a reader to be given.

The lock of a process does not exclude the process's other threads: `Lock`
admits the owner, and any `Unlock` drops it. Run *threads* shows what that
means; the other runs and the theorems about content and extents assume one
writing thread per process (`OneWriterPerProcess`).

`MutableStore` is the abstract specification: `visible`, what readers are given;
`stable`, what a power loss falls back to; only a call on an object changes what
is visible of it, one object at a time, and never directly from one content to
another: the old content is withdrawn, for readers and on the disk, before the
new one appears. The mapping (`Store`) is `Readable`, what the page cache shows;
`Recoverable`, what the disk shows; and `UnderWay`, the calls.

### FreeExtent

`Allocate` (the table of extents, sorted), then the loop of `find_free_extent` one
iteration a step: `Pass` (the extent ends
beyond the cursor, or leaves too small a gap), `Stop` (the gap fits), `Exhaust`,
and `Check` (the final comparison with the end of the data area). `MutableCommit`
allocates with `FirstFit` in one step; this module shows that the loop returns
exactly that. Ties in `qsort` are broken in every order.

`AllocFails`: when `calloc` fails (`mutable_write.c:273`) the search returns what it
returns when nothing fits, and the caller answers `ROMX_E_MUTABLE_NO_SPACE` with
space left. `docs/WRITER.md:62` only says that insufficient capacity has that
answer, so `NoSpaceIsTrue` names the case instead of excluding it.

### MutableReader

`Open`, `ScanSlot` for each slot, then lookups in the copy: `Find`, `ReadCell`
and `Validated` (the checksum pass), then `ReadCell` again for a cursor and
`Delivered`. The reader takes no lock; a slot or cell that is being written may
be read half written. The parsed copy is used until the reader closes. The
writers take the steps of `MutableCommit`; power losses end a reader as well and
write-backs are invisible to it, so neither appears. `seen` is a history
variable: the results that some moment since the reader opened allowed.

A reader that opened the container by its path has a descriptor of its own, and closing it
drops every record lock its process (`ReaderProcess`) has on the file, so `Close`
releases the lock if a writer of that process holds it. The theorems
about readers therefore assume that no writer is in the reader's process
(`ReaderApart`), as the run does. Without it commits are not kept apart: with
two writers in two processes and the reader in one of them, TLC reaches a state
that violates `ActiveIntact` in 18 steps (the reader closes while its process is
committing, the other process plans the same slot).

### Publish

`Create` (mkstemp), `Fill`, `Sync` (fsync of the file and close), `Rename` or
`Link` and `UnlinkLinked`, and the failure paths `CreateFails`, `FillFails`,
`PublishFails`, `Withdraw` (the unlink in `publish_temporary`), `Discard` (the
`fail:` label of the writer), with `Return`. Writer and extraction share the protocol
and differ in the failure path, where the writer unlinks twice. A file
is partial until its last byte is written. The directory and the files' contents
are in a page cache; names and files are written back one by one in any order, and
fsync covers the file and not its directory. `AtomicFile` is the abstract
specification: the destination is empty or one call's whole file, it changes in
one step, a call without `REPLACE_EXISTING` only fills an empty one, a call that
answers that it failed has not changed it, and only files made without `DURABLE`
can be damaged by a power loss.

`FillFails` stands for some twenty places that jump to one label; that each of them does
jump there is read off the code, not checked.

Left out: descriptors (after a failed fsync `close_output` returns without
closing: a leak, visible to no other process); the branch for Windows; and the
case that mkstemp draws a name again while the call that drew it before has not
returned, in which the second unlink of a failing writer could hit another
call's temporary.

### ContainerReader and Container

`ContainerReader` follows `romx_reader_create`: `ParseFooter`, `ParseIndex`,
`ParseEntry` for each entry, `EntriesDone` (one entrypoint; a single entry fills
the payload), `SweepEntry` over the sorted ranges and `SweepDone` for the rest,
`PlaceRegions`, `ParseMutable`. The file is `Foreign`: each field is
chosen when the reader reads it, among all words. Sizes are words below
`Modulus`, and `Add` and `Sub` wrap around as `uint64_t` does, so that a missing
overflow check shows. `Unsound` is a foreign file that fails a check which is
not about the layout (magic, checksum, path, a byte that should be zero), `Fail`
memory or input that fails. `zero` is a history variable: the bytes that were
seen to be zero. An invalid mutable header makes the region INVALID and not the
file; `slots = 0` stands for that.

`Container` is `romx_writer_write_io_entries`: `Start` (the checks of
`load_settings` and of the entries), `StreamEntry`, `WriteIndex` to
`WriteFooter`, `Abandon`. The writer's `offset`, from which it makes index and
footer, and `bytes`, what it appended, are kept apart; each byte is tagged with
what it belongs to, and `hashed` is what went into the immutable hash.
`payload_size` is the offset behind the last entry, as in the code. When the
footer is written the reader is started on the file.

Left out: probing, the checks of metadata and cover, and the front end that
opens paths, which decide whether a call goes on and write nothing; the
per-entry checksums. How the file gets its name is `Publish`.

### ExtractCache

`romx_extract_payload_cache` reads the payload up to three times: `validate`
(only if the footer has a hash), `hash` (which makes the name), `copy`. Each pass
is a sequence of `ReadChunk`; between any two, another program may change the container
(`Change`). `Match` looks at the entry and returns it or goes on; `Copied`
compares the hash of the copy; `Place` is the publishing, one step here;
`MatchAgain` is the second look, which says "published
cache payload failed verification" for a file with other bytes and for one that
cannot be opened or read (`extract.c:285`), so that the answer does not show
which of the two it was. `Tamper` is what may happen to a cache entry
from outside: removed, cut short, overwritten, lost with the power. A call that
is killed and one that returns look the same to the others (`Leave`). A SHA-256
is the content it is taken of. `foreign`, `changed` and `touched` are history variables.

An entry that matches is returned at once, without the flush that
`ROMX_EXTRACT_DURABLE` asks for (`extract.c:353`); no document says what the flag
means there, and no property is stated about it.

### Bundle

The writer: `OpenFile` and `Checksum` for each file, `Layout`, and `ReadChunk`
over `source_read_at` for the two passes of `romx_mutable_write_io_path`, with
`Change` by other programs between any two steps; `Commit` if the passes agree.
The reader: `ReadHeader`, `ReadEntryHeader`, `Canonical`, `CheckEntry`,
`Opened`, on the committed object or on a foreign one. Paths are numbers in
byte order with a `Fold`; a checksum is the bytes it is taken of. How the object
reaches the disk is `MutableCommit`, and buffering by stdio is not modelled: a
file is read when it is asked for. `path_valid` also refuses a path that contains a
NUL before its stated end, which is why a foreign path's size is at least that of
the path it is read as.

A file that changes between its checksum and the streaming gives a bundle that
is committed with `ROMX_OK` and cannot be opened; `OpensToOneVersion` states
what is kept: it never opens with mixed bytes.

### StatsSession

A document is a function from the names in it to numbers; `Accepts`, `Parsed`,
`ValuesValid` and `Serialized` are the conditions of `mutable_stats.c` over it. A
session is `Read`, `Play` (the caller's part: one unit of play, a time stamp if the device has a clock),
`BeginWrite`, `EndWrite`, with `WriteFails` before anything is stored, `EndWrite`
with an error after the commit point, and `Dies` in between. The object is what
`MutableCommit` makes of it: `Hidden` while it is written or after its writer
died, `Lost` when a second slot was made beside a hidden one.

No lock is held from the read to the write, so overlapping sessions lose
updates; the documents only advise to re-read and add
(`docs/INTEGRATION.md:61`). `AddsUp` is stated for sessions one after the other,
and it lets a write that failed after its commit point, and was retried, count
twice: the code does that, and no document promises otherwise.

### EntryAccess

`Seek` with the overflow checks of the three kinds of cursor (`InReach`; the
history variable `ideal` counts without limits), and `BeginRead`, `Transfer`
(any number of bytes), `EndRead`, `FailRead`. Builds without `pread`
(`io_file.c:111`) take the steps `Reposition` and `Transfer` on the shared
descriptor, and two reads that cross then get wrong bytes, although
`docs/INTEGRATION.md:86` says "Path-backed readers use positional I/O.";
`ReadIsExact` claims nothing for that case.

`Reserve`, `MapMiddle`, `CopyFirst`, `CopyLast` and `HandOut` are
`romx_file_map_payload` over an inaccessible reservation; any of them may fail
(`GiveUp`, which stands for all the error paths and releases all of the
reservation; that each path does is not checked). The reader maps only the entrypoint, which begins at offset 0; the
function takes any region and so does the model. Its checks of sums and address
space never fail for an entry of an open reader (`ReadsInside`) and are left out.

## Runs

| run | instance | checks | states |
|---|---|---|---|
| *crash* | two processes, two objects, two slots, two cells, contents of one and of two cells, generations 1..2 and the wrap | `IInv`, `ActiveIntact`, `ActiveApart`, `KeepsPromises`, `DamageIsDeletion`, `ImplementsStore` | 1.2 M |
| *shared* | two processes, one object in two spellings, two slots, two cells, a capacity that is not a multiple of 64 | `IInv`, `KeepsPromises`, `EveryCallReturns` | 158 k |
| *retry* | one writer, two objects, one of them in two spellings, two slots, two cells | `CommitPoint`, violated | |
| *threads* | two threads of one process, one cell | `ActiveIntact`, violated | |
| *free_extent* | every directory of three extents with lengths 40, 64, 100 at four offsets, some overlapping or out of range; requests of 40, 64 and 128 | `Swept`, `ReturnsFirstFit`, `NoSpaceIsTrue` | 37 k |
| *reader* | a reader beside one writer of another process: the call under way when it opens and one more | `RegularLookup`, `CursorExactUnlessChanged` | 2.3 M |
| *publish* | two callers, two temporary names, three files; a link with a flush, a rename with one and without, from both publishers | `IInv`, `DurableIsWhole`, `TempsAreOwned`, `AnswersAreTrue`, `ImplementsAtomicFile` | 1.0 M |
| *container* | words below 14; every foreign file with up to two entries; every job of one to three entries of 0..2 bytes, any entrypoint, with and without metadata, cover and mutable region | `ReadsInside`, `IndexBelowMutable`, `RegionsTile`, `BytesAccounted`, `RoundTrip`, `HashCoversImmutable` | 93 k |
| *extract_cache* | two callers, a payload of two chunks over two values, with and without a footer hash, one change of the container, any tampering | `PathHolds`, `EntriesHoldTheirHash`, `AuthenticUnlessChanged`, `PublishedStays` | 657 k |
| *bundle* | up to three files of 0 to 3 bytes, two changes, chunks of 3, alignment 2; foreign objects of up to three entries | `StreamIsLayout`, `OpensToOneVersion`, `UntouchedOpens`, `PortableNames`, `BundleAccounted` | 210 k |
| *stats* | two sessions, two attempts each; an absent object or any document over a few fields with values at, below and past the limits | `RefusedForCause`, `ReadsWhatWasWritten`, `AddsUp` | 475 k |
| *access* | two cursors, words below 10, every seek, reads of up to 3, both builds; a mapping of every entry of a file of three pages of three bytes | `SeekIsExact`, `ReadIsExact`, `MappedIsEntry` | 570 k |

**Why the bounds are enough.** Two slots are the least at which slots conflict,
an extent is reused by another object and a region is full; the header asks for a
multiple of eight, so the other six are to be thought of as taken by objects no
call touches. Two cells are the least at which a content is copied in more than
one step, extents are adjacent, and a content that shrinks leaves old bytes
behind its end. `GenMax = 2` reaches both a replacement and the wrap of
`generation + 1` in a deletion. Two writers are the least that wait for each
other. The reader's bound of one call that begins while it is open (besides the
one under way) suffices for its object to be deleted, and for the extent it is
reading to be reused by another object; its `VIEW` leaves out the disk, which
without a power loss nothing reads, and its two objects are symmetric, names and
keys exchanged together. In *publish* three files are one per caller
and the destination's; its `VIEW` leaves out what is in files that nothing
holds, and callers, names and files are symmetric. *crash* has the two
processes and the two objects symmetric in the same way (all properties of the three runs are
safety properties, for which that is sound); it takes about three minutes. In *shared*, whose
liveness property forbids symmetry, one content is enough: what it asks of
the lock and of names does not depend on the bytes. A retry of a write whose
predecessor was killed takes the second slot and extent there, and a request of 40
bytes meets the stored 64.

Words below 14 hold the smallest container with a mutable region (1 payload, 2
index, 1 padding, 6 mutable, 1 footer) with room to spare, and let every sum of the parser
wrap; two entries can overlap, be equal, empty or leave a gap, and three are the least for which the
entrypoint in the middle is reordered. Two chunks and one change are the least
for which a pass sees half of a change, and two callers race for one entry;
callers are symmetric. An alignment of 2 with files of up to 3
bytes gives files that end on a boundary and off it, and chunks of 3 cut every
seam; of the three paths two differ only in case with the third between them.
Two attempts per session reach the retry after a write that failed late. Pages
of 3 give entries within one page, across one boundary and across two,
beginning and ending on a boundary and off it; the cursors' entry (`CursorEntries`) has no
need to vary, the seeks do.

`CHECK_DEADLOCK` is off in *free_extent*, *container*, *bundle*, *stats* and
*access*, where one search, one file, one bundle, a bounded number of sessions or
one mapping is followed to its end.

**What the properties say.**

- `ActiveIntact`: wherever an ACTIVE entry stands, in the page cache or on the
  disk, the extent beside it holds the content it was checksummed over. It is
  what the three stages are for.
- `ActiveApart`: the extent of an ACTIVE entry overlaps no extent that another
  readable entry claims, left-over entries of interrupted calls included. It is
  why a degraded region refuses new objects.
- `KeepsPromises`: what readers are given, now or after a power loss, is what
  the last call that returned `ROMX_OK` wrote, or one of the two contents (or
  none) while a call is under way or after one that failed. An object with a
  leftover entry may be missing, and only then.
- `KeepsPromises` in *shared*: a second call finds the object under its other spelling
  and does not create it again beside itself, which would hide both.
- `DamageIsDeletion`: an entry that a call wrote whole is never damaged to the parser, except
  for one: a deletion at generation 2^64-1 is not refused as a replacement is
  (`mutable_write.c:405`), its DELETING entry wraps to generation 0, and the parser
  takes that for damage. A deletion cut off there leaves the region DEGRADED, in
  which no object can be created; but no object that was promised is lost by it.
- `ImplementsStore`: no call ever changes what readers get of an object it does
  not name, and one content is withdrawn before another takes its place.
- `EveryCallReturns`: waiting for the lock ends.
- `ReturnsFirstFit`, `NoSpaceIsTrue`: see FreeExtent; the second says that a
  refusal is true of *every* aligned offset, not only of those the loop tried, or
  that there was no memory to try.
- `RegularLookup`: a lookup returns the old content, the new one, or none while
  its object changes, although the slots it combines may be of different
  moments; calls on other objects never hide an object.
- `CursorExactUnlessChanged`: a cursor reads wrong bytes only if a call changed
  its object since the reader opened. (It does then: the checksum is compared
  when the object is opened, and the cursor reads the file afterwards.)
- `DurableIsWhole`, `TempsAreOwned`, `AnswersAreTrue`, `ImplementsAtomicFile`:
  see Publish.
- `ReadsInside`: every read of an open reader, at any position and of any length,
  stays in its region or entry and that in the file, without wrapping.
- `IndexBelowMutable`: the index is never read from where a mutable writer works.
- `RegionsTile`, `BytesAccounted`: an accepted file consists of its regions and
  checked padding from the first byte to the last, and its payload of entries and
  checked gaps; nothing can hide.
- `RoundTrip`: the reader accepts what the writer wrote and finds each entry's
  own bytes under its place in the index. `HashCoversImmutable`: both agree on
  which bytes are immutable.
- `PathHolds`, `PublishedStays`: no other call of the library can spoil the
  entry a call returns, or the one it has just published, whatever its second look says. `EntriesHoldTheirHash`: a
  container that changes between two passes never puts other bytes under a name.
  `AuthenticUnlessChanged`: a changed container with a hash is refused, unless it
  changes during the call.
- `StreamIsLayout`: a read of the stream at any position and of any length finds
  the bytes that the laid-out bundle has there. `OpensToOneVersion`,
  `UntouchedOpens`: see Bundle. `PortableNames`: paths are distinct when case is
  ignored, neighbours or not. `BundleAccounted`: every byte of an object that
  opens is directory, one file's, or zero.
- `RefusedForCause`: a session is refused only because it counted past the limit or
  its clock went back: what the parser takes the serializer takes.
  `ReadsWhatWasWritten`: flags and values survive. `AddsUp`: each session that
  succeeded is counted once, and a write that failed late at most once more.
- `SeekIsExact`: a cursor is where exact arithmetic puts it. `ReadIsExact`: short reads
  are continued in the right place, whoever else reads. `MappedIsEntry`: a
  mapping shows the entry and zeroes, and one that failed or was closed leaves
  nothing.

**Fairness.** *shared* checks `EveryCallReturns` under weak fairness of each
writer's steps (a thread that can run does) and strong fairness of `Lock`: the
kernel queues waiters for a record lock, so a lock that keeps being released is
granted in the end. Nothing is assumed about new calls, failures, kills,
write-backs or power losses; `OpenFails` is not part of the fair step.

**What does not hold.**

- *retry*: `docs/WRITER.md` says "The third step is the commit point." A write
  that is killed after stage 1 leaves a WRITING entry and, for a new object, no
  ACTIVE one. The write is retried; the search for the object's slot (`mutable_write.c:395`)
  considers usable ACTIVE slots only, the region is not degraded by a single
  well-formed WRITING entry, so the retry creates the object in a second slot and returns
  `ROMX_OK`. From then on the parser sees two slots of one object, refuses both,
  and the region is degraded: the committed object cannot be read, and with a
  degraded region no new object can be created either.
- *threads*: "Writes lock the container" holds between processes. Two threads of
  one process both obtain the lock (`mutable_write.c:145`), plan the same slot and
  extent, and can end with one's ACTIVE entry over the other's bytes. The
  checksum keeps readers from being given such bytes, but the object is lost
  although its write returned `ROMX_OK`.

## Theorems

All are proved for every number of slots, cells, writers, processes, callers,
keys, contents and names; assumptions on constants are the named `ASSUME`s of
the modules.

- `MutableCommitProofs`: `TypeCorrect`; and under `OneWriterPerProcess`,
  `Inductive` (`[]IInv`), `CommitsAreIntact` (`[]ActiveIntact`), `ExtentsStayApart`
  (`[]ActiveApart`), `PromisesAreKept` (`[]KeepsPromises`), `CommitsImplementStore`
  (`ImplementsStore`), `DamageIsOfDeletions` (`[]DamageIsDeletion`); and, with `ReaderApart`, of a reader beside the writers (`ReaderSpec`),
  `LookupsAreRegular` (`[]RegularLookup`) and `CursorsAreExact`
  (`[]CursorExactUnlessChanged`).
- `FreeExtentProofs`: `ScanReturnsFirstFit`, `RefusalMeansNoSpace`, `ScanSweeps`
  (`[]Swept`).
- `PublishProofs`: `Inductive`, `DurableFilesAreWhole`, `NoTemporaryIsAbandoned`,
  `AnswersTellTheTruth`, `PublishingIsAtomic` (`ImplementsAtomicFile`).
- `ContainerProofs`, of the reader on any file (`ForeignSpec`): `ReaderSound`
  (`[]Sound`), `IndexBelow` (`[]IndexBelowMutable`), `Tiled` (`[]RegionsTile`),
  `Accounted` (`[]BytesAccounted`), `Inbounds` (`[]ReadsInside`); and of the writer
  and the reader of its file (`Spec`), `WrittenIsRead` (`[]RoundTrip`) and
  `HashIsOfImmutable` (`[]HashCoversImmutable`).
- `ExtractCacheProofs`: `CacheSound` (`[]Sound`), `EntriesHold`
  (`[]EntriesHoldTheirHash`), `PathsHold` (`[]PathHolds`), `Authentic`
  (`[]AuthenticUnlessChanged`), `PublishedStay` (`[]PublishedStays`).
- `BundleProofs`: `NamesArePortable` (`[]PortableNames`), `BytesAreAccounted`
  (`[]BundleAccounted`), `ReadsKnowTheSeams` (`[]StreamIsLayout`),
  `BundleIsOneVersion` (`[]OpensToOneVersion`), `UntouchedBundleOpens`
  (`[]UntouchedOpens`).
- `StatsSessionProofs`: `InvalidHasCause` (`[]RefusedForCause`), `WritesAreRead`
  (`[]ReadsWhatWasWritten`), `SessionsAddUp` (`[]AddsUp`).
- `EntryAccessProofs`: `CursorsSound` (`[]Sound`), `SeeksExact`
  (`[]SeekIsExact`), `ReadsExact` (`[]ReadIsExact`), `MappingExact`
  (`[]MappedIsEntry`).

**The assumptions.** What the `ASSUME`s ask is what the constants stand for: an
empty slot, a torn one, an absent object or document are none of the proper
ones; sizes are natural numbers, alignments, chunks and pages positive ones;
a request is one that passes the argument checks; a foreign file is told from
what the writer makes. In `Bundle` a
request names at most `MaxEntries` files, a path's size lies in `1 .. MaxPath`;
in `StatsSession` the clock does not pass the limit of a JSON
integer. `OneWriterPerProcess` and `ReaderApart` are hypotheses of the
theorems that need them and not assumptions, since run *threads* does without
the first.

**The argument for commits.** `ActiveIntact` is not inductive: that an ACTIVE
entry may be written depends on the data having been flushed, and that flushed
data stays good depends on nobody else writing there. `IInv` adds what each step
has established. `Progress` records, per step, what has been written and
flushed: after stage 1 the entry is WRITING on the disk too, so that no ACTIVE
entry of this slot survives a power loss during the copy; when the
ACTIVE entry is written, both copies of the data hold the content.
`Planned` keeps the entry being committed apart from all others, in the page
cache and, where it matters, on the disk. `ActiveSound` says that what is ACTIVE on the
disk is still claimed in the page cache: otherwise its extent could be given
away and a power loss bring the old entry back over new bytes. `CopiesApart` is
the two-copy form of `ActiveApart`. `LockHeld`, with one writer per process,
makes all of it the business of one writer at a time. The proof has a lemma per
action. That the planned extent is free rests on a lemma about the loop of
conflicts: in a region that is not degraded every well-formed slot is usable,
so an extent apart from the usable ones is apart from all.

**The argument for promises.** `KeepsPromises` speaks of what a lookup makes of
all slots together; `PInv` breaks it down to slots. `OneSlotEach`: the ACTIVE
entries of an object, in the cache and on the disk, are in one slot, so that the
choice among several never arises. `ActiveAllowed`: each is of a content that may be
served. `Settled`: an object that must be there has an ACTIVE entry that is the
same on the disk, and nothing about it is on its way. `Committing`, `Committed` and
`Withdraws` tie the step of a call to its object and slot. That the entry is
*found* as well needs the loop of conflicts again: the marks a
slot receives come from slots that were usable at their turn (`TurnsExist`), and an
entry that conflicts with no well-formed one is usable whatever the others are
(`UsableAlone`). Without a leftover of the object there is none that conflicts
with it, `CopiesApart` giving the extents and `OneSlotEach` the name.

**The argument for damage.** `DamageKnown`: a damaged entry, in the cache or on
the disk, is that of a deletion, its object may be missing, and no other slot
has an ACTIVE entry of it. The last part is what keeps a later call from promising the object
while the damaged slot stands: a replacement or a second deletion would have to find it ACTIVE elsewhere, and
a creation is refused in a degraded region. `FoundSound` carries what the plan saw to
the steps that write, when the region may have changed on the disk.

**The argument for the store.** A step must change what is visible of at most the
object of its call, in the cache and on the disk. The difficulty is that the loop of
conflicts couples slots: an entry that appears or disappears could free or
hide another object's, and the disk holds mixtures of old and new slots
that the cache never held. `SInv` says that this does not happen. `Mixed`:
whether an ACTIVE entry is usable is the same in the cache and in every
mixture of disk and cache, slots half written included; `Receding`: an entry
that only the disk still has does not become usable again as the other slots
are written back. They are kept because a call works either in the slot its
object is found in, where the claim (object and extent) stays as it was and the loop therefore
takes the same turns (`SameClaim`, `UsableAgree`), or in an
empty slot of a region without conflicts (`Placed` = `InPlace` or `Fresh`). The
exception are *ghosts*, entries that are cleared in the cache and still on the
disk: `NoGhostOf`, `OneGhost` and `GhostsUntouched` say that there is at
most one, of no object that is there, and that what it hides on the disk it
keeps hiding. `OneVersion` is the protocol's "never from one content to
another". Lemmas over all mixtures (`Mix`, `Between`) replace an induction over
the slots written back; where two directories differ, the first slot at which
the loop decides otherwise is taken, by the well-foundedness of `<`.

**The argument for readers.** `LInv` relates the copy, whose slots are of
different moments, to the region now. `Watched`: what may be returned now may be
returned for as long as the reader is open. `Scanned`: so may every ACTIVE entry that was read,
from when it was read. `Stands`: an object that was there the whole
time stands ACTIVE in one slot, in the copy as in the region once that slot was read, clear of
every well-formed entry that was read elsewhere, whatever the other calls did in between:
the lookup finds it. `Looking` adds where the lookup is; the checksum pass then
compares cells with a content that `ActiveIntact` keeps in place unless a call
changed the object.

**The argument for the search.** `Swept`: the extents passed end at or below the
cursor, the cursor is a multiple of 64 that follows an extent or is 0, and no
smaller aligned offset has room. The step is that an extent which leaves too
small a gap before it and ends beyond the cursor rules out every aligned offset
up to its rounded end.

**The argument for publishing.** `Own`: names and files of different calls
differ. `MadeApart`: a file in the making is at its temporary name, not at the
destination in either copy of the directory, and whole (and, if durable,
flushed) when its call comes to publish it. Hence no write ever reaches a file
that has a reader's name, and a rename can only place a whole one. For the
refinement `FilesSound` adds that a file with the destination's name was made
by some call, and that bytes on the disk are those of the cache or partial; then
each step of `Publish` is one of `AtomicFile` or a stutter. One of them does two things:
a rename places the file and, without `DURABLE`, decides the answer.

**The argument for containers.** `Sound` has a conjunct per stage of the reader,
each of which survives into the later stages: `FooterSound` (payload, index header and mutable region
fit below the footer, so that the differences taken later do not wrap),
`IndexSound` (the index fits too: its count was bounded by a division),
`EntriesSound` (each entry lies in the payload), `SweepSound` (the entries
passed end at or below `end` and share no byte, and every byte below `end` is in an entry or was
seen to be zero),
`PlaceSound` (the regions follow one another). With these, each word operation
equals the one on integers, and the four properties follow.

**The argument for the writer.** `WriterSound` relates `offset`, from which index and
footer are made, to `bytes`, which say what lies where. `Streaming`: the entries
streamed so far hold their bytes at the offsets noted for them, do not overlap,
and leave no byte below the payload's end to none; tiling by sets of entries
needs no sum over the sequence of sizes. `Following`: metadata, cover, padding
and header lie where the sizes before them add up to, and `hashed` is the file
up to the mutable region. `Finished`: the index and the footer say so. `Accepting`
then takes the reader through the file step by step: every check holds, because the
word operations do not wrap and the sweep, which takes the entries by offset, finds
each one at the end of the one before. The one subtle step is the padding:
`AlignUp` wraps for contents close to the largest word, and the difference that is to
be written is then too large for any file (`RoundedUp`).

**The argument for the cache.** `Sound` says that what a call has seen in the
copying pass when it comes to publish is what its name says; so every
`Place` puts right content under a name, and an entry goes wrong only by `Tamper`.
`changed` makes the rest relative: while the container has not
changed during the call, a pass has seen what the container holds, which after
validation is what the footer says, and so is the name.

**The argument for bundles.** `RInv` is the reader's: `Tiled` says that the
entries read so far follow each other from the header's data offset to the
cursor without a gap, in the order of their paths, and `Checks` that the zeroes seen are the prefix
and the tails of the files checked. `NamesArePortable` needs that `portable_unique` compares
sorted folded names, `BytesAreAccounted` that the cursor ends at the size. `WInv` is the writer's:
`Laid` (the sources are the request in path order, at the offsets the layout gives),
`Versions` (while no file has changed, sizes and checksums are the files'),
`Written` (and what the second pass has is the layout's bytes up to the
position). That a read sees those bytes at any position is `ReadsKnowTheSeams`:
each position is in the directory, in one file, or in the
padding behind one. `Shown` joins the two: what opens is what was stored.

**The argument for statistics.** `FInv`: statistics that a session holds keep the
fields that their flags say, and a document that the parser accepted serializes
to one that it accepts with the same values, unless play ran over the limit or the clock
went back. `SInv`, for sessions one after the other: `OneByOne` (the active session
knows what the object holds, or has hidden it) and `Counts` (the count exceeds the
start by the sessions reported and at most those unsure).

**The argument for cursors.** `Sound` keeps `pos` equal to `ideal`, which rests
on the range of words, and each read under way aligned: its buffer is the entry's bytes from the
cursor on. For builds without `pread` it adds that one read at a time is under
way until two have crossed (`OneAtATime`), and that a descriptor which has been
positioned stands where that read goes on.

**The argument for mappings.** `MapSound` says which pages are right after
each stage: after the middle every page holds the entry or is inaccessible, then the first
page is right, then the last, hence all. Its arithmetic is that of rounding
to pages (`FloorFacts`, `CeilingFacts`): the middle lies in the entry, and what it
lacks is on the first or the last page.

**Only model-checked.** `EveryCallReturns`, since liveness is beyond the prover;
and what the two violation runs show.

## Plan

Done: 1 `MutableRegion`, `MutableCommit`, `MutableStore`; 2 `FreeExtent`;
3 `MutableReader`; 4 `Publish`, `AtomicFile`; 5 `ExtractCache`; 6
`ContainerReader`, `Container`; 7 `Bundle`; 8 `StatsSession`; 9 `EntryAccess`;
10 theorems about all of these, both refinements among them. To come:

11. A commit that goes to a container which is published anew under its name
    (`mutable_write.c:357`).

## Not modelled

The parsers of JSON, metadata, PNG and foreign disc formats are stateless
functions of their input whose subject is a grammar character by character; SHA-256
and CRC32 have published test vectors; registry, error texts and type
declarations have no behaviour. Of reader construction, the checks of metadata, cover and
entry checksums are left out; they read and refuse. So are the front ends that
open paths and the ways to enumerate, which keep no state, and the Windows
branches.
