--------------------------- MODULE ContainerReader ---------------------------
(***************************************************************************)
(* How a reader finds the regions of a container: romx_reader_create       *)
(* (src/src/reader.c) parses the footer (src/src/footer.c), the payload    *)
(* index (src/src/ridx.c) and the header of the mutable region, and        *)
(* answers reads of regions (src/src/region.c) and entries.                *)
(*                                                                         *)
(* Sizes and offsets are machine words: sums and differences wrap around   *)
(* as uint64_t does.  A foreign file may hold anything; its fields are     *)
(* chosen when the reader reads them, each once.  What has no bearing on   *)
(* the layout (magics, checksums, reserved bytes, flags, paths) is sound   *)
(* or not; that it is not sound is one more reason to refuse the file.     *)
(***************************************************************************)
EXTENDS Integers, FiniteSets

CONSTANTS
  Modulus,      \* words are 0 .. Modulus - 1
  FooterSize,   \* ROMX_FOOTER_SIZE
  IndexHeader,  \* ROMX_RIDX_HEADER_SIZE
  IndexEntry,   \* ROMX_RIDX_ENTRY_SIZE
  Align,        \* 4096, also the size of the mutable header
  MutableMin,   \* the least capacity of a mutable region
  SlotSize,     \* size of a slot in the mutable directory
  SlotUnit,     \* slots come in multiples of this
  MaxEntries,   \* bound on the entries of an index
  Foreign       \* a file that this library need not have written

Words == 0 .. Modulus - 1

ASSUME ContainerAssumption ==
  /\ Modulus \in Nat
  /\ {FooterSize, IndexHeader, IndexEntry, Align, MutableMin, SlotSize, SlotUnit}
       \subseteq Words \ {0}
  /\ MaxEntries \in Nat

Add(a, b) == IF a + b < Modulus THEN a + b ELSE a + b - Modulus
Sub(a, b) == IF b <= a THEN a - b ELSE a - b + Modulus

\* (x + 4095) & ~4095
AlignUp(x) == LET top == Add(x, Align - 1) IN top - (top % Align)

Span(a, b) == {x \in Words : a <= x /\ x < b}

VARIABLES
  disk,     \* what the file holds: Foreign, or the writer's product
  size,     \* size of the file
  step,     \* how far the reader has come
  info,     \* sizes that the footer gives
  count,    \* entries the index announces
  entries,  \* entries parsed so far
  end,      \* content_end
  left,     \* entries that the sweep over the payload has not reached
  slots,    \* capacity of the mutable directory; 0 when there is none or it is invalid
  zero      \* history: the bytes that were seen to be zero

parsed == <<info, count, entries, end, left, slots, zero>>
reader == <<disk, size, step, parsed>>

NoInfo == [payload |-> 0, metadata |-> 0, cover |-> 0, capacity |-> 0]
NoEntries == [i \in {} |-> 0]

Fresh ==
  /\ info = NoInfo
  /\ count = 0
  /\ entries = NoEntries
  /\ end = 0
  /\ left = {}
  /\ slots = 0
  /\ zero = {}

\* The reader's memory is freed, and the caller is told why.
Refuse ==
  /\ step' = "refused"
  /\ info' = NoInfo
  /\ count' = 0
  /\ entries' = NoEntries
  /\ end' = 0
  /\ left' = {}
  /\ slots' = 0
  /\ zero' = {}
  /\ UNCHANGED <<disk, size>>

ForeignInit == disk = Foreign /\ size \in Words /\ step = "footer" /\ Fresh

FooterAt == Sub(size, FooterSize)
MutableAt == Sub(FooterAt, info.capacity)
Immutable == IF info.capacity = 0 THEN FooterAt ELSE MutableAt
IndexSize == IndexHeader + count * IndexEntry

\* What a read may find: a foreign file holds any value.
Found(value, all) == IF disk = Foreign THEN all ELSE {value}

\* region_is_zero; a foreign file that is not zero there takes the step Unsound.
Zeroed(bytes) == disk = Foreign \/ bytes \subseteq disk.zeros

\* A check that is not about the layout fails.
Unsound ==
  /\ disk = Foreign
  /\ step \in {"footer", "index", "entries", "sweep", "place"}
  /\ Refuse

-----------------------------------------------------------------------------
\* Mutant: room for the index is not required below the mutable region.
FooterOkLoose(p, c) ==
  /\ p # 0
  /\ p <= FooterAt
  /\ Sub(FooterAt, p) >= IndexHeader
  /\ c # 0 => c >= MutableMin /\ c % Align = 0 /\ c <= FooterAt

\* romx_parse_footer.
FooterOk(p, c) ==
  LET immutable == IF c = 0 THEN FooterAt ELSE Sub(FooterAt, c) IN
  /\ p # 0
  /\ p <= FooterAt
  /\ Sub(FooterAt, p) >= IndexHeader
  /\ c # 0 => c >= MutableMin /\ c % Align = 0 /\ c <= FooterAt
  /\ p <= immutable
  /\ Sub(immutable, p) >= IndexHeader

ParseFooter ==
  /\ step = "footer"
  /\ \E p \in Found(disk.payload, Words), c \in Found(disk.capacity, Words) :
       IF FooterSize <= size /\ FooterOk(p, c)
       THEN /\ step' = "index"
            /\ info' = [NoInfo EXCEPT !.payload = p, !.capacity = c]
            /\ UNCHANGED <<disk, size, count, entries, end, left, slots, zero>>
       ELSE Refuse

\* The header of the index; the division keeps the product below from wrapping.
ParseIndex ==
  /\ step = "index"
  /\ \E n \in Found(disk.count, 0 .. MaxEntries) :
       IF n # 0 /\ n <= (Sub(Sub(Immutable, info.payload), IndexHeader)) \div IndexEntry
       THEN /\ step' = "entries"
            /\ count' = n
            /\ UNCHANGED <<disk, size, info, entries, end, left, slots, zero>>
       ELSE Refuse

Entry == [at : Words, n : Words, start : BOOLEAN]

EntryOk(e) ==
  /\ e.at <= info.payload
  /\ e.n <= Sub(info.payload, e.at)
  /\ e.start => e.at = 0 /\ e.n # 0

Parsed == Cardinality(DOMAIN entries)

ParseEntry ==
  /\ step = "entries"
  /\ Parsed < count
  /\ LET i == Parsed + 1 IN
     \E e \in Found(disk.entries[i], Entry) :
       IF EntryOk(e)
       THEN /\ entries' = [j \in 1 .. i |-> IF j = i THEN e ELSE entries[j]]
            /\ UNCHANGED <<disk, size, step, info, count, end, left, slots, zero>>
       ELSE Refuse

\* One entrypoint; and a single file fills the payload.
EntriesDone ==
  /\ step = "entries"
  /\ Parsed = count
  /\ IF /\ Cardinality({i \in 1 .. count : entries[i].start}) = 1
        /\ count = 1 => entries[1].at = 0 /\ entries[1].n = info.payload
     THEN /\ step' = "sweep"
          /\ left' = {i \in 1 .. count : entries[i].n # 0}
          /\ UNCHANGED <<disk, size, info, count, entries, end, slots, zero>>
     ELSE Refuse

\* qsort with range_compare; ranges that are equal come in any order.
EndOf(e) == Add(e.at, e.n)
Before(e, f) == e.at < f.at \/ (e.at = f.at /\ EndOf(e) <= EndOf(f))

SweepEntry ==
  /\ step = "sweep"
  /\ \E i \in left :
       /\ \A j \in left : Before(entries[i], entries[j])
       /\ LET gap == Span(end, entries[i].at) IN
          IF entries[i].at >= end /\ Zeroed(gap)
          THEN /\ end' = EndOf(entries[i])
               /\ left' = left \ {i}
               /\ zero' = zero \cup gap
               /\ UNCHANGED <<disk, size, step, info, count, entries, slots>>
          ELSE Refuse

\* Mutant: what follows the last entry is not looked at.
SweepDoneEarly ==
  /\ step = "sweep"
  /\ left = {}
  /\ step' = "place"
  /\ UNCHANGED <<disk, size, parsed>>

SweepDone ==
  /\ step = "sweep"
  /\ left = {}
  /\ LET gap == Span(end, info.payload) IN
       IF Zeroed(gap)
       THEN /\ step' = "place"
            /\ zero' = zero \cup gap
            /\ UNCHANGED <<disk, size, info, count, entries, end, left, slots>>
       ELSE Refuse

\* Where metadata and cover end.
IndexEnd == Add(info.payload, IndexSize)
MetadataEnd(m) == Add(IndexEnd, m)
CoverEnd(m, v) == Add(MetadataEnd(m), v)

\* Mutant: the ends of the regions are compared instead of their sizes.
RegionsFitSum(m, v) ==
  /\ MetadataEnd(m) <= Immutable
  /\ CoverEnd(m, v) <= Immutable

RegionsFit(m, v) ==
  /\ m <= Sub(Immutable, IndexEnd)
  /\ v <= Sub(Immutable, MetadataEnd(m))

\* Mutant: the mutable region may begin later.
FollowsLoosely(last) ==
  IF info.capacity = 0 THEN last = FooterAt
  ELSE last <= Modulus - Align /\ AlignUp(last) <= MutableAt

\* What follows the cover, without a byte to spare.
Follows(last) ==
  IF info.capacity = 0 THEN last = FooterAt
  ELSE last <= Modulus - Align /\ AlignUp(last) = MutableAt

PlaceRegions ==
  /\ step = "place"
  /\ \E m \in Found(disk.metadata, Words), v \in Found(disk.cover, Words) :
       LET last == CoverEnd(m, v)
           padding == IF info.capacity = 0 THEN {} ELSE Span(last, AlignUp(last))
       IN IF RegionsFit(m, v) /\ Follows(last) /\ Zeroed(padding)
          THEN /\ step' = IF info.capacity = 0 THEN "ready" ELSE "mutable"
               /\ info' = [info EXCEPT !.metadata = m, !.cover = v]
               /\ end' = last
               /\ zero' = zero \cup padding
               /\ UNCHANGED <<disk, size, count, entries, left, slots>>
          ELSE Refuse

\* The header of the mutable region; the directory follows it and data follows
\* that.  A header that will not do makes the region INVALID, not the file.
SlotCounts == {n \in Words : Align + n * SlotSize < Modulus}
DataAt(n) == Align + n * SlotSize
HeaderOk(n) == n >= SlotUnit /\ n % SlotUnit = 0 /\ DataAt(n) % Align = 0 /\ DataAt(n) < info.capacity

ParseMutable ==
  /\ step = "mutable"
  /\ \E n \in Found(disk.slots, SlotCounts), sound \in Found(TRUE, BOOLEAN) :
       slots' = IF sound /\ HeaderOk(n) THEN n ELSE 0
  /\ step' = "ready"
  /\ UNCHANGED <<disk, size, info, count, entries, end, left, zero>>

\* Memory or a read fails: the same exit, for a reason that is not the file's.
Fail ==
  /\ step \notin {"none", "ready", "refused", "failed"}
  /\ step' = "failed"
  /\ info' = NoInfo /\ count' = 0 /\ entries' = NoEntries /\ end' = 0
  /\ left' = {} /\ slots' = 0 /\ zero' = {}
  /\ UNCHANGED <<disk, size>>

ReaderNext ==
  \/ ParseFooter \/ ParseIndex \/ ParseEntry \/ EntriesDone \/ SweepEntry \/ SweepDone
  \/ PlaceRegions \/ ParseMutable \/ Unsound \/ Fail

ForeignSpec == ForeignInit /\ [][ReaderNext]_reader

-----------------------------------------------------------------------------
(***************************************************************************)
(* The reads that an open reader issues; they change nothing.              *)
(***************************************************************************)
Region(at, n) == [at |-> at, n |-> n]

\* romx_get_region_info.  An absent region has offset 0.
PayloadRegion   == Region(0, info.payload)
IndexRegion     == Region(info.payload, IndexSize)
MetadataRegion  == Region(IF info.metadata = 0 THEN 0 ELSE IndexEnd, info.metadata)
CoverRegion     == Region(IF info.cover = 0 THEN 0 ELSE MetadataEnd(info.metadata), info.cover)
MutableRegion   == Region(IF info.capacity = 0 THEN 0 ELSE MutableAt, info.capacity)
ImmutableRegion == Region(0, Immutable)
Regions == {PayloadRegion, IndexRegion, MetadataRegion, CoverRegion, MutableRegion, ImmutableRegion}

\* romx_reader_read_region, romx_reader_read_entry and each round of
\* romx_reader_copy_region: n bytes from a position that is not past the end.
ReadAt(r, from, n) ==
  [at |-> Add(r.at, from), n |-> IF n < Sub(r.n, from) THEN n ELSE Sub(r.n, from)]

EntryRegion(i) == Region(entries[i].at, entries[i].n)

Inside(a, b) == b.at <= a.at /\ a.at + a.n <= b.at + b.n

\* Every read of an open reader stays within the region or the entry it is for,
\* and that within the file, at any position and for any length, without wrap-around.
ReadsInside ==
  step = "ready" =>
    /\ \A r \in Regions : r.at + r.n <= FooterAt
    /\ \A i \in 1 .. count : Inside(EntryRegion(i), PayloadRegion)
    /\ \A r \in Regions \cup {EntryRegion(i) : i \in 1 .. count} :
         \A from \in 0 .. r.n, n \in Words : Inside(ReadAt(r, from, n), r)

\* While it parses, the reader never reads the index from what lies beyond the
\* immutable content, where a mutable writer may be at work.
IndexBelowMutable ==
  /\ step = "index" => info.payload + IndexHeader <= Immutable
  /\ step \in {"entries", "sweep", "place"} => info.payload + IndexSize <= Immutable

\* A file that is accepted consists of its regions: they follow one another from
\* its first byte to its footer, and nothing is hidden between or behind them.
RegionsTile ==
  step = "ready" =>
    LET last == info.payload + IndexSize + info.metadata + info.cover IN
    IF info.capacity = 0 THEN last + FooterSize = size
    ELSE /\ last <= MutableAt
         /\ MutableAt - last < Align
         /\ Span(last, MutableAt) \subseteq zero
         /\ MutableAt + info.capacity + FooterSize = size

\* Every byte of the payload belongs to exactly one entry, or was seen to be zero.
BytesAccounted ==
  step = "ready" =>
    \A x \in Span(0, info.payload) :
      LET holders == {i \in 1 .. count : entries[i].at <= x /\ x < entries[i].at + entries[i].n} IN
      IF holders = {} THEN x \in zero ELSE \E i \in holders : holders = {i}
=============================================================================
