------------------------------- MODULE Bundle -------------------------------
(***************************************************************************)
(* SAVE and CHEAT bundles (src/src/mutable_bundle.c): a set of files laid  *)
(* out as one mutable object.                                              *)
(*                                                                         *)
(* The writer takes size and checksum of every file, lays the bundle out,  *)
(* and serves it piece by piece to romx_mutable_write_io_path, which reads *)
(* it twice: once for the checksum of the object and once to store it.     *)
(* The files stay open but nothing keeps other programs from changing      *)
(* them.  The reader opens what was stored, or an object that some other   *)
(* program made; the fields of the latter are chosen when they are read.   *)
(*                                                                         *)
(* A checksum stands for the bytes it is taken of.  A path is a number,    *)
(* in the order of path_compare_bytes, and is one that path_valid accepts. *)
(***************************************************************************)
EXTENDS Integers, Sequences, FiniteSets, Functions

CONSTANTS
  Paths,        \* numbers
  PathSize,     \* [Paths -> Nat]: strlen
  Fold,         \* [Paths -> Nat]: equal for paths that differ only in case
  Contents,     \* what files may hold: sequences of bytes
  Requests,     \* lists of paths to bundle
  HeaderSize,   \* BUNDLE_HEADER_SIZE
  EntrySize,    \* BUNDLE_ENTRY_SIZE
  Align,        \* 64
  MaxBundle,    \* max_bundle_size
  MaxEntries,   \* max_entry_count
  MaxPath,      \* max_path_size
  Chunk,        \* io_chunk_size
  MaxChanges,   \* bound on what other programs do to the files
  Foreign,      \* an object that this library need not have written
  None          \* no object

ASSUME BundleAssumption ==
  /\ Align \in Nat \ {0} /\ Chunk \in Nat \ {0}
  /\ HeaderSize \in Nat /\ EntrySize \in Nat
  /\ MaxBundle \in Nat /\ MaxEntries \in Nat /\ MaxPath \in Nat
  /\ Paths \subseteq Nat
  /\ PathSize \in [Paths -> 1 .. MaxPath]
  /\ Fold \in [Paths -> Nat]
  /\ Contents \subseteq Seq(Nat)
  /\ Requests \subseteq Seq(Paths)
  /\ \A r \in Requests : Len(r) <= MaxEntries

VARIABLES
  files, changes,  \* what the files hold, and how often that was changed
  request,         \* what the caller wants bundled
  wpc,             \* the writer
  source,          \* its entries
  position,        \* how far the object has been read, in this pass
  first,           \* bytes the first pass read
  second,          \* bytes the second pass read, which are stored
  object,          \* the committed object
  rpc,             \* the reader
  head, dir,       \* header and entries that were read
  checked,         \* entries whose checksum and padding were checked
  zero             \* history: offsets that were seen to be zero

writer == <<request, source, position, first, second>>
found == <<head, dir, checked, zero>>
vars == <<files, changes, wpc, writer, object, rpc, found>>

Offsets == 0 .. MaxBundle
Span(a, b) == {q \in Offsets : a <= q /\ q < b}
Least(a, b) == IF a < b THEN a ELSE b
Most(a, b) == IF a > b THEN a ELSE b
AlignUp(x) == ((x + Align - 1) \div Align) * Align
PathTable(n) == HeaderSize + n * EntrySize

\* Mutant: only neighbours in byte order are compared.
NeighboursUnique(paths) ==
  \A i \in 1 .. Len(paths) - 1 : Fold[paths[i]] # Fold[paths[i + 1]]

PortableUnique(paths) ==
  \A i, j \in 1 .. Len(paths) : i # j => Fold[paths[i]] # Fold[paths[j]]

PathsOf(es) == [i \in 1 .. Len(es) |-> es[i].path]

NoHead == [count |-> 0, data |-> 0, size |-> 0]
NothingFound == head = NoHead /\ dir = <<>> /\ checked = 0 /\ zero = {}

Init ==
  /\ files \in [Paths -> Contents]
  /\ changes = 0
  /\ source = <<>> /\ position = 0 /\ first = <<>> /\ second = <<>>
  /\ NothingFound
  /\ \/ request \in Requests /\ wpc = "open" /\ object = None /\ rpc = "none"
     \/ request = <<>> /\ wpc = "none" /\ object = Foreign /\ rpc = "header" /\ files = [p \in Paths |-> <<>>]

-----------------------------------------------------------------------------
(* The writer: romx_mutable_bundle_write_path_entries.                     *)

\* External: another program writes to one of the files.
Change ==
  /\ wpc \in {"open", "sum", "layout", "first", "second"}
  /\ changes < MaxChanges
  /\ \E i \in 1 .. Len(request), c \in Contents :
       files[request[i]] # c /\ files' = [files EXCEPT ![request[i]] = c]
  /\ changes' = changes + 1
  /\ UNCHANGED <<wpc, writer, object, rpc, found>>

GiveUp == wpc' = "failed" /\ UNCHANGED <<files, changes, writer, object, rpc, found>>

\* No memory, or a file cannot be opened or read.
WriterFails == wpc \in {"open", "sum", "layout", "first", "second"} /\ GiveUp

OpenFile ==
  /\ wpc = "open"
  /\ Len(source) < Len(request)
  /\ LET p == request[Len(source) + 1] IN
     source' = Append(source, [path |-> p, n |-> Len(files[p]), sum |-> <<>>, at |-> 0, pathAt |-> 0, pn |-> PathSize[p]])
  /\ wpc' = "sum"
  /\ UNCHANGED <<files, changes, request, position, first, second, object, rpc, found>>

\* fread of n bytes; the file may have been cut short since its size was taken.
Readable(e, from, n) == from + n <= Len(files[e.path])
FileBytes(e, from, n) == SubSeq(files[e.path], from + 1, from + n)

\* file_crc, of as many bytes as the file had.
Checksum ==
  /\ wpc = "sum"
  /\ LET k == Len(source)  e == source[k] IN
     IF Readable(e, 0, e.n)
     THEN /\ source' = [source EXCEPT ![k].sum = FileBytes(e, 0, e.n)]
          /\ wpc' = "open"
          /\ UNCHANGED <<files, changes, request, position, first, second, object, rpc, found>>
     ELSE GiveUp

\* qsort, which may leave entries of one path in any order.
Orderings(es) ==
  {s \in {[i \in DOMAIN es |-> es[p[i]]] : p \in Bijection(DOMAIN es, DOMAIN es)} :
     \A i, j \in DOMAIN es : i < j => s[i].path <= s[j].path}

PathEnd(es, k) ==
  LET to[i \in 0 .. k] == IF i = 0 THEN PathTable(Len(es)) ELSE to[i - 1] + es[i].pn IN to[k]

\* Mutant: a file begins right behind the one before.
PackedOffset(es, k) ==
  LET to[i \in 1 .. k] == IF i = 1 THEN AlignUp(PathEnd(es, Len(es))) ELSE to[i - 1] + es[i - 1].n
  IN to[k]

\* Where the k-th file begins; for k one more than there are files, where the bundle ends.
DataOffset(es, k) ==
  LET to[i \in 1 .. k] ==
        IF i = 1 THEN AlignUp(PathEnd(es, Len(es))) ELSE AlignUp(to[i - 1] + es[i - 1].n)
  IN to[k]

Placed(es) ==
  [i \in 1 .. Len(es) |-> [es[i] EXCEPT !.at = DataOffset(es, i), !.pathAt = PathEnd(es, i - 1)]]

PrefixSize == AlignUp(PathEnd(source, Len(source)))
BundleSize == DataOffset(source, Len(source) + 1)

\* The rest of build_source.
Layout ==
  /\ wpc = "open"
  /\ Len(source) = Len(request)
  /\ \E sorted \in Orderings(source) :
     IF PortableUnique(PathsOf(sorted)) /\ DataOffset(sorted, Len(sorted) + 1) <= MaxBundle
     THEN /\ source' = Placed(sorted)
          /\ wpc' = "first"
          /\ UNCHANGED <<files, changes, request, position, first, second, object, rpc, found>>
     ELSE GiveUp

\* A byte of header, directory or path table; no file holds one like it.
Directory(q) == 1000 + q

PrefixByte(q) == IF q < PathEnd(source, Len(source)) THEN Directory(q) ELSE 0

\* The part of an entry that a read of n bytes from an offset takes.
Start(e, offset) == Most(offset, e.at)
Stop(e, offset, n) == Least(offset + n, e.at + e.n)
Touched(e, offset, n) == offset + n > e.at /\ offset < e.at + e.n

\* Mutant: the file is read from its beginning again.
CopiedFromStart(e, offset, n, q) ==
  FileBytes(e, 0, Stop(e, offset, n) - Start(e, offset))[q - Start(e, offset) + 1]

Copied(e, offset, n, q) ==
  FileBytes(e, Start(e, offset) - e.at, Stop(e, offset, n) - Start(e, offset))[q - Start(e, offset) + 1]

\* source_read_at: zeroes, the prefix over them, the files over that.
CanRead(offset, n) ==
  \A i \in 1 .. Len(source) :
    LET e == source[i] IN
    Touched(e, offset, n) => Readable(e, Start(e, offset) - e.at, Stop(e, offset, n) - Start(e, offset))

ReadAt(offset, n) ==
  LET Holders(q) == {i \in 1 .. Len(source) :
        Touched(source[i], offset, n) /\ q \in Start(source[i], offset) .. Stop(source[i], offset, n) - 1}
  IN [x \in 1 .. n |->
       LET q == offset + x - 1 IN
       IF Holders(q) # {} THEN Copied(source[CHOOSE i \in Holders(q) : TRUE], offset, n, q)
       ELSE IF q < PrefixSize THEN PrefixByte(q)
       ELSE 0]

\* source_crc and source_write: the two passes of romx_mutable_write_io_path.
ReadChunk ==
  /\ wpc \in {"first", "second"}
  /\ position < BundleSize
  /\ LET n == Least(Chunk, BundleSize - position) IN
     IF CanRead(position, n)
     THEN /\ position' = position + n
          /\ IF wpc = "first" THEN first' = first \o ReadAt(position, n) /\ UNCHANGED second
             ELSE second' = second \o ReadAt(position, n) /\ UNCHANGED first
          /\ UNCHANGED <<files, changes, request, wpc, source, object, rpc, found>>
     ELSE GiveUp

FirstPassDone ==
  /\ wpc = "first"
  /\ position = BundleSize
  /\ wpc' = "second" /\ position' = 0
  /\ UNCHANGED <<files, changes, request, source, first, second, object, rpc, found>>

\* The object is committed when both passes agree, and can be opened from then on.
Commit ==
  /\ wpc = "second"
  /\ position = BundleSize
  /\ IF first = second
     THEN /\ wpc' = "done"
          /\ object' = [count |-> Len(source), data |-> PrefixSize, size |-> BundleSize, dir |-> source, bytes |-> second]
          /\ rpc' = "header"
          /\ UNCHANGED <<files, changes, writer, found>>
     ELSE GiveUp

-----------------------------------------------------------------------------
(* The reader: romx_mutable_bundle_open.                                   *)

Found(value, all) == IF object = Foreign THEN all ELSE {value}

Stored(at, n) == SubSeq(object.bytes, at + 1, at + n)

Refuse(why) ==
  /\ rpc' = why
  /\ head' = NoHead /\ dir' = <<>> /\ checked' = 0 /\ zero' = {}
  /\ UNCHANGED <<files, changes, wpc, writer, object>>

\* A check that does not concern the layout fails, or memory or a read does.
Reading == rpc \in {"header", "entries", "check"}
Unsound == object = Foreign /\ Reading /\ Refuse("refused")
ReaderFails == Reading /\ Refuse("failed")

\* A directory that was not stored as it was built.
Garbled == object # Foreign /\ \E q \in 0 .. PathEnd(object.dir, object.count) - 1 : object.bytes[q + 1] # Directory(q)

HeaderOk(h) ==
  /\ h.size >= HeaderSize /\ h.size <= MaxBundle
  /\ h.count <= MaxEntries
  /\ h.data >= PathTable(h.count) /\ h.data % Align = 0 /\ h.data <= h.size

ReadHeader ==
  /\ rpc = "header"
  /\ \E n \in Found(object.count, 0 .. MaxEntries), d \in Found(object.data, Offsets), s \in Found(object.size, Offsets) :
       LET h == [count |-> n, data |-> d, size |-> s] IN
       IF HeaderOk(h) /\ ~Garbled
       THEN rpc' = "entries" /\ head' = h /\ UNCHANGED <<files, changes, wpc, writer, object, dir, checked, zero>>
       ELSE Refuse("refused")

\* path_cursor and data_cursor.
PathCursor(k) == IF k = 1 THEN PathTable(head.count) ELSE dir[k - 1].pathAt + dir[k - 1].pn
DataCursor(k) == IF k = 1 THEN head.data ELSE AlignUp(dir[k - 1].at + dir[k - 1].n)

\* What a foreign entry may say of an offset: the truth, the next, or an end of the range.
Claims(x) == {0, x, x + 1, MaxBundle}

\* A path takes at least its size: one that holds a NUL ends there.
ForeignEntries(k) ==
  {e \in [path : Paths, pn : 0 .. MaxPath, pathAt : Claims(PathCursor(k)),
          at : Claims(DataCursor(k)), n : 0 .. Align + 1, sum : {<<>>}] : e.pn = 0 \/ PathSize[e.path] <= e.pn}

EntryOk(k, e) ==
  /\ e.pathAt = PathCursor(k) /\ e.pn # 0 /\ e.pn <= MaxPath
  /\ e.pathAt <= head.data /\ e.pn <= head.data - e.pathAt
  /\ e.at = DataCursor(k) /\ e.n <= head.size - e.at
  /\ k > 1 => dir[k - 1].path < e.path /\ Fold[dir[k - 1].path] # Fold[e.path]
  /\ AlignUp(e.at + e.n) <= head.size

ReadEntryHeader ==
  /\ rpc = "entries"
  /\ Len(dir) < head.count
  /\ LET k == Len(dir) + 1 IN
     \E e \in Found(object.dir[k], ForeignEntries(k)) :
       IF EntryOk(k, e)
       THEN dir' = Append(dir, e) /\ UNCHANGED <<files, changes, wpc, writer, object, rpc, head, checked, zero>>
       ELSE Refuse("refused")

\* validate_zero_range; a foreign object that is not zero there takes the step Unsound.
Zeroed(qs) == object = Foreign \/ \A q \in qs : object.bytes[q + 1] = 0

\* Mutant: bytes behind the last file are accepted.
EndsLoosely == DataCursor(head.count + 1) <= head.size

EndsThere == DataCursor(head.count + 1) = head.size

Canonical ==
  LET pathEnd == PathCursor(head.count + 1)
      padding == Span(pathEnd, head.data)
  IN
  /\ rpc = "entries"
  /\ Len(dir) = head.count
  /\ IF /\ PortableUnique(PathsOf(dir))
        /\ AlignUp(pathEnd) = head.data
        /\ EndsThere
        /\ Zeroed(padding)
     THEN rpc' = "check" /\ zero' = zero \cup padding /\ UNCHANGED <<files, changes, wpc, writer, object, head, dir, checked>>
     ELSE Refuse("refused")

\* Mutant: the checksum is left to the caller, who gets it with the entry.
SumUnchecked(e) == TRUE

\* validate_entry_crc.
SumOk(e) == object = Foreign \/ Stored(e.at, e.n) = e.sum

CheckEntry ==
  /\ rpc = "check"
  /\ checked < head.count
  /\ LET e == dir[checked + 1]
         padding == Span(e.at + e.n, AlignUp(e.at + e.n))
     IN IF SumOk(e) /\ Zeroed(padding)
        THEN /\ checked' = checked + 1
             /\ zero' = zero \cup padding
             /\ UNCHANGED <<files, changes, wpc, writer, object, rpc, head, dir>>
        ELSE Refuse("refused")

Opened ==
  /\ rpc = "check"
  /\ checked = head.count
  /\ rpc' = "ready"
  /\ UNCHANGED <<files, changes, wpc, writer, object, found>>

\* romx_mutable_bundle_read_entry: the offsets that a read of an entry takes.
EntrySpan(e, from, n) == Span(e.at + from, e.at + from + Least(n, e.n - from))

Next ==
  \/ Change \/ WriterFails \/ OpenFile \/ Checksum \/ Layout \/ ReadChunk \/ FirstPassDone \/ Commit
  \/ Unsound \/ ReaderFails \/ ReadHeader \/ ReadEntryHeader \/ Canonical \/ CheckEntry \/ Opened

Spec == Init /\ [][Next]_vars

-----------------------------------------------------------------------------
\* Wherever a read of the stream begins and ends, it finds what a reader of the
\* whole bundle would find there: source_read_at knows every seam between the
\* directory, the files and the padding.
StreamIsLayout ==
  (wpc = "first" /\ changes = 0) =>
    LET Holds(e, q) == e.at <= q /\ q < e.at + e.n
        Byte(q) == IF \E i \in 1 .. Len(source) : Holds(source[i], q)
                   THEN LET e == source[CHOOSE i \in 1 .. Len(source) : Holds(source[i], q)]
                        IN files[e.path][q - e.at + 1]
                   ELSE IF q < PathEnd(source, Len(source)) THEN Directory(q) ELSE 0
    IN \A offset \in 0 .. BundleSize : \A n \in 0 .. BundleSize - offset :
         ReadAt(offset, n) = [x \in 1 .. n |-> Byte(offset + x - 1)]

\* A bundle that opens holds, for every file, the bytes its checksum was taken
\* of, whatever happened to the files while it was written: never half of one
\* version and half of another, and never the bytes of another file.
OpensToOneVersion ==
  (rpc = "ready" /\ object # Foreign) =>
    \A i \in 1 .. Len(dir) :
      /\ Stored(dir[i].at, dir[i].n) = dir[i].sum
      /\ changes = 0 => dir[i].sum = files[dir[i].path]

\* Files that nobody touches make a bundle that opens, with exactly the paths
\* that were asked for.
UntouchedOpens ==
  (object \notin {None, Foreign} /\ changes = 0) =>
    /\ rpc # "refused"
    /\ rpc = "ready" => {dir[i].path : i \in 1 .. Len(dir)} = {request[i] : i \in 1 .. Len(request)}

\* What opens can be restored on a file system that ignores case: the paths are
\* distinct there, and they are in order.
PortableNames ==
  rpc = "ready" =>
    \A i, j \in 1 .. Len(dir) : i < j =>
      dir[i].path < dir[j].path /\ Fold[dir[i].path] # Fold[dir[j].path]

\* Every byte of an object that opens is directory, part of one file, or zero;
\* and a read of a file takes bytes of that file only.
BundleAccounted ==
  rpc = "ready" =>
    LET Files(q) == {i \in 1 .. Len(dir) : dir[i].at <= q /\ q < dir[i].at + dir[i].n} IN
    /\ \A q \in Span(0, head.size) :
         IF q < PathCursor(head.count + 1) THEN Files(q) = {} /\ q \notin zero
         ELSE IF q \in zero THEN Files(q) = {} ELSE Cardinality(Files(q)) = 1
    /\ \A i \in 1 .. Len(dir) : \A from \in 0 .. dir[i].n : \A n \in 0 .. MaxBundle :
         \A q \in EntrySpan(dir[i], from, n) : Files(q) = {i}
=============================================================================
