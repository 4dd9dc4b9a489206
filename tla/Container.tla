------------------------------ MODULE Container ------------------------------
(***************************************************************************)
(* The writer of containers, romx_writer_write_io_entries                  *)
(* (src/src/writer.c), up to the moment its file is complete, and the      *)
(* reader of ContainerReader on what it wrote or on a foreign file.  The   *)
(* writer appends to its file and keeps an offset beside it; index and     *)
(* footer are made from the offset, the bytes lie where they were          *)
(* appended.  Each byte is tagged with what it belongs to.                 *)
(***************************************************************************)
EXTENDS ContainerReader, Sequences

CONSTANTS
  Jobs,      \* what callers ask the writer for
  Unwritten  \* no file yet

Job == [sizes : Seq(Words), start : Nat \ {0}, metadata : Words, cover : Words, capacity : Words, slots : Words]

\* What a file of the writer's holds.
File == [payload : Words, metadata : Words, cover : Words, capacity : Words, slots : Words,
         count : Nat, entries : Seq(Entry), zeros : SUBSET Words]

ASSUME JobAssumption == Jobs \subseteq Job /\ Foreign \notin File

VARIABLES
  wstep,         \* the writer's next step
  job,           \* its arguments
  placed,        \* entries streamed, in the order of streaming
  at,            \* per entry, the offset noted for the index
  offset,        \* the writer's own account of its position
  payload_size,  \* what it was when the last entry was streamed
  bytes,         \* what has been written
  hashed         \* what went into the immutable SHA-256

output == <<placed, at, offset, payload_size, bytes, hashed>>
writer == <<wstep, job, output>>
vars == <<reader, writer>>

NoJob == "none"

Init ==
  /\ \/ ForeignInit /\ wstep = "none"
     \/ disk = Unwritten /\ size = 0 /\ step = "none" /\ Fresh /\ wstep = "start"
  /\ job = NoJob
  /\ placed = <<>>
  /\ at = <<>>
  /\ offset = 0
  /\ payload_size = 0
  /\ bytes = <<>>
  /\ hashed = <<>>

-----------------------------------------------------------------------------
\* Room for the header, the directory and some data.
SettingsOk(j) ==
  j.capacity # 0 =>
    /\ j.slots >= SlotUnit /\ j.slots % SlotUnit = 0
    /\ j.capacity >= MutableMin /\ j.capacity % Align = 0
    /\ DataAt(j.slots) < j.capacity /\ DataAt(j.slots) % Align = 0

\* load_settings and the loop over the entries: sizes are asked for once.
Start(j) ==
  /\ wstep = "start"
  /\ j.sizes # <<>> /\ SettingsOk(j)
  /\ j.start \in DOMAIN j.sizes /\ j.sizes[j.start] # 0
  /\ wstep' = "payload"
  /\ job' = j
  /\ at' = [i \in DOMAIN j.sizes |-> 0]
  /\ UNCHANGED <<reader, placed, offset, payload_size, bytes, hashed>>

Tags(what, i, n) == [k \in 1 .. n |-> <<what, i, k>>]
Zeroes(n) == [k \in 1 .. n |-> <<"zero">>]

\* write_all: no file has 2^64 bytes.
Write(tags) ==
  /\ Len(bytes) + Len(tags) < Modulus
  /\ bytes' = bytes \o tags

\* write_immutable
WriteImmutable(tags) == Write(tags) /\ hashed' = hashed \o tags

\* Mutant: entries are streamed in the order of the index.
NextIndex == Len(placed) + 1

\* The entrypoint comes first, the others keep their order.
NextEntry ==
  LET index == Len(placed) IN
  IF index = 0 THEN job.start ELSE IF index < job.start THEN index ELSE index + 1

StreamEntry ==
  /\ wstep = "payload"
  /\ Len(placed) < Len(job.sizes)
  /\ LET current == NextEntry IN
     /\ at' = [at EXCEPT ![current] = offset]
     /\ WriteImmutable(Tags("entry", current, job.sizes[current]))
     /\ job.sizes[current] <= Modulus - 1 - offset
     /\ offset' = Add(offset, job.sizes[current])
     /\ placed' = Append(placed, current)
  /\ UNCHANGED <<reader, wstep, job, payload_size>>

WriteIndex ==
  /\ wstep = "payload"
  /\ Len(placed) = Len(job.sizes)
  /\ payload_size' = offset
  /\ WriteImmutable(Tags("index", 0, IndexHeader + Len(job.sizes) * IndexEntry))
  /\ offset' = Add(offset, IndexHeader + Len(job.sizes) * IndexEntry)
  /\ wstep' = "metadata"
  /\ UNCHANGED <<reader, job, placed, at>>

WriteMetadata ==
  /\ wstep = "metadata"
  /\ WriteImmutable(Tags("metadata", 0, job.metadata))
  /\ offset' = Add(offset, job.metadata)
  /\ wstep' = "cover"
  /\ UNCHANGED <<reader, job, placed, at, payload_size>>

WriteCover ==
  /\ wstep = "cover"
  /\ WriteImmutable(Tags("cover", 0, job.cover))
  /\ offset' = Add(offset, job.cover)
  /\ wstep' = IF job.capacity = 0 THEN "footer" ELSE "padding"
  /\ UNCHANGED <<reader, job, placed, at, payload_size>>

\* Mutant: the padding does not count as immutable.
WritePaddingUnhashed ==
  /\ wstep = "padding"
  /\ Write(Zeroes(Sub(AlignUp(offset), offset)))
  /\ offset' = AlignUp(offset)
  /\ wstep' = "mutable"
  /\ UNCHANGED <<reader, job, placed, at, payload_size, hashed>>

WritePadding ==
  /\ wstep = "padding"
  /\ WriteImmutable(Zeroes(Sub(AlignUp(offset), offset)))
  /\ offset' = AlignUp(offset)
  /\ wstep' = "mutable"
  /\ UNCHANGED <<reader, job, placed, at, payload_size>>

\* The header, and zeroes for directory and data.
WriteMutable ==
  /\ wstep = "mutable"
  /\ Write(Tags("header", 0, Align) \o Zeroes(job.capacity - Align))
  /\ offset' = Add(offset, job.capacity)
  /\ wstep' = "footer"
  /\ UNCHANGED <<reader, job, placed, at, payload_size, hashed>>

\* The file is complete: a reader may open it.
WriteFooter ==
  /\ wstep = "footer"
  /\ Write(Tags("footer", 0, FooterSize))
  /\ size' = Add(offset, FooterSize)
  /\ disk' = [payload |-> payload_size, metadata |-> job.metadata, cover |-> job.cover,
              capacity |-> job.capacity, slots |-> job.slots, count |-> Len(job.sizes),
              entries |-> [i \in DOMAIN at |-> [at |-> at[i], n |-> job.sizes[i], start |-> i = job.start]],
              zeros |-> {x \in Words : x < Len(bytes) /\ bytes[x + 1] = <<"zero">>}]
  /\ step' = "footer"
  /\ wstep' = "done"
  /\ UNCHANGED <<parsed, job, placed, at, offset, payload_size, hashed>>

\* An input that ended early, a write that failed, no room.
Abandon ==
  /\ wstep \notin {"none", "start", "done", "abandoned"}
  /\ wstep' = "abandoned"
  /\ UNCHANGED <<reader, job, output>>

WriterNext ==
  \/ \E j \in Jobs : Start(j)
  \/ StreamEntry \/ WriteIndex \/ WriteMetadata \/ WriteCover \/ WritePadding
  \/ WriteMutable \/ WriteFooter \/ Abandon

Next == WriterNext \/ (ReaderNext /\ UNCHANGED writer)

Spec == Init /\ [][Next]_vars

-----------------------------------------------------------------------------
\* The bytes of a region as they lie in the file.
Content(r) == SubSeq(bytes, r.at + 1, r.at + r.n)

\* What the writer wrote is accepted, and every region and entry is found to hold
\* what the caller gave for it, in the index order the caller chose.
RoundTrip ==
  wstep = "done" =>
    /\ step # "refused"
    /\ size = Len(bytes)
    /\ step = "ready" =>
         /\ count = Len(job.sizes)
         /\ \A i \in 1 .. count : Content(EntryRegion(i)) = Tags("entry", i, job.sizes[i])
         /\ {i \in 1 .. count : entries[i].start} = {job.start}
         /\ Content(MetadataRegion) = Tags("metadata", 0, job.metadata)
         /\ Content(CoverRegion) = Tags("cover", 0, job.cover)
         /\ job.capacity # 0 => /\ slots = job.slots
                                /\ Content(Region(MutableAt, Align)) = Tags("header", 0, Align)

\* The SHA-256 that the writer stores is over exactly the bytes that a reader
\* takes to be the immutable content, padding included and mutable region not.
HashCoversImmutable == wstep = "done" /\ step = "ready" => hashed = Content(ImmutableRegion)
=============================================================================
