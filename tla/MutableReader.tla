---------------------------- MODULE MutableReader ----------------------------
(***************************************************************************)
(* A reader beside the writers (src/src/mutable.c): it takes no lock, reads *)
(* the directory slot by slot when the container is opened, keeps what it  *)
(* read, and looks objects up in that copy for as long as it is open.      *)
(***************************************************************************)
EXTENDS MutableCommit

CONSTANTS
  ReaderProcess,  \* the process that opens the container by its path
  MaxCalls        \* bound: the calls that begin while the reader is open

ASSUME ReaderAssumption ==
  /\ ReaderProcess \in Processes
  /\ MaxCalls \in Nat

VARIABLES
  rpc,     \* what the reader does: "closed", "scan", "ready", "validate",
           \*   "absent", "read", "delivered"
  view,    \* the slots it has read
  next,    \* the slot it reads next
  target,  \* the object it looks up, NoKey between lookups
  rslot,   \* the slot the lookup found
  rpos,    \* bytes checked or delivered
  exact,   \* whether they are the content the entry's CRC32 was computed over
  seen,    \* history: the results the calls allowed at some moment since it opened
  calls    \* history: the calls begun since it opened

reader == <<rpc, view, next, target, rslot, rpos, exact>>
session == <<seen, calls>>
rvars  == <<vars, reader, session>>

\* A call on o is putting its first entry: the slot may be read half written.
Touched(o) == \E w \in Writers : pc[w] \in {"putWriting", "putDeleting"} /\ Target(w) = o

\* What the calls so far allow a lookup of o to return.
AllowedNow(o) == allowed[o] \cup {x \in {NoVal} : LeftOver(o) \/ Touched(o)}

Closed ==
  /\ rpc' = "closed"
  /\ view' = [s \in Slots |-> Free]
  /\ next' = 0
  /\ target' = NoKey
  /\ rslot' = 0
  /\ rpos' = 0
  /\ exact' = TRUE

ReaderInit ==
  /\ rpc = "closed"
  /\ view = [s \in Slots |-> Free]
  /\ next = 0
  /\ target = NoKey
  /\ rslot = 0
  /\ rpos = 0
  /\ exact = TRUE
  /\ seen = [o \in Objects |-> {}]
  /\ calls = 0

-----------------------------------------------------------------------------
(***************************************************************************)
(* Reads that race a write may return bytes of both.                       *)
(***************************************************************************)
SlotBeingWritten(s) ==
  \E w \in Writers :
    /\ pc[w] \in {"putWriting", "putActive", "putDeleting", "clear"}
    /\ slot[w] = s

CellBeingWritten(a) ==
  \E w \in Writers :
    /\ pc[w] = "copy"
    /\ pos[w] < Size[ent[w].val]
    /\ ent[w].off + pos[w] = a

SlotReads(s) == {dir[s]} \cup {x \in {Torn} : SlotBeingWritten(s)}
CellReads(a) == {data[a]} \cup {x \in {Junk} : CellBeingWritten(a)}

-----------------------------------------------------------------------------
(***************************************************************************)
(* romx_reader_create, as far as romx_parse_mutable goes.                  *)
(***************************************************************************)
Open ==
  /\ rpc = "closed"
  /\ rpc' = "scan"
  /\ seen' = [o \in Objects |-> AllowedNow(o)]
  /\ UNCHANGED <<vars, view, next, target, rslot, rpos, exact, calls>>

ScanSlot ==
  /\ rpc = "scan"
  /\ \E e \in SlotReads(next) : view' = [view EXCEPT ![next] = e]
  /\ next' = next + 1
  /\ rpc' = IF next + 1 = NumSlots THEN "ready" ELSE "scan"
  /\ UNCHANGED <<vars, target, rslot, rpos, exact, session>>

\* Mutant: a region that is not wholly valid is not looked into.
FindInValid(o) ==
  /\ rpc = "ready"
  /\ target' = o
  /\ IF Holding(view, o) = {} \/ Degraded(view)
     THEN rpc' = "absent" /\ rslot' = rslot
     ELSE rpc' = "validate" /\ rslot' \in Holding(view, o)
  /\ UNCHANGED <<vars, view, next, rpos, exact, session>>

(***************************************************************************)
(* romx_reader_find_mutable_object, then a cursor over what it found.      *)
(***************************************************************************)
Find(o) ==
  /\ rpc = "ready"
  /\ target' = o
  /\ IF Holding(view, o) = {}
     THEN rpc' = "absent" /\ rslot' = rslot
     ELSE rpc' = "validate" /\ rslot' \in Holding(view, o)
  /\ UNCHANGED <<vars, view, next, rpos, exact, session>>

Wanted == view[rslot]

\* One chunk of validate_slot_data, or of romx_mutable_file_read.
ReadCell ==
  /\ rpc \in {"validate", "read"}
  /\ rpos < Size[Wanted.val]
  /\ \E c \in CellReads(Wanted.off + rpos) : exact' = (exact /\ c = CellOf(Wanted.val, rpos))
  /\ rpos' = rpos + 64
  /\ UNCHANGED <<vars, rpc, view, next, target, rslot, session>>

\* A lookup ends with an error unless the bytes are the entry's; a cursor is
\* opened on what it found and checks nothing again.
Validated ==
  /\ rpc = "validate"
  /\ rpos >= Size[Wanted.val]
  /\ rpc' = IF exact THEN "read" ELSE "absent"
  /\ rpos' = 0
  /\ exact' = TRUE
  /\ UNCHANGED <<vars, view, next, target, rslot, session>>

Delivered ==
  /\ rpc = "read"
  /\ rpos >= Size[Wanted.val]
  /\ rpc' = "delivered"
  /\ UNCHANGED <<vars, view, next, target, rslot, rpos, exact, session>>

\* The reader goes on with the slots it has, or closes.
LookAgain ==
  /\ rpc \in {"absent", "read", "delivered"}
  /\ rpc' = "ready"
  /\ target' = NoKey
  /\ rslot' = 0
  /\ rpos' = 0
  /\ exact' = TRUE
  /\ UNCHANGED <<vars, view, next, session>>

\* Closing the reader's descriptor drops every lock its process has on the file,
\* that of a writer in the middle of its call included.
Close ==
  /\ rpc # "closed"
  /\ Closed
  /\ seen' = [o \in Objects |-> {}]
  /\ calls' = 0
  /\ lock' = IF lock = ReaderProcess THEN NoProcess ELSE lock
  /\ UNCHANGED <<region, disk, pc, locals, allowed>>

ReaderStep == Open \/ ScanSlot \/ (\E o \in Objects : Find(o)) \/ ReadCell \/ Validated
                \/ Delivered \/ LookAgain \/ Close

(***************************************************************************)
(* The writers meanwhile.  A power loss or a kill of the reader's process  *)
(* ends the reader as well and a write-back is invisible to it, so none of *)
(* the three is part of this module.                                       *)
(***************************************************************************)
WriterStep ==
  /\ \/ /\ \E w \in Writers : Begin(w)
        /\ rpc # "closed" => calls < MaxCalls
        /\ calls' = IF rpc = "closed" THEN 0 ELSE calls + 1
     \/ /\ \/ \E w \in Writers : Step(w) \/ OpenFails(w)
           \/ \E p \in Processes \ {ReaderProcess} : Kill(p)
        /\ UNCHANGED calls
  /\ UNCHANGED reader
  /\ seen' = [o \in Objects |-> IF rpc = "closed" THEN {} ELSE seen[o] \cup AllowedNow(o)']

ReaderNext == ReaderStep \/ WriterStep

ReaderSpec == Init /\ ReaderInit /\ [][ReaderNext]_rvars

\* No writer shares the reader's process, whose lock the reader would drop.
ReaderApart == \A w \in Writers : ProcessOf[w] # ReaderProcess

-----------------------------------------------------------------------------
Result == IF rpc = "absent" THEN NoVal ELSE Wanted.val

\* A lookup is regular although it takes no lock: it returns what some call
\* since the reader opened allowed, the old content, the new one, or none while
\* the object changes.  An object no call touches is always found, whatever
\* calls on other objects do to the slots and extents around it.
RegularLookup ==
  rpc \in {"absent", "read", "delivered"} => Result \in seen[target]

\* A cursor delivers other bytes than the ones that were checked only if a call
\* changed its object since the reader opened.
CursorExactUnlessChanged ==
  rpc = "delivered" /\ ~exact => seen[target] # {Wanted.val}
=============================================================================
