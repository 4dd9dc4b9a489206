------------------------------ MODULE FreeExtent ------------------------------
(***************************************************************************)
(* The search for a new object's extent (find_free_extent in               *)
(* src/src/mutable_write.c) as the loop it is: the usable extents are      *)
(* visited in the order of their offsets, and a cursor runs ahead of them. *)
(* They are sorted in a table for which there may be no memory: the search *)
(* then returns as if it had found nothing.                                *)
(* MutableCommit takes the loop's result in one step, as FirstFit; this    *)
(* module shows that FirstFit is what the loop returns.                    *)
(***************************************************************************)
EXTENDS MutableRegion

CONSTANTS
  Directories,  \* directories the search is run on
  Requests,     \* capacities it is asked for
  NoOffset      \* what the search returns when nothing fits

ASSUME ScanAssumption ==
  /\ Directories \subseteq [Slots -> Entry]
  /\ Requests \subseteq Nat \ {0}
  /\ NoOffset \notin Nat

VARIABLES
  dir, cap,  \* the parsed directory and the capacity asked for
  pc,        \* "alloc", "scan", "check", "done"; "nomemory"
  left,      \* slots whose extents the loop has not passed yet
  cursor,    \* offset of the first byte that may be free
  found      \* the result

vars == <<dir, cap, pc, left, cursor, found>>

Init ==
  /\ dir \in Directories
  /\ cap \in Requests
  /\ pc = "alloc"
  /\ left = {}
  /\ cursor = 0
  /\ found = NoOffset

\* The table of the usable extents is filled and sorted.
Allocate ==
  /\ pc = "alloc"
  /\ pc' = "scan"
  /\ left' = Usable(dir)
  /\ UNCHANGED <<dir, cap, cursor, found>>

\* There is no memory for it, and the search returns what it returns when
\* nothing fits; the caller answers ROMX_E_MUTABLE_NO_SPACE.
AllocFails ==
  /\ pc = "alloc"
  /\ pc' = "nomemory"
  /\ UNCHANGED <<dir, cap, left, cursor, found>>

End(s) == dir[s].off + dir[s].cap

\* qsort by offset; what it does with equal offsets is not specified.
IsNext(s) == s \in left /\ \A t \in left : dir[s].off <= dir[t].off

\* Mutant: a gap of exactly the capacity is passed over.
GapWider(s) == dir[s].off >= cursor /\ cap < dir[s].off - cursor

Gap(s) == dir[s].off >= cursor /\ cap <= dir[s].off - cursor

\* Mutant: the cursor is not rounded up to the alignment of extents.
AdvanceUnaligned(s) == IF End(s) > cursor THEN End(s) ELSE cursor

Advance(s) == IF End(s) > cursor THEN Align64(End(s)) ELSE cursor

Pass(s) ==
  /\ pc = "scan"
  /\ IsNext(s)
  /\ ~Gap(s)
  /\ left' = left \ {s}
  /\ cursor' = Advance(s)
  /\ UNCHANGED <<dir, cap, pc, found>>

Stop(s) ==
  /\ pc = "scan"
  /\ IsNext(s)
  /\ Gap(s)
  /\ pc' = "check"
  /\ UNCHANGED <<dir, cap, left, cursor, found>>

Exhaust ==
  /\ pc = "scan"
  /\ left = {}
  /\ pc' = "check"
  /\ UNCHANGED <<dir, cap, left, cursor, found>>

\* Mutant: the last gap is taken to fit when the cursor is inside the area.
CheckCursor ==
  /\ pc = "check"
  /\ pc' = "done"
  /\ found' = IF cursor <= DataSize THEN cursor ELSE NoOffset
  /\ UNCHANGED <<dir, cap, left, cursor>>

Check ==
  /\ pc = "check"
  /\ pc' = "done"
  /\ found' = IF cursor <= DataSize /\ cap <= DataSize - cursor THEN cursor ELSE NoOffset
  /\ UNCHANGED <<dir, cap, left, cursor>>

Next ==
  \/ Allocate \/ AllocFails
  \/ \E s \in left : Pass(s) \/ Stop(s)
  \/ Exhaust \/ Check

Spec == Init /\ [][Next]_vars

-----------------------------------------------------------------------------
\* Every variable has its type; the loop has not invented slots.
TypeOK ==
  /\ dir \in [Slots -> Entry]
  /\ cap \in Nat \ {0}
  /\ pc \in {"alloc", "scan", "check", "done", "nomemory"}
  /\ left \in SUBSET Usable(dir)
  /\ cursor \in Nat
  /\ found \in Nat \cup {NoOffset}

\* The loop, once it runs, returns the lowest offset that is the start of the data
\* area or follows an extent, and leaves room for the capacity; none if none does.
ReturnsFirstFit ==
  pc = "done" =>
    found = IF FreeOffsets(dir, cap) = {} THEN NoOffset ELSE FirstFit(dir, cap)

Aligned == {n \in Nat : n % 64 = 0}

\* The search has returned, and its caller answers ROMX_E_MUTABLE_NO_SPACE.
Refused == pc \in {"done", "nomemory"} /\ found = NoOffset

\* ROMX_E_MUTABLE_NO_SPACE means that no aligned offset of the data area is clear
\* of every extent in use, or that there was no memory to look for one: nothing
\* in the directory, sorted in whatever order, makes the search miss a gap.
NoSpaceIsTrue ==
  Refused =>
    \/ pc = "nomemory"
    \/ \A off \in 0 .. DataSize : off \in Aligned => ~Room(dir, off, cap)

\* The inductive invariant: the extents passed end at or before the cursor, the
\* cursor stands at a candidate offset, and below it nothing fits.
Swept ==
  /\ TypeOK
  /\ cursor % 64 = 0
  /\ cursor \in {0} \cup {Align64(End(s)) : s \in Usable(dir)}
  /\ pc \in {"alloc", "nomemory"} => cursor = 0 /\ found = NoOffset
  /\ pc \in {"scan", "check", "done"} => \A s \in Usable(dir) \ left : End(s) <= cursor
  /\ \A off \in 0 .. DataSize : off % 64 = 0 /\ off < cursor => ~Room(dir, off, cap)
  /\ pc \in {"check", "done"} => \A s \in left : cursor + cap <= dir[s].off
  /\ pc = "done" =>
       found = IF cursor <= DataSize /\ cap <= DataSize - cursor THEN cursor ELSE NoOffset
=============================================================================
