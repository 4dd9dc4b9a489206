---------------------------- MODULE MutableRegion ----------------------------
(***************************************************************************)
(* The mutable region of a ROMX container as its parser sees it            *)
(* (src/src/mutable.c): a directory of slots and a data area.  Everything  *)
(* here is a constant operator over a directory `dir` (a function on       *)
(* Slots) and a data area `data` (a function on Cells); the modules that   *)
(* change the region extend this one.                                      *)
(*                                                                         *)
(* Offsets are relative to the start of the data area, a multiple of 4096  *)
(* in the file.  The data area is divided into cells of 64 bytes, the      *)
(* alignment of every extent.  A CRC32 is ideal: it is modelled by the     *)
(* content it was computed over, so two contents never collide.            *)
(***************************************************************************)
EXTENDS Integers, FiniteSets

CONSTANTS
  Keys,      \* the <<namespace, key>> pairs callers use, each in one spelling
  Objects,   \* what the spellings name: keys up to ASCII case
  Fold,      \* the object a key names
  Values,    \* contents
  Size,      \* length of a content in bytes
  NumSlots,  \* entry_capacity of the region's header
  DataSize,  \* bytes of the data area
  GenMax,    \* the largest generation (2^64 - 1 in the file)
  NoKey,     \* the key field of a slot that holds no readable entry
  NoVal      \* content that belongs to no value; "absent" as a read's result

ASSUME RegionAssumption ==
  /\ Fold \in [Keys -> Objects]
  /\ Size \in [Values -> Nat]
  /\ NumSlots \in Nat
  /\ DataSize \in Nat
  /\ GenMax \in Nat \ {0}
  /\ NoKey \notin Keys
  /\ NoVal \notin Values

Slots == 0 .. NumSlots - 1
Cells == {a \in 0 .. DataSize - 1 : a % 64 = 0}

-----------------------------------------------------------------------------
(***************************************************************************)
(* Directory entries.  `val` stands for data_size and data_crc32, which    *)
(* are computed from the content.  A slot of zeroes is Free; one whose     *)
(* bytes fail the entry's own checks is Torn.                              *)
(***************************************************************************)
EntryStates == {"writing", "active", "deleting"}

Entry == [state : EntryStates \cup {"free", "torn"},
          key   : Keys \cup {NoKey},
          off   : Nat,
          cap   : Nat,
          val   : Values \cup {NoVal},
          gen   : 0 .. GenMax]

Blank(state) == [state |-> state, key |-> NoKey, off |-> 0, cap |-> 0,
                 val |-> NoVal, gen |-> 0]
Free == Blank("free")
Torn == Blank("torn")

\* The checks every non-zero entry goes through while the slots are read:
\* its extent lies in the data area and its content in its extent ...
Fits(e) ==
  /\ e.key \in Keys
  /\ e.off % 64 = 0
  /\ e.cap > 0
  /\ e.off + e.cap <= DataSize
  /\ e.val \in Values
  /\ Size[e.val] <= e.cap

\* ... and its state and generation are ones an entry may have.
WellFormed(e) == e.state \in EntryStates /\ e.gen > 0 /\ Fits(e)

Overlap(e, f) ==
  /\ e.off < f.off + f.cap
  /\ f.off < e.off + e.cap

Conflict(e, f) == Fold[e.key] = Fold[f.key] \/ Overlap(e, f)

(***************************************************************************)
(* The pairwise pass over the slots in index order.  A slot reaches its    *)
(* own turn usable when no earlier slot that was usable at its turn        *)
(* conflicts with it; at its turn it is lost with every later slot it      *)
(* conflicts with that no earlier turn has marked yet.                     *)
(***************************************************************************)
Unmarked(dir, turns, bound, s) ==
  /\ WellFormed(dir[s])
  /\ \A t \in turns : t < bound => ~Conflict(dir[t], dir[s])

ReachTurn(dir) ==
  CHOOSE turns \in SUBSET {s \in Slots : WellFormed(dir[s])} :
    \A s \in Slots : s \in turns <=> Unmarked(dir, turns, s, s)

Kept(dir) ==
  LET turns == ReachTurn(dir)
  IN  {s \in Slots :
         /\ Unmarked(dir, turns, s, s)
         /\ \A t \in Slots :
              t > s /\ Unmarked(dir, turns, s, t) => ~Conflict(dir[s], dir[t])}

\* Where nothing conflicts, the pass takes nothing away.
Usable(dir) ==
  LET sound == {s \in Slots : WellFormed(dir[s])}
  IN  IF \E s, t \in sound : s < t /\ Conflict(dir[s], dir[t]) THEN Kept(dir) ELSE sound

Degraded(dir) ==
  \/ \E s \in Slots : dir[s] # Free /\ ~WellFormed(dir[s])
  \/ \E s, t \in Slots :
       /\ s # t
       /\ WellFormed(dir[s])
       /\ WellFormed(dir[t])
       /\ Conflict(dir[s], dir[t])

-----------------------------------------------------------------------------
(***************************************************************************)
(* What a reader opened on the region returns.                             *)
(***************************************************************************)
CellOf(v, p) == [val |-> v, pos |-> p]
Junk == CellOf(NoVal, 0)

\* The cells an entry's content occupies hold that content.
Intact(data, e) ==
  \A p \in 0 .. Size[e.val] - 1 :
    p % 64 = 0 => data[e.off + p] = CellOf(e.val, p)

\* The slots a lookup by key stops at.
Holding(dir, obj) ==
  {s \in Slots : dir[s].state = "active" /\ Fold[dir[s].key] = obj /\ s \in Usable(dir)}

\* The content a lookup returns for an object, NoVal when it returns none.
Visible(dir, data, obj) ==
  LET readable == {s \in Holding(dir, obj) : Intact(data, dir[s])}
  IN  IF readable = {} THEN NoVal ELSE dir[CHOOSE s \in readable : TRUE].val

-----------------------------------------------------------------------------
(***************************************************************************)
(* Allocation of an extent (src/src/mutable_write.c).                      *)
(***************************************************************************)
Align64(n) == ((n + 63) \div 64) * 64

\* Mutant: the scan looks at the end of the data area only.
RoomAnywhere(dir, off, cap) == off + cap <= DataSize

Room(dir, off, cap) ==
  /\ off + cap <= DataSize
  /\ \A s \in Usable(dir) :
       off >= dir[s].off + dir[s].cap \/ dir[s].off >= off + cap

\* The offsets where the scan of find_free_extent can stop.
FreeOffsets(dir, cap) ==
  {off \in {0} \cup {Align64(dir[s].off + dir[s].cap) : s \in Usable(dir)} :
     Room(dir, off, cap)}

FirstFit(dir, cap) ==
  CHOOSE off \in FreeOffsets(dir, cap) :
    \A other \in FreeOffsets(dir, cap) : off <= other
=============================================================================
