--------------------------- MODULE FreeExtentProofs ---------------------------
(***************************************************************************)
(* The loop of find_free_extent is right for every directory and capacity. *)
(***************************************************************************)
EXTENDS FreeExtent, TLAPS

\* Rounding up to the alignment skips no aligned offset.
LEMMA AlignUp ==
  ASSUME NEW n \in Nat
  PROVE  /\ Align64(n) \in Nat
         /\ Align64(n) % 64 = 0
         /\ n <= Align64(n)
         /\ \A off \in Nat : off % 64 = 0 /\ off < Align64(n) => off < n
  BY DEF Align64

\* Only well-formed slots are in use.
LEMMA UsableInSlots == Usable(dir) \subseteq {s \in Slots : WellFormed(dir[s])}
<1>1. Kept(dir) \subseteq {s \in Slots : WellFormed(dir[s])}
  BY DEF Kept, Unmarked
<1> QED BY <1>1 DEF Usable

\* The fields of an extent in use.
LEMMA InUse ==
  ASSUME TypeOK, NEW s \in Usable(dir)
  PROVE  /\ s \in Slots
         /\ dir[s].off \in Nat
         /\ dir[s].cap \in Nat
         /\ dir[s].cap > 0
         /\ End(s) \in Nat
<1>1. s \in Slots /\ WellFormed(dir[s])
  BY UsableInSlots
<1>2. dir[s] \in Entry
  BY <1>1 DEF TypeOK
<1>3. dir[s].off \in Nat /\ dir[s].cap \in Nat
  BY <1>2 DEF Entry
<1> QED BY <1>1, <1>3 DEF WellFormed, Fits, End

LEMMA InitSwept == Init => Swept
<1> SUFFICES ASSUME Init PROVE Swept
  OBVIOUS
<1>1. TypeOK
  BY ScanAssumption DEF Init, TypeOK
<1> QED BY <1>1, RegionAssumption DEF Init, Swept

LEMMA PassSwept ==
  ASSUME Swept, NEW s \in left, Pass(s)
  PROVE  Swept'
<1>1. TypeOK /\ s \in Usable(dir) /\ UNCHANGED <<dir, cap, pc, found>> /\ pc = "scan"
  BY DEF Swept, TypeOK, Pass
<1>2. /\ dir[s].off \in Nat /\ dir[s].cap \in Nat /\ dir[s].cap > 0 /\ End(s) \in Nat
      /\ cursor \in Nat /\ cap \in Nat /\ cap > 0 /\ cap' = cap
  BY <1>1, InUse DEF TypeOK
<1>3. /\ cursor' \in Nat /\ cursor <= cursor' /\ End(s) <= cursor' /\ cursor' % 64 = 0
      /\ cursor' \in {cursor, Align64(End(s))}
  BY <1>2, AlignUp DEF Pass, Advance, Swept
<1>4. TypeOK'
  BY <1>1, <1>3 DEF TypeOK, Pass
<1>5. \A t \in Slots : End(t)' = End(t)
  BY <1>1 DEF End
<1>6. ASSUME NEW t \in Usable(dir) \ left' PROVE End(t) <= cursor'
  <2>1. CASE t = s
    BY <1>3, <2>1
  <2>2. CASE t # s
    <3>1. End(t) <= cursor /\ End(t) \in Nat
      BY <1>1, <1>6, <2>2, InUse DEF Swept, Pass
    <3> QED BY <1>2, <1>3, <3>1
  <2> QED BY <2>1, <2>2
<1>7. ASSUME NEW off \in 0 .. DataSize, off % 64 = 0, off < cursor' PROVE ~Room(dir, off, cap)
  <2>1. off \in Nat
    BY RegionAssumption
  <2>2. CASE off < cursor
    BY <1>7, <2>2 DEF Swept
  <2>3. CASE ~(off < cursor)
    <3>1. off < End(s)
      BY <1>2, <1>3, <1>7, <2>1, <2>3, AlignUp
    <3>2. dir[s].off < off + cap
      BY <1>2, <2>1, <2>3 DEF Pass, Gap
    <3>3. ~(off >= dir[s].off + dir[s].cap) /\ ~(dir[s].off >= off + cap)
      BY <1>2, <2>1, <3>1, <3>2 DEF End
    <3> QED BY <1>1, <3>3 DEF Room
  <2> QED BY <2>2, <2>3
<1>8. cursor' \in {0} \cup {Align64(End(t)) : t \in Usable(dir)}
  BY <1>1, <1>3 DEF Swept
<1>9. \A t \in Usable(dir) : t \in Slots
  BY UsableInSlots
<1>10. {0} \cup {Align64(End(t)') : t \in Usable(dir)} = {0} \cup {Align64(End(t)) : t \in Usable(dir)}
  BY <1>5, <1>9
<1> QED BY <1>1, <1>2, <1>3, <1>4, <1>5, <1>6, <1>7, <1>8, <1>9, <1>10 DEF Swept

LEMMA SweptInductive == Swept /\ [Next]_vars => Swept'
<1> SUFFICES ASSUME Swept, [Next]_vars PROVE Swept'
  OBVIOUS
<1>1. CASE \E s \in left : Pass(s)
  BY <1>1, PassSwept
<1>2. ASSUME NEW s \in left, Stop(s) PROVE Swept'
  <2>1. /\ UNCHANGED <<dir, cap, left, cursor, found>> /\ pc = "scan" /\ pc' = "check" /\ TypeOK
        /\ s \in Usable(dir) /\ cursor \in Nat /\ cap \in Nat
    BY <1>2 DEF Stop, Swept, TypeOK
  <2>2. ASSUME NEW t \in left PROVE cursor + cap <= dir[t].off
    <3>1. dir[t].off \in Nat /\ dir[s].off \in Nat
      BY <2>1, InUse DEF TypeOK
    <3> QED BY <1>2, <2>1, <3>1 DEF Stop, IsNext, Gap
  <2> QED BY <2>1, <2>2 DEF Swept, TypeOK, End
<1>3. CASE Exhaust
  BY <1>3 DEF Exhaust, Swept, TypeOK, End
<1>4. CASE Check
  BY <1>4 DEF Check, Swept, TypeOK, End
<1>5. CASE Allocate
  <2>1. /\ UNCHANGED <<dir, cap, cursor, found>> /\ pc' = "scan" /\ left' = Usable(dir) /\ cursor = 0
        /\ TypeOK
    BY <1>5 DEF Allocate, Swept
  <2>2. TypeOK'
    BY <2>1 DEF TypeOK
  <2> QED BY <2>1, <2>2 DEF Swept, End
<1>6. CASE AllocFails
  BY <1>6 DEF AllocFails, Swept, TypeOK, End
<1>7. CASE UNCHANGED vars
  BY <1>7 DEF vars, Swept, TypeOK, End
<1> QED BY <1>1, <1>2, <1>3, <1>4, <1>5, <1>6, <1>7 DEF Next

\* Where the cursor stops there is room, if the data area does not end first.
LEMMA CursorFits ==
  ASSUME Swept, pc = "done", cursor <= DataSize, cap <= DataSize - cursor
  PROVE  cursor \in FreeOffsets(dir, cap)
<1>1. TypeOK /\ cursor \in Nat /\ cap \in Nat
  BY DEF Swept, TypeOK
<1>2. ASSUME NEW s \in Usable(dir)
      PROVE  cursor >= dir[s].off + dir[s].cap \/ dir[s].off >= cursor + cap
  <2>1. dir[s].off \in Nat /\ End(s) \in Nat
    BY <1>1, InUse
  <2> QED BY <1>1, <2>1 DEF Swept, End
<1> QED BY <1>1, <1>2, RegionAssumption DEF Swept, Room, FreeOffsets, End

LEMMA FreeOffsetsAligned ==
  ASSUME TypeOK, NEW off \in FreeOffsets(dir, cap)
  PROVE  off \in 0 .. DataSize /\ off % 64 = 0 /\ Room(dir, off, cap) /\ off + cap <= DataSize
<1>1. off \in Nat /\ off % 64 = 0
  BY InUse, AlignUp DEF FreeOffsets, End
<1> QED BY <1>1, RegionAssumption DEF FreeOffsets, Room, TypeOK

LEMMA SweptReturns == Swept => ReturnsFirstFit
<1> SUFFICES ASSUME Swept, pc = "done"
             PROVE  found = IF FreeOffsets(dir, cap) = {} THEN NoOffset ELSE FirstFit(dir, cap)
  BY DEF ReturnsFirstFit
<1>1. TypeOK /\ cursor \in Nat /\ cap \in Nat
  BY DEF Swept, TypeOK
<1>2. ASSUME NEW off \in FreeOffsets(dir, cap) PROVE off \in Nat /\ cursor <= off
  <2>1. off \in 0 .. DataSize /\ off % 64 = 0 /\ Room(dir, off, cap)
    BY <1>1, FreeOffsetsAligned
  <2> QED BY <1>1, <2>1, RegionAssumption DEF Swept
<1>3. CASE cursor <= DataSize /\ cap <= DataSize - cursor
  <2>1. cursor \in FreeOffsets(dir, cap)
    BY <1>3, CursorFits
  <2>2. FirstFit(dir, cap) = cursor
    <3>1. \E x \in FreeOffsets(dir, cap) : \A other \in FreeOffsets(dir, cap) : x <= other
      BY <1>2, <2>1
    <3>2. /\ FirstFit(dir, cap) \in FreeOffsets(dir, cap)
          /\ \A other \in FreeOffsets(dir, cap) : FirstFit(dir, cap) <= other
      BY <3>1, Zenon DEF FirstFit
    <3>3. FirstFit(dir, cap) <= cursor
      BY <2>1, <3>2
    <3>4. FirstFit(dir, cap) \in Nat /\ cursor <= FirstFit(dir, cap)
      BY <1>2, <3>2
    <3> QED BY <1>1, <3>3, <3>4
  <2> QED BY <1>3, <2>1, <2>2 DEF Swept
<1>4. CASE ~(cursor <= DataSize /\ cap <= DataSize - cursor)
  <2>1. FreeOffsets(dir, cap) = {}
    <3> SUFFICES ASSUME NEW off \in FreeOffsets(dir, cap) PROVE FALSE
      OBVIOUS
    <3>1. off \in Nat /\ cursor <= off /\ off + cap <= DataSize
      BY <1>1, <1>2, FreeOffsetsAligned
    <3> QED BY <1>1, <1>4, <3>1, RegionAssumption
  <2> QED BY <1>4, <2>1 DEF Swept
<1> QED BY <1>3, <1>4

LEMMA SweptNoSpace == Swept => NoSpaceIsTrue
<1> SUFFICES ASSUME Swept, pc = "done", found = NoOffset,
                    NEW off \in 0 .. DataSize, off \in Aligned
             PROVE  ~Room(dir, off, cap)
  BY DEF NoSpaceIsTrue, Refused
<1>1. cursor \in Nat /\ cap \in Nat /\ off \in Nat /\ off % 64 = 0 /\ DataSize \in Nat
  BY RegionAssumption DEF Swept, TypeOK, Aligned
<1>2. ~(cursor <= DataSize /\ cap <= DataSize - cursor)
  BY <1>1, ScanAssumption DEF Swept
<1>3. CASE off < cursor
  BY <1>1, <1>3 DEF Swept
<1>4. CASE ~(off < cursor)
  BY <1>1, <1>2, <1>4 DEF Room
<1> QED BY <1>3, <1>4

-----------------------------------------------------------------------------
\* The loop computes FirstFit, the operator by which MutableCommit allocates.
THEOREM ScanReturnsFirstFit == Spec => []ReturnsFirstFit
  BY InitSwept, SweptInductive, SweptReturns, PTL DEF Spec

\* The search finds nothing only when no aligned offset fits, or when there was no
\* memory to search, for every directory the parser may return and every capacity.
THEOREM RefusalMeansNoSpace == Spec => []NoSpaceIsTrue
  BY InitSwept, SweptInductive, SweptNoSpace, PTL DEF Spec

\* The invariant behind them: what the cursor has passed is not free
\* (src/src/mutable_write.c:265-291).
THEOREM ScanSweeps == Spec => []Swept
  BY InitSwept, SweptInductive, PTL DEF Spec
=============================================================================
