------------------------- MODULE MutableCommitProofs -------------------------
(***************************************************************************)
(* Theorems about MutableCommit and MutableReader, for every number of     *)
(* slots and writers, every size of the data area and every set of keys    *)
(* and contents: what holds of the region at every step of a call, what    *)
(* readers are given, and that the commit protocol implements MutableStore.*)
(***************************************************************************)
EXTENDS MutableReader, WellFoundedInduction, TLAPS

Less == {p \in Nat \X Nat : p[1] < p[2]}

LEMMA LessWellFounded == IsWellFoundedOn(Less, Nat)
  BY NatLessThanWellFounded, Zenon DEF OpToRel, Less

\* A set of natural numbers that is not empty has a least element.
LEMMA LeastNatural ==
  ASSUME NEW S \in SUBSET Nat, S # {}
  PROVE  \E x \in S : \A y \in S : x <= y
<1>1. PICK x \in S : \A y \in S : <<y, x>> \notin Less
  BY LessWellFounded, WFMin, Zenon
<1>2. ASSUME NEW y \in S PROVE x <= y
  <2>1. <<y, x>> \in Nat \X Nat
    OBVIOUS
  <2>2. ~(y < x)
    BY <1>1, <2>1 DEF Less
  <2> QED BY <2>2
<1> QED BY <1>2

-----------------------------------------------------------------------------
\* When the scan of the directory marks nothing, every non-zero slot is usable.
LEMMA UsableWhenValid ==
  ASSUME NEW d \in [Slots -> Entry], ~Degraded(d)
  PROVE  /\ Usable(d) = {s \in Slots : WellFormed(d[s])}
         /\ \A s \in Slots : d[s] = Free \/ WellFormed(d[s])
<1>1. \A s, t \in {x \in Slots : WellFormed(d[x])} : s < t => ~Conflict(d[s], d[t])
  BY DEF Degraded, Slots
<1>2. \A s \in Slots : d[s] = Free \/ WellFormed(d[s])
  BY DEF Degraded
<1> QED BY <1>1, <1>2 DEF Usable

\* A usable slot is a well-formed one.
LEMMA UsableWellFormed ==
  ASSUME NEW d, NEW s \in Usable(d)
  PROVE  s \in Slots /\ WellFormed(d[s])
<1>1. Kept(d) \subseteq {t \in Slots : WellFormed(d[t])}
  BY DEF Kept, Unmarked
<1> QED BY <1>1 DEF Usable

\* The extent the scan stops at lies in the data area, clear of every extent in use.
LEMMA FirstFitRoom ==
  ASSUME NEW d \in [Slots -> Entry], NEW cap \in Nat, FreeOffsets(d, cap) # {}
  PROVE  /\ FirstFit(d, cap) \in Nat
         /\ FirstFit(d, cap) % 64 = 0
         /\ Room(d, FirstFit(d, cap), cap)
<1>1. \A n \in Nat : Align64(n) \in Nat /\ Align64(n) % 64 = 0
  BY DEF Align64
<1>2. \A s \in Usable(d) : d[s].off + d[s].cap \in Nat
  BY UsableWellFormed DEF Entry
<1>3. \A off \in FreeOffsets(d, cap) : off \in Nat /\ off % 64 = 0 /\ Room(d, off, cap)
  BY <1>1, <1>2 DEF FreeOffsets
<1>4. \E off \in FreeOffsets(d, cap) : \A other \in FreeOffsets(d, cap) : off <= other
  BY <1>3, LeastNatural
<1>5. FirstFit(d, cap) \in FreeOffsets(d, cap)
  BY <1>4 DEF FirstFit
<1> QED BY <1>3, <1>5

\* The first zeroed slot is a slot, and zeroed.
LEMMA FirstFreeIsFree ==
  ASSUME FreeSlots # {}
  PROVE  FirstFree \in Slots /\ dir[FirstFree] = Free
<1>1. FreeSlots \in SUBSET Nat
  BY DEF FreeSlots, Slots
<1>2. \E s \in FreeSlots : \A t \in FreeSlots : s <= t
  BY <1>1, LeastNatural
<1> QED BY <1>2 DEF FirstFree, FreeSlots

\* The slot a call finds for its key holds a well-formed ACTIVE entry.
LEMMA CurrentIsActive ==
  ASSUME NEW w \in Writers, Found(w) # {}
  PROVE  /\ Current(w) \in Slots
         /\ dir[Current(w)].state = "active"
         /\ WellFormed(dir[Current(w)])
<1>1. Current(w) \in Found(w)
  BY DEF Current
<1> QED BY <1>1, UsableWellFormed DEF Found, Holding

-----------------------------------------------------------------------------
(***************************************************************************)
(* Types.                                                                  *)
(***************************************************************************)
LEMMA InitType == Init => TypeOK
  BY RegionAssumption, CommitAssumption
  DEF Init, TypeOK, Entry, Free, Blank, Junk, CellOf, Outcomes, NoRequest, Slots, Cells

LEMMA ForgetType ==
  ASSUME TypeOK, NEW W, Forget(W)
  PROVE  /\ req' \in [Writers -> Request \cup {NoRequest}]
         /\ slot' \in [Writers -> Nat]
         /\ ent' \in [Writers -> Entry]
         /\ pos' \in [Writers -> Nat]
         /\ same' \in [Writers -> BOOLEAN]
<1>1. Free \in Entry
  BY RegionAssumption DEF Free, Blank, Entry
<1> QED BY <1>1, Zenon DEF Forget, TypeOK

\* A slot write keeps the directory's type, whether it succeeds or fails.
LEMMA PutSlotType ==
  ASSUME TypeOK, NEW w \in Writers, NEW e \in Entry, NEW step \in Steps, PutSlot(w, e, step)
  PROVE  dir' \in [Slots -> Entry] /\ pc' \in [Writers -> Steps \cup {"idle"}]
<1>1. Torn \in Entry
  BY RegionAssumption DEF Torn, Blank, Entry
<1>2. "failed" \in Steps
  BY DEF Steps
<1>3. dir' \in [Slots -> Entry]
  BY <1>1 DEF PutSlot, TypeOK
<1>4. pc' \in [Writers -> Steps \cup {"idle"}]
  BY <1>2 DEF PutSlot, Goto, TypeOK
<1> QED BY <1>3, <1>4

LEMMA RequestFields ==
  ASSUME NEW r \in Request
  PROVE  r.key \in Keys /\ r.val \in Outcomes /\ r.cap \in Nat
<1>1. r.key \in Keys /\ r.val \in Outcomes /\ r.cap \in Capacities \cup {0}
  BY DEF Request
<1>2. Capacities \cup {0} \subseteq Nat
  BY CommitAssumption
<1> QED BY <1>1, <1>2

LEMMA EntryFields ==
  ASSUME NEW e \in Entry
  PROVE  /\ e.key \in Keys \cup {NoKey}
         /\ e.off \in Nat
         /\ e.cap \in Nat
         /\ e.val \in Outcomes
         /\ e.gen \in 0 .. GenMax
         /\ e.gen # GenMax => e.gen + 1 \in 0 .. GenMax
  BY RegionAssumption DEF Entry, Outcomes

\* The entry a deletion commits.
LEMMA DeletedEntryType ==
  ASSUME NEW e \in Entry, NEW k \in Keys
  PROVE  [e EXCEPT !.state = "deleting", !.key = k, !.gen = NextGen(e.gen)] \in Entry
<1>1. NextGen(e.gen) \in 0 .. GenMax
  BY EntryFields, RegionAssumption DEF NextGen
<1> QED BY <1>1 DEF Entry, EntryStates

\* The arguments of a writing call.
LEMMA WriteRequest ==
  ASSUME NEW w \in Writers, Asked(w), pc[w] # "idle", req[w].kind = "write"
  PROVE  /\ req[w].key \in Keys
         /\ req[w].val \in Values
         /\ Size[req[w].val] \in Nat
         /\ req[w].cap \in Nat
         /\ NewCapacity(w) \in Nat
         /\ NewCapacity(w) > 0
<1>0. req[w] \in Request /\ req[w].val \in Values
  BY DEF Asked
<1>1. /\ req[w].key \in Keys
      /\ req[w].val \in Values
      /\ req[w].cap \in Nat
  BY <1>0, RequestFields
<1>2. Size[req[w].val] \in Nat
  BY <1>1, RegionAssumption
<1>3. \A n \in Nat : Align64(n) \in Nat /\ (n > 0 => Align64(n) > 0)
  BY DEF Align64
<1>4. NewCapacity(w) \in Nat /\ NewCapacity(w) > 0
  BY <1>1, <1>2, <1>3 DEF NewCapacity
<1> QED BY <1>1, <1>2, <1>4

LEMMA NewEntryType ==
  ASSUME NEW w \in Writers, req[w].key \in Keys, req[w].val \in Values,
         NEW off \in Nat, NEW cap \in Nat, NEW gen \in 0 .. GenMax
  PROVE  NewEntry(w, "writing", off, cap, gen) \in Entry
  BY DEF NewEntry, Entry, EntryStates

LEMMA PlanType ==
  ASSUME TypeOK, NEW w \in Writers, Asked(w)
  PROVE  /\ PlanReplace(w) => TypeOK'
         /\ PlanCreate(w) => TypeOK'
         /\ PlanDelete(w) => TypeOK'
         /\ PlanRefuse(w) => TypeOK'
<1> USE RegionAssumption, CommitAssumption DEF TypeOK
<1>1. ASSUME PlanReplace(w) PROVE TypeOK'
  <2> DEFINE old == dir[Current(w)]
             new == NewEntry(w, "writing", old.off, old.cap, NextGen(old.gen))
  <2>1. Current(w) \in Slots /\ old \in Entry /\ old.gen # GenMax
    BY <1>1, CurrentIsActive DEF PlanReplace, MayReplace
  <2>2. old.off \in Nat /\ old.cap \in Nat /\ NextGen(old.gen) \in 0 .. GenMax
    BY <2>1, EntryFields DEF NextGen
  <2>3. new \in Entry
    BY <1>1, <2>2, WriteRequest, NewEntryType DEF PlanReplace
  <2>4. Current(w) \in Nat
    BY <2>1 DEF Slots
  <2> QED BY <1>1, <2>3, <2>4 DEF PlanReplace, Choose, Goto, Steps, region, disk
<1>2. ASSUME PlanCreate(w) PROVE TypeOK'
  <2>1. NewCapacity(w) \in Nat
    BY <1>2, WriteRequest DEF PlanCreate
  <2>2. FirstFit(dir, NewCapacity(w)) \in Nat
    BY <1>2, <2>1, FirstFitRoom DEF PlanCreate, MayCreate
  <2>3. NewEntry(w, "writing", FirstFit(dir, NewCapacity(w)), NewCapacity(w), 1) \in Entry
    BY <1>2, <2>1, <2>2, WriteRequest, NewEntryType DEF PlanCreate
  <2>4. FirstFree \in Nat
    BY <1>2, FirstFreeIsFree DEF PlanCreate, MayCreate, Slots
  <2> QED BY <1>2, <2>3, <2>4 DEF PlanCreate, Choose, Goto, Steps, region, disk
<1>3. ASSUME PlanDelete(w) PROVE TypeOK'
  <2> DEFINE old == dir[Current(w)]
             new == [old EXCEPT !.state = "deleting", !.key = req[w].key,
                                !.gen = NextGen(old.gen)]
  <2>1. Current(w) \in Slots /\ old \in Entry
    BY <1>3, CurrentIsActive DEF PlanDelete
  <2>2. new \in Entry
    BY <1>3, <2>1, RequestFields, DeletedEntryType DEF PlanDelete, Asked
  <2>3. Current(w) \in Nat
    BY <2>1 DEF Slots
  <2> QED BY <1>3, <2>2, <2>3 DEF PlanDelete, Choose, Goto, Steps, region, disk
<1>4. ASSUME PlanRefuse(w) PROVE TypeOK'
  BY <1>4 DEF PlanRefuse, Goto, Steps, region, disk, locals
<1> QED BY <1>1, <1>2, <1>3, <1>4

LEMMA CellType ==
  ASSUME NEW v \in Outcomes, NEW p \in Nat
  PROVE  CellOf(v, p) \in [val : Outcomes, pos : Nat]
  BY DEF CellOf

LEMMA BlankTypes == Free \in Entry /\ Torn \in Entry /\ Junk \in [val : Outcomes, pos : Nat]
  BY RegionAssumption DEF Free, Torn, Blank, Entry, Junk, CellOf, Outcomes

LEMMA ActivatedType ==
  ASSUME NEW e \in Entry
  PROVE  [e EXCEPT !.state = "active"] \in Entry
  BY DEF Entry, EntryStates

\* A call's steps keep the types.
LEMMA CallType ==
  ASSUME TypeOK, NEW w \in Writers, Asked(w), Begin(w) \/ Step(w) \/ OpenFails(w)
  PROVE  TypeOK'
<1> USE DEF TypeOK, region, disk, locals, Goto, Steps
<1>1. ASSUME Begin(w) PROVE TypeOK'
  <2>1. CASE \E k \in Keys, v \in Values, c \in Capacities \cup {0} : BeginWrite(w, k, v, c)
    BY <2>1 DEF BeginWrite, Request, Outcomes
  <2>2. CASE \E k \in Keys : BeginDelete(w, k)
    BY <2>2 DEF BeginDelete, Request, Outcomes
  <2> QED BY <1>1, <2>1, <2>2 DEF Begin
<1>2. ASSUME OpenFails(w) \/ Return(w) PROVE TypeOK'
  <2>1. lock' \in Processes \cup {NoProcess}
    BY <1>2 DEF OpenFails, Return, Unlock
  <2>2. Forget({w}) /\ UNCHANGED <<dir, data, ddir, ddata>>
    BY <1>2 DEF OpenFails, Return
  <2>3. pc' \in [Writers -> Steps \cup {"idle"}]
    BY <1>2 DEF OpenFails, Return
  <2>4. allowed' \in [Objects -> SUBSET Outcomes]
    <3>1. CASE OpenFails(w)
      BY <3>1 DEF OpenFails
    <3>2. CASE Return(w)
      <4>1. pc[w] # "idle"
        BY <3>2 DEF Return
      <4>2. req[w].val \in Outcomes
        BY <4>1, RequestFields DEF Asked
      <4> QED BY <3>2, <4>2 DEF Return
    <3> QED BY <1>2, <3>1, <3>2
  <2> QED BY <2>1, <2>2, <2>3, <2>4, ForgetType
<1>3. ASSUME Lock(w) PROVE TypeOK'
  BY <1>3, CommitAssumption DEF Lock
<1>4. ASSUME NEW e \in Entry, NEW step \in Steps, PutSlot(w, e, step),
             pc[w] # "idle", UNCHANGED allowed \/ Expose(w)
      PROVE  TypeOK'
  <2>1. dir' \in [Slots -> Entry] /\ pc' \in [Writers -> Steps \cup {"idle"}]
    BY <1>4, PutSlotType
  <2>2. req[w].val \in Outcomes
    BY <1>4, RequestFields DEF Asked
  <2>3. allowed' \in [Objects -> SUBSET Outcomes]
    BY <1>4, <2>2 DEF Expose, Outcomes
  <2> QED BY <1>4, <2>1, <2>3 DEF PutSlot
<1>5. ASSUME PutWriting(w) \/ PutActive(w) \/ PutDeleting(w) \/ ClearSlot(w) PROVE TypeOK'
  <2>1. ent[w] \in Entry /\ Free \in Entry /\ [ent[w] EXCEPT !.state = "active"] \in Entry
    BY BlankTypes, ActivatedType
  <2>2. CASE PutWriting(w)
    BY <1>4, <2>1, <2>2 DEF PutWriting
  <2>3. CASE PutActive(w)
    BY <1>4, <2>1, <2>3 DEF PutActive
  <2>4. CASE PutDeleting(w)
    BY <1>4, <2>1, <2>4 DEF PutDeleting
  <2>5. CASE ClearSlot(w)
    BY <1>4, <2>1, <2>5 DEF ClearSlot
  <2> QED BY <1>5, <2>2, <2>3, <2>4, <2>5
<1>6. ASSUME NEW from \in Steps, NEW to \in Steps, Flush(w, from, to) PROVE TypeOK'
  BY <1>6 DEF Flush
<1>7. ASSUME \/ SyncWriting(w) \/ SyncData(w) \/ SyncActive(w) \/ SyncDeleting(w)
             \/ SyncClear(w)
      PROVE  TypeOK'
  BY <1>6, <1>7 DEF SyncWriting, SyncData, SyncActive, SyncDeleting, SyncClear
<1>8. ASSUME CopyChunk(w) \/ CopyFails(w) PROVE TypeOK'
  <2>1. ent[w].val \in Outcomes /\ pos[w] \in Nat
    BY EntryFields
  <2>2. CellOf(ent[w].val, pos[w]) \in [val : Outcomes, pos : Nat]
    BY <2>1, CellType
  <2>3. CASE CopyChunk(w)
    <3>1. PICK chunk \in {CellOf(ent[w].val, pos[w]), Junk} :
            /\ data' = [data EXCEPT ![ent[w].off + pos[w]] = chunk]
            /\ same' = [same EXCEPT ![w] = @ /\ chunk # Junk]
      BY <2>3 DEF CopyChunk
    <3>2. chunk \in [val : Outcomes, pos : Nat]
      BY <2>2, BlankTypes
    <3>3. data' \in [Cells -> [val : Outcomes, pos : Nat]]
      BY <3>1, <3>2
    <3>4. same' \in [Writers -> BOOLEAN]
      BY <3>1, Zenon
    <3>5. pos' \in [Writers -> Nat]
      BY <2>3 DEF CopyChunk
    <3> QED BY <2>3, <3>3, <3>4, <3>5 DEF CopyChunk
  <2>4. CASE CopyFails(w)
    <3>1. data' \in [Cells -> [val : Outcomes, pos : Nat]]
      BY <2>4, BlankTypes DEF CopyFails
    <3> QED BY <2>4, <3>1 DEF CopyFails
  <2> QED BY <1>8, <2>3, <2>4
<1>9. ASSUME CopyDone(w) PROVE TypeOK'
  BY <1>9 DEF CopyDone
<1> QED BY <1>1, <1>2, <1>3, <1>5, <1>7, <1>8, <1>9, PlanType DEF Step

\* Nothing else in the system changes them either.
LEMMA EnvironmentType ==
  ASSUME TypeOK, (\E p \in Processes : Kill(p)) \/ (\E s \in Slots : WriteBackSlot(s))
                   \/ (\E a \in Cells : WriteBackCell(a)) \/ PowerLoss
  PROVE  TypeOK'
<1> USE DEF TypeOK, region, disk, locals
<1>1. ASSUME NEW W, Stop(W)
      PROVE  /\ pc' \in [Writers -> Steps \cup {"idle"}]
             /\ req' \in [Writers -> Request \cup {NoRequest}]
             /\ slot' \in [Writers -> Nat]
             /\ ent' \in [Writers -> Entry]
             /\ pos' \in [Writers -> Nat]
             /\ same' \in [Writers -> BOOLEAN]
  <2>1. pc' \in [Writers -> Steps \cup {"idle"}]
    BY <1>1 DEF Stop
  <2> QED BY <1>1, <2>1, ForgetType DEF Stop
<1>2. CASE \E p \in Processes : Kill(p)
  <2>1. PICK p \in Processes : Kill(p)
    BY <1>2
  <2>2. Stop({w \in Writers : ProcessOf[w] = p})
    BY <2>1 DEF Kill
  <2>3. lock' \in Processes \cup {NoProcess}
    BY <2>1 DEF Kill
  <2> QED BY <1>1, <2>1, <2>2, <2>3 DEF Kill
<1>3. CASE \E s \in Slots : WriteBackSlot(s)
  BY <1>3 DEF WriteBackSlot
<1>4. CASE \E a \in Cells : WriteBackCell(a)
  BY <1>4 DEF WriteBackCell
<1>5. CASE PowerLoss
  <2>1. PICK S \in SUBSET Slots, A \in SUBSET Cells :
          /\ dir' = [s \in Slots |-> IF s \in S THEN Torn ELSE ddir[s]]
          /\ data' = [a \in Cells |-> IF a \in A THEN Junk ELSE ddata[a]]
          /\ ddir' = dir'
          /\ ddata' = data'
          /\ lock' = NoProcess
          /\ Stop(Writers)
          /\ UNCHANGED allowed
    BY <1>5 DEF PowerLoss
  <2>2. dir' \in [Slots -> Entry] /\ data' \in [Cells -> [val : Outcomes, pos : Nat]]
    BY <2>1, BlankTypes
  <2> QED BY <1>1, <2>1, <2>2
<1> QED BY <1>2, <1>3, <1>4, <1>5

Typed == TypeOK /\ \A w \in Writers : Asked(w)

\* A call keeps its arguments until it returns or is stopped.
LEMMA AskedStep ==
  ASSUME TypeOK, \A w \in Writers : Asked(w), Next
  PROVE  \A w \in Writers : Asked(w)'
<1> SUFFICES ASSUME NEW u \in Writers PROVE Asked(u)'
  OBVIOUS
<1> USE DEF TypeOK, region, disk, locals, Goto
<1>1. ASSUME pc'[u] # "idle" => pc[u] # "idle" /\ req'[u] = req[u] PROVE Asked(u)'
  BY <1>1 DEF Asked
<1>2. ASSUME NEW W, Forget(W), u \notin W PROVE req'[u] = req[u]
  BY <1>2 DEF Forget
<1>3. ASSUME NEW w \in Writers, Begin(w) PROVE Asked(u)'
  <2>1. CASE \E k \in Keys, v \in Values, c \in Capacities \cup {0} : BeginWrite(w, k, v, c)
    BY <2>1 DEF BeginWrite, Request, Outcomes, Asked
  <2>2. CASE \E k \in Keys : BeginDelete(w, k)
    BY <2>2 DEF BeginDelete, Request, Outcomes, Asked
  <2> QED BY <1>3, <2>1, <2>2 DEF Begin
<1>4. ASSUME NEW w \in Writers, OpenFails(w) \/ Return(w) PROVE Asked(u)'
  BY <1>1, <1>2, <1>4 DEF OpenFails, Return
<1>5. ASSUME NEW W, Stop(W) PROVE Asked(u)'
  BY <1>1, <1>2, <1>5 DEF Stop
<1>6. ASSUME NEW w \in Writers, Step(w), ~Return(w) PROVE Asked(u)'
  <2>1. req' = req /\ (pc'[u] # "idle" => pc[u] # "idle")
    BY <1>6 DEF Step, Lock, PlanReplace, PlanCreate, PlanDelete, PlanRefuse, Choose,
                PutWriting, PutActive, PutDeleting, ClearSlot, PutSlot,
                SyncWriting, SyncData, SyncActive, SyncDeleting, SyncClear, Flush,
                CopyChunk, CopyDone, CopyFails
  <2> QED BY <1>1, <2>1
<1>7. ASSUME (\E s \in Slots : WriteBackSlot(s)) \/ (\E a \in Cells : WriteBackCell(a))
      PROVE  Asked(u)'
  BY <1>1, <1>7 DEF WriteBackSlot, WriteBackCell
<1>8. ASSUME PowerLoss \/ \E p \in Processes : Kill(p) PROVE Asked(u)'
  BY <1>5, <1>8 DEF PowerLoss, Kill
<1> QED BY <1>3, <1>4, <1>6, <1>7, <1>8 DEF Next, Environment

LEMMA TypedInductive == Typed /\ [Next]_vars => Typed'
<1> SUFFICES ASSUME Typed, [Next]_vars PROVE Typed'
  OBVIOUS
<1>1. CASE Next
  <2>1. TypeOK'
    BY <1>1, CallType, EnvironmentType DEF Typed, Next, Environment
  <2> QED BY <1>1, <2>1, AskedStep DEF Typed
<1>2. CASE UNCHANGED vars
  BY <1>2 DEF vars, Typed, TypeOK, Asked
<1> QED BY <1>1, <1>2

LEMMA InitTyped == Init => Typed
  BY InitType DEF Init, Typed, Asked

\* Every variable keeps its type, however many threads share a process: slots
\* chosen by the plan exist, generations never leave their range.
THEOREM TypeCorrect == Spec => []TypeOK
<1>1. Typed => TypeOK
  BY DEF Typed
<1> QED BY <1>1, InitTyped, TypedInductive, PTL DEF Spec

-----------------------------------------------------------------------------
(***************************************************************************)
(* The lock keeps writers of different processes apart.                    *)
(***************************************************************************)
LEMMA LockStep ==
  ASSUME OneWriterPerProcess, TypeOK, LockHeld, Next
  PROVE  LockHeld'
<1> SUFFICES ASSUME NEW u \in Writers, Inside(u)' PROVE lock' = ProcessOf[u]
  BY DEF LockHeld
<1> USE CommitAssumption DEF TypeOK, region, disk, locals, Goto, Inside
<1>1. ASSUME lock' = lock, Inside(u) PROVE lock' = ProcessOf[u]
  BY <1>1 DEF LockHeld
<1>2. ASSUME NEW w \in Writers, Begin(w) PROVE lock' = ProcessOf[u]
  BY <1>1, <1>2 DEF Begin, BeginWrite, BeginDelete
<1>3. ASSUME NEW w \in Writers, Lock(w) PROVE lock' = ProcessOf[u]
  <2>1. CASE u = w
    BY <1>3, <2>1 DEF Lock
  <2>2. CASE u # w
    <3>1. lock = ProcessOf[u]
      BY <1>3, <2>2 DEF Lock, LockHeld
    <3>2. lock # NoProcess
      BY <3>1
    <3> QED BY <1>3, <3>1, <3>2 DEF Lock
  <2> QED BY <2>1, <2>2
<1>4. ASSUME NEW w \in Writers, OpenFails(w) \/ Return(w) PROVE lock' = ProcessOf[u]
  <2>1. u # w
    BY <1>4 DEF OpenFails, Return
  <2>2. Inside(u)
    BY <1>4, <2>1 DEF OpenFails, Return
  <2>3. lock = ProcessOf[u] /\ lock # ProcessOf[w]
    BY <2>1, <2>2 DEF LockHeld, OneWriterPerProcess
  <2> QED BY <1>4, <2>3 DEF OpenFails, Return, Unlock
<1>5. ASSUME NEW w \in Writers, Step(w), ~Return(w), ~Lock(w) PROVE lock' = ProcessOf[u]
  <2>1. lock' = lock /\ (pc[u] \in {"idle", "lock"} => pc'[u] = pc[u])
    BY <1>5 DEF Step, PlanReplace, PlanCreate, PlanDelete, PlanRefuse, Choose,
                PutWriting, PutActive, PutDeleting, ClearSlot, PutSlot,
                SyncWriting, SyncData, SyncActive, SyncDeleting, SyncClear, Flush,
                CopyChunk, CopyDone, CopyFails
  <2> QED BY <1>1, <2>1
<1>6. ASSUME NEW p \in Processes, Kill(p) PROVE lock' = ProcessOf[u]
  <2>1. Inside(u) /\ ProcessOf[u] # p
    BY <1>6 DEF Kill, Stop
  <2> QED BY <1>6, <2>1 DEF Kill, LockHeld
<1>7. ASSUME (\E s \in Slots : WriteBackSlot(s)) \/ (\E a \in Cells : WriteBackCell(a))
      PROVE  lock' = ProcessOf[u]
  BY <1>1, <1>7 DEF WriteBackSlot, WriteBackCell
<1>8. ASSUME PowerLoss PROVE lock' = ProcessOf[u]
  BY <1>8 DEF PowerLoss, Stop
<1> QED BY <1>2, <1>3, <1>4, <1>5, <1>6, <1>7, <1>8 DEF Next, Environment

\* Between taking the lock and returning a writer is alone.
LEMMA AloneInside ==
  ASSUME OneWriterPerProcess, LockHeld, NEW v \in Writers, NEW w \in Writers, Inside(v), Inside(w)
  PROVE  v = w
  BY DEF LockHeld, OneWriterPerProcess

-----------------------------------------------------------------------------
(***************************************************************************)
(* Extents and contents.                                                   *)
(***************************************************************************)
LEMMA OverlapFacts ==
  ASSUME NEW e \in Entry, NEW f \in Entry, NEW g \in Entry
  PROVE  /\ Overlap(e, f) <=> Overlap(f, e)
         /\ SameExtent(e, f) => (Overlap(e, g) <=> Overlap(f, g))
  BY DEF Overlap, SameExtent

LEMMA BlankFacts ==
  /\ ~WellFormed(Free) /\ Free.state # "active"
  /\ ~WellFormed(Torn) /\ Torn.state # "active"
  /\ Torn # Free
  BY DEF WellFormed, Free, Torn, Blank, EntryStates

\* The cells an entry's content occupies lie in the data area and in its extent.
LEMMA CellsOfEntry ==
  ASSUME NEW e \in Entry, Fits(e), NEW p \in 0 .. Size[e.val] - 1, p % 64 = 0
  PROVE  /\ e.off + p \in Cells
         /\ e.off <= e.off + p
         /\ e.off + p < e.off + e.cap
<1>1. e.off \in Nat /\ e.cap \in Nat
  BY EntryFields
<1>2. Size[e.val] \in Nat /\ Size[e.val] <= e.cap /\ e.off + e.cap <= DataSize /\ e.off % 64 = 0
  BY RegionAssumption DEF Fits
<1>3. p \in Nat /\ p < Size[e.val]
  BY <1>2
<1>4. (e.off + p) % 64 = 0
  BY <1>1, <1>2, <1>3
<1>5. e.off + p \in 0 .. DataSize - 1
  BY <1>1, <1>2, <1>3, RegionAssumption
<1> QED BY <1>1, <1>2, <1>3, <1>4, <1>5 DEF Cells

\* A content stays intact when none of its cells changes.
LEMMA IntactFrame ==
  ASSUME NEW d1, NEW d2, NEW e, Intact(d1, e),
         \A p \in 0 .. Size[e.val] - 1 : p % 64 = 0 => d2[e.off + p] = d1[e.off + p]
  PROVE  Intact(d2, e)
  BY DEF Intact

\* Activating an entry keeps its extent and content.
LEMMA Activated ==
  ASSUME NEW e \in Entry, Fits(e), e.gen > 0,
         NEW a, a = [e EXCEPT !.state = "active"]
  PROVE  /\ a \in Entry
         /\ a.state = "active"
         /\ WellFormed(a)
         /\ SameExtent(a, e)
         /\ a # Free
         /\ \A d : Intact(d, e) => Intact(d, a)
<1>1. /\ a \in Entry /\ a.state = "active" /\ a.key = e.key /\ a.off = e.off
      /\ a.cap = e.cap /\ a.val = e.val /\ a.gen = e.gen
  BY DEF Entry, EntryStates
<1>2. WellFormed(a)
  BY <1>1 DEF WellFormed, Fits, EntryStates
<1>3. SameExtent(a, e)
  BY <1>1 DEF SameExtent
<1>4. a # Free
  BY <1>1, BlankFacts
<1>5. ASSUME NEW d, Intact(d, e) PROVE Intact(d, a)
  BY <1>1, <1>5 DEF Intact
<1> QED BY <1>1, <1>2, <1>3, <1>4, <1>5

-----------------------------------------------------------------------------
(***************************************************************************)
(* The plan: an extent of the object's own.                                *)
(***************************************************************************)
Apart(w) == Planned(w) /\ Progress(w)

\* Outside the stages nothing is said of a writer but that it has copied nothing.
LEMMA OutsideStages ==
  ASSUME NEW u \in Writers, pc'[u] \notin WriteSteps \cup DeleteSteps,
         pc'[u] \in {"idle", "lock", "plan"} => pos'[u] = 0
  PROVE  Apart(u)'
  BY DEF Apart, Planned, Progress, WriteSteps, DeleteSteps

\* A step that leaves the region and the disk alone keeps what it says of entries.
LEMMA RegionFrame ==
  ASSUME UNCHANGED <<dir, data, ddir, ddata>>, ActiveSound, CopiesApart
  PROVE  ActiveSound' /\ CopiesApart'
<1>1. ActiveSound'
  BY DEF ActiveSound, IntactTwice
<1>2. CopiesApart'
  BY DEF CopiesApart, Copies
<1> QED BY <1>1, <1>2

\* A writer that makes no step keeps its plan while the region stays as it is.
LEMMA WriterFrame ==
  ASSUME UNCHANGED <<dir, data, ddir, ddata>>, NEW u \in Writers, Apart(u),
         pc'[u] = pc[u], slot'[u] = slot[u], ent'[u] = ent[u],
         pos'[u] = pos[u], same'[u] = same[u]
  PROVE  Apart(u)'
<1>1. Planned(u)'
  BY DEF Apart, Planned, Copies
<1>2. Progress(u)'
  BY DEF Apart, Progress, IntactTwice
<1> QED BY <1>1, <1>2 DEF Apart

LEMMA PlanReplaceApart ==
  ASSUME TypeOK, ActiveSound, CopiesApart, NEW w \in Writers, Asked(w), Apart(w), PlanReplace(w)
  PROVE  Apart(w)'
<1> DEFINE s == Current(w)
           old == dir[s]
           new == NewEntry(w, "writing", old.off, old.cap, NextGen(old.gen))
<1>1. s \in Slots /\ old.state = "active" /\ WellFormed(old) /\ old \in Entry
  BY CurrentIsActive DEF PlanReplace, MayReplace, TypeOK
<1>2. /\ UNCHANGED <<dir, data, ddir, ddata, pos>>
      /\ slot'[w] = s /\ ent'[w] = new /\ pc'[w] = "putWriting"
  BY DEF PlanReplace, Choose, Goto, TypeOK, region, disk
<1>3. req[w].key \in Keys /\ req[w].val \in Values /\ Size[req[w].val] <= old.cap
  BY WriteRequest DEF PlanReplace, MayReplace
<1>4. /\ Fits(new) /\ SameExtent(old, new) /\ new.state = "writing" /\ new.gen > 0
      /\ new \in Entry
  <2>1. /\ old.off \in Nat /\ old.cap \in Nat
        /\ NextGen(old.gen) \in 0 .. GenMax /\ NextGen(old.gen) > 0
    BY <1>1, EntryFields DEF PlanReplace, MayReplace, NextGen
  <2>2. new \in Entry
    BY <2>1, <1>3, NewEntryType
  <2> QED BY <1>1, <1>3, <2>1, <2>2 DEF NewEntry, Fits, WellFormed, SameExtent
<1>5. \A e \in Copies(s) : e.state = "active" => SameExtent(e, new)
  BY <1>1, <1>4 DEF Copies, ActiveSound, SameExtent
<1>6. ASSUME NEW t \in Slots \ {s}
      PROVE  /\ WellFormed(dir[t]) => ~Overlap(new, dir[t])
             /\ ddir[t].state = "active" => ~Overlap(new, ddir[t])
  <2>1. dir[t] \in Entry /\ ddir[t] \in Entry
    BY DEF TypeOK
  <2>2. /\ WellFormed(dir[t]) => ~Overlap(old, dir[t])
        /\ ddir[t].state = "active" => ~Overlap(old, ddir[t])
    BY <1>1 DEF CopiesApart, Copies, ActiveSound
  <2> QED BY <1>1, <1>4, <2>1, <2>2, OverlapFacts
<1> HIDE DEF s, old, new
<1>7. Planned(w)'
  BY <1>1, <1>2, <1>4, <1>5, <1>6 DEF Planned, Copies
<1>8. Progress(w)'
  BY <1>2, <1>4 DEF Apart, Progress, WriteSteps, DeleteSteps, PlanReplace
<1> QED BY <1>7, <1>8 DEF Apart

LEMMA PlanCreateApart ==
  ASSUME TypeOK, ActiveSound, NEW w \in Writers, Asked(w), Apart(w), PlanCreate(w)
  PROVE  Apart(w)'
<1> DEFINE s == FirstFree
           cap == NewCapacity(w)
           off == FirstFit(dir, cap)
           new == NewEntry(w, "writing", off, cap, 1)
<1>1. s \in Slots /\ dir[s] = Free
  BY FirstFreeIsFree DEF PlanCreate, MayCreate
<1>2. /\ UNCHANGED <<dir, data, ddir, ddata, pos>>
      /\ slot'[w] = s /\ ent'[w] = new /\ pc'[w] = "putWriting"
  BY DEF PlanCreate, Choose, Goto, TypeOK, region, disk
<1>3. /\ req[w].key \in Keys /\ req[w].val \in Values /\ Size[req[w].val] <= cap
      /\ cap \in Nat /\ cap > 0
  BY WriteRequest DEF PlanCreate, MayCreate
<1>4. off \in Nat /\ off % 64 = 0 /\ Room(dir, off, cap)
  BY <1>3, FirstFitRoom DEF PlanCreate, MayCreate, TypeOK
<1> HIDE DEF off, cap
<1>5. /\ Fits(new) /\ new.state = "writing" /\ new.gen > 0 /\ new \in Entry
      /\ new.off = off /\ new.cap = cap
  <2>1. 1 \in 0 .. GenMax
    BY RegionAssumption
  <2>2. new \in Entry
    BY <2>1, <1>3, <1>4, NewEntryType
  <2> QED BY <1>3, <1>4, <2>2 DEF NewEntry, Fits, Room
<1>6. \A e \in Copies(s) : e.state # "active"
  BY <1>1, BlankFacts DEF Copies, ActiveSound
<1>7. ASSUME NEW t \in Slots \ {s}, WellFormed(dir[t]) PROVE ~Overlap(new, dir[t])
  <2>1. t \in Usable(dir)
    BY <1>7, UsableWhenValid DEF PlanCreate, MayCreate, TypeOK
  <2>2. off >= dir[t].off + dir[t].cap \/ dir[t].off >= off + cap
    BY <1>4, <2>1 DEF Room
  <2>3. dir[t].off \in Nat /\ dir[t].cap \in Nat
    BY EntryFields DEF TypeOK
  <2> QED BY <1>3, <1>4, <1>5, <2>2, <2>3 DEF Overlap
<1>8. ASSUME NEW t \in Slots \ {s}, ddir[t].state = "active" PROVE ~Overlap(new, ddir[t])
  <2>1. dir[t] = Free \/ WellFormed(dir[t])
    BY UsableWhenValid DEF PlanCreate, MayCreate, TypeOK
  <2>2. WellFormed(dir[t]) /\ SameExtent(dir[t], ddir[t])
    BY <1>8, <2>1 DEF ActiveSound
  <2>3. ~Overlap(new, dir[t])
    BY <1>7, <2>2
  <2>4. dir[t] \in Entry /\ ddir[t] \in Entry
    BY DEF TypeOK
  <2> QED BY <1>5, <2>2, <2>3, <2>4, OverlapFacts
<1> HIDE DEF s, new
<1>9. Planned(w)'
  BY <1>1, <1>2, <1>5, <1>6, <1>7, <1>8 DEF Planned, Copies
<1>10. Progress(w)'
  BY <1>2, <1>5 DEF Apart, Progress, WriteSteps, DeleteSteps, PlanCreate
<1> QED BY <1>9, <1>10 DEF Apart

LEMMA PlanDeleteApart ==
  ASSUME TypeOK, ActiveSound, CopiesApart, NEW w \in Writers, Asked(w), Apart(w), PlanDelete(w)
  PROVE  Apart(w)'
<1> DEFINE s == Current(w)
           old == dir[s]
           new == [old EXCEPT !.state = "deleting", !.key = req[w].key, !.gen = NextGen(old.gen)]
<1>1. s \in Slots /\ old.state = "active" /\ WellFormed(old) /\ old \in Entry
  BY CurrentIsActive DEF PlanDelete, TypeOK
<1>2. /\ UNCHANGED <<dir, data, ddir, ddata, pos>>
      /\ slot'[w] = s /\ ent'[w] = new /\ pc'[w] = "putDeleting"
  BY DEF PlanDelete, Choose, Goto, TypeOK, region, disk
<1>3. req[w].key \in Keys
  BY RequestFields DEF PlanDelete, Asked
<1>4. new \in Entry
  BY <1>1, <1>3, DeletedEntryType
<1>5. /\ new.key = req[w].key /\ new.off = old.off /\ new.cap = old.cap /\ new.val = old.val
      /\ new.state = "deleting"
  BY <1>1 DEF Entry
<1>6. Fits(new) /\ SameExtent(old, new)
  BY <1>1, <1>3, <1>5 DEF Fits, WellFormed, SameExtent
<1> HIDE DEF new
<1>7. \A e \in Copies(s) : e.state = "active" => SameExtent(e, new)
  BY <1>1, <1>6 DEF Copies, ActiveSound, SameExtent
<1>8. ASSUME NEW t \in Slots \ {s}
      PROVE  /\ WellFormed(dir[t]) => ~Overlap(new, dir[t])
             /\ ddir[t].state = "active" => ~Overlap(new, ddir[t])
  <2>1. dir[t] \in Entry /\ ddir[t] \in Entry
    BY DEF TypeOK
  <2>2. /\ WellFormed(dir[t]) => ~Overlap(old, dir[t])
        /\ ddir[t].state = "active" => ~Overlap(old, ddir[t])
    BY <1>1 DEF CopiesApart, Copies, ActiveSound
  <2> QED BY <1>1, <1>4, <1>6, <2>1, <2>2, OverlapFacts
<1> HIDE DEF s, old
<1>9. Planned(w)'
  BY <1>1, <1>2, <1>6, <1>7, <1>8 DEF Planned, Copies
<1>10. Progress(w)'
  BY <1>2, <1>5 DEF Apart, Progress, WriteSteps, DeleteSteps, PlanDelete
<1> QED BY <1>9, <1>10 DEF Apart

-----------------------------------------------------------------------------
(***************************************************************************)
(* Slot writes.                                                            *)
(***************************************************************************)
\* Replacing a slot by an entry that is not ACTIVE: one that is torn, or the
\* writer's own.
LEMMA PutInactive ==
  ASSUME TypeOK, ActiveSound, CopiesApart, NEW w \in Writers, Planned(w),
         pc[w] \in WriteSteps \cup DeleteSteps, NEW e \in Entry,
         e = Torn \/ (e = ent[w] /\ e.state # "active" /\ e # Free),
         dir' = [dir EXCEPT ![slot[w]] = e], UNCHANGED <<data, ddir, ddata>>
  PROVE  ActiveSound' /\ CopiesApart'
<1> DEFINE s == slot[w]
<1>1. s \in Slots /\ dir'[s] = e /\ e.state # "active" /\ e # Free
  BY BlankFacts DEF Planned, TypeOK
<1>2. \A t \in Slots \ {s} : dir'[t] = dir[t]
  BY DEF TypeOK
<1>3. WellFormed(e) => e = ent[w]
  BY BlankFacts
<1>4. ActiveSound'
  <2>1. ddir[s].state = "active" /\ WellFormed(e) => SameExtent(e, ddir[s])
    BY <1>3 DEF Planned, Copies, SameExtent
  <2> QED BY <1>1, <1>2, <2>1 DEF ActiveSound, IntactTwice
<1>5. CopiesApart'
  <2> SUFFICES ASSUME NEW p \in Slots, NEW q \in Slots, p # q,
                      NEW x \in Copies(p)', NEW y \in Copies(q)',
                      x.state = "active", WellFormed(y)
               PROVE  ~Overlap(x, y)
    BY Zenon DEF CopiesApart
  <2>1. x \in Copies(p)
    BY <1>1, <1>2 DEF Copies
  <2>2. CASE y \in Copies(q)
    BY <2>1, <2>2 DEF CopiesApart
  <2>3. CASE y \notin Copies(q)
    <3>1. q = s /\ y = e /\ y = ent[w]
      BY <1>1, <1>2, <1>3, <2>3 DEF Copies
    <3>2. ~Overlap(ent[w], x)
      BY <2>1, <3>1 DEF Planned, Copies, ActiveSound
    <3>3. x \in Entry
      BY <2>1 DEF Copies, TypeOK
    <3> QED BY <3>1, <3>2, <3>3, OverlapFacts
  <2> QED BY <2>2, <2>3
<1> QED BY <1>4, <1>5

\* What a writer's plan says is about other slots, so a write to its own keeps it.
LEMMA PutKeepsPlan ==
  ASSUME TypeOK, NEW w \in Writers, Planned(w), pc[w] \in WriteSteps \cup DeleteSteps,
         NEW e, dir' = [dir EXCEPT ![slot[w]] = e], e.state = "active" => SameExtent(e, ent[w]),
         UNCHANGED <<ddir, slot, ent>>
  PROVE  Planned(w)'
<1>1. slot[w] \in Slots /\ dir'[slot[w]] = e
  BY DEF Planned, TypeOK
<1>2. \A t \in Slots \ {slot[w]} : dir'[t] = dir[t]
  BY DEF TypeOK
<1> QED BY <1>1, <1>2 DEF Planned, Copies

RegionSound == ActiveSound /\ CopiesApart

\* A slot write that fails, and the writer with it.
LEMMA PutFails ==
  ASSUME TypeOK, RegionSound, NEW w \in Writers, Apart(w),
         pc[w] \in WriteSteps \cup DeleteSteps,
         dir' \in {dir, [dir EXCEPT ![slot[w]] = Torn]}, pc' = [pc EXCEPT ![w] = "failed"],
         UNCHANGED <<data, ddir, ddata>>
  PROVE  RegionSound' /\ Apart(w)'
<1>1. pc'[w] = "failed"
  BY DEF TypeOK
<1>2. Apart(w)'
  BY <1>1, OutsideStages DEF WriteSteps, DeleteSteps
<1>3. CASE dir' = dir
  BY <1>2, <1>3, RegionFrame DEF RegionSound
<1>4. CASE dir' = [dir EXCEPT ![slot[w]] = Torn]
  BY <1>2, <1>4, PutInactive, BlankTypes, BlankFacts DEF RegionSound, Apart
<1> QED BY <1>3, <1>4

\* The first stage, and the first of a deletion: the entry goes in, not ACTIVE.
LEMMA PutEntryApart ==
  ASSUME TypeOK, RegionSound, NEW w \in Writers, Apart(w), PutWriting(w) \/ PutDeleting(w)
  PROVE  RegionSound' /\ Apart(w)'
<1>1. /\ pc[w] \in {"putWriting", "putDeleting"}
      /\ pc[w] \in WriteSteps \cup DeleteSteps
      /\ UNCHANGED <<data, ddir, ddata, slot, ent, pos, same>>
  BY DEF PutWriting, PutDeleting, PutSlot, WriteSteps, DeleteSteps, disk, locals
<1>2. ent[w] \in Entry /\ ent[w].state \in {"writing", "deleting"}
  BY <1>1 DEF Apart, Progress, WriteSteps, DeleteSteps, TypeOK
<1>3. ent[w] # Free /\ ent[w].state # "active"
  BY <1>2 DEF Free, Blank
<1>4. CASE /\ dir' = [dir EXCEPT ![slot[w]] = ent[w]]
           /\ \/ pc[w] = "putWriting" /\ pc'[w] = "syncWriting"
              \/ pc[w] = "putDeleting" /\ pc'[w] = "syncDeleting"
  <2>1. RegionSound'
    BY <1>1, <1>2, <1>3, <1>4, PutInactive DEF RegionSound, Apart
  <2>2. Planned(w)'
    BY <1>1, <1>3, <1>4, PutKeepsPlan DEF Apart
  <2>3. dir'[slot[w]] = ent[w]
    BY <1>1, <1>4 DEF Apart, Planned, TypeOK
  <2>4. Progress(w)'
    BY <1>1, <1>4, <2>3 DEF Apart, Progress, WriteSteps, DeleteSteps
  <2> QED BY <2>1, <2>2, <2>4 DEF Apart
<1>5. CASE /\ dir' \in {dir, [dir EXCEPT ![slot[w]] = Torn]}
           /\ pc' = [pc EXCEPT ![w] = "failed"]
  BY <1>1, <1>5, PutFails
<1>6. \/ PutWriting(w) /\ PutSlot(w, ent[w], "syncWriting") /\ pc[w] = "putWriting"
      \/ PutDeleting(w) /\ PutSlot(w, ent[w], "syncDeleting") /\ pc[w] = "putDeleting"
  BY DEF PutWriting, PutDeleting
<1> QED BY <1>4, <1>5, <1>6 DEF PutSlot, Goto, TypeOK

\* The commit point: the extent holds the content twice over, and the disk the
\* entry that is being replaced.
LEMMA PutActiveApart ==
  ASSUME TypeOK, RegionSound, NEW w \in Writers, Apart(w), PutActive(w)
  PROVE  RegionSound' /\ Apart(w)'
<1> DEFINE s == slot[w]
           a == [ent[w] EXCEPT !.state = "active"]
<1>1. /\ pc[w] = "putActive" /\ pc[w] \in WriteSteps \cup DeleteSteps
      /\ UNCHANGED <<data, ddir, ddata, slot, ent, pos, same>>
  BY DEF PutActive, PutSlot, WriteSteps, disk, locals
<1>2. /\ dir[s] = ent[w] /\ ddir = dir /\ IntactTwice(ent[w])
      /\ ent[w].state = "writing" /\ ent[w].gen > 0
      /\ s \in Slots /\ Fits(ent[w]) /\ ent[w] \in Entry
  BY <1>1 DEF Apart, Progress, Planned, WriteSteps, TypeOK
<1>3. /\ a \in Entry /\ a.state = "active" /\ WellFormed(a) /\ SameExtent(a, ent[w])
      /\ a # Free /\ IntactTwice(a)
  BY <1>2, Activated DEF IntactTwice
<1> HIDE DEF a
<1>4. CASE dir' = [dir EXCEPT ![s] = a] /\ pc' = [pc EXCEPT ![w] = "syncActive"]
  <2>1. dir'[s] = a /\ pc'[w] = "syncActive" /\ \A t \in Slots \ {s} : dir'[t] = dir[t]
    BY <1>2, <1>4 DEF TypeOK
  <2>2. ActiveSound'
    BY <1>1, <1>2, <1>3, <2>1 DEF RegionSound, ActiveSound, IntactTwice
  <2>3. \A t \in Slots \ {s} : WellFormed(dir[t]) => ~Overlap(a, dir[t]) /\ ~Overlap(dir[t], a)
    BY <1>1, <1>2, <1>3, OverlapFacts DEF Apart, Planned, TypeOK
  <2>4. CopiesApart'
    <3> SUFFICES ASSUME NEW p \in Slots, NEW q \in Slots, p # q,
                        NEW x \in Copies(p)', NEW y \in Copies(q)',
                        x.state = "active", WellFormed(y)
                 PROVE  ~Overlap(x, y)
      BY Zenon DEF CopiesApart
    <3>1. (x \in Copies(p) \/ (p = s /\ x = a)) /\ (y \in Copies(q) \/ (q = s /\ y = a))
      BY <1>1, <2>1 DEF Copies
    <3>2. CASE x \in Copies(p) /\ y \in Copies(q)
      BY <3>2 DEF CopiesApart, RegionSound
    <3>3. CASE p = s /\ x = a
      <4>1. y = dir[q] /\ q \in Slots \ {s}
        BY <1>1, <1>2, <2>1, <3>3 DEF Copies
      <4> QED BY <3>3, <4>1, <2>3
    <3>4. CASE q = s /\ y = a
      <4>1. x = dir[p] /\ p \in Slots \ {s}
        BY <1>1, <1>2, <2>1, <3>4 DEF Copies
      <4> QED BY <3>4, <4>1, <2>3 DEF RegionSound, ActiveSound
    <3> QED BY <3>1, <3>2, <3>3, <3>4
  <2>5. Planned(w)'
    BY <1>1, <1>3, <1>4, PutKeepsPlan DEF Apart
  <2>6. Progress(w)'
    BY <1>1, <1>2, <2>1 DEF Apart, Progress, WriteSteps, DeleteSteps
  <2> QED BY <2>2, <2>4, <2>5, <2>6 DEF RegionSound, Apart
<1>5. CASE /\ dir' \in {dir, [dir EXCEPT ![s] = Torn]}
           /\ pc' = [pc EXCEPT ![w] = "failed"]
  BY <1>1, <1>5, PutFails
<1> QED BY <1>4, <1>5 DEF PutActive, PutSlot, Goto, a

\* A deletion's second stage: the disk already holds the DELETING entry.
LEMMA ClearSlotApart ==
  ASSUME TypeOK, RegionSound, NEW w \in Writers, Apart(w), ClearSlot(w)
  PROVE  RegionSound' /\ Apart(w)'
<1> DEFINE s == slot[w]
<1>1. /\ pc[w] = "clear" /\ pc[w] \in WriteSteps \cup DeleteSteps
      /\ UNCHANGED <<data, ddir, ddata, slot, ent, pos, same>>
  BY DEF ClearSlot, PutSlot, DeleteSteps, disk, locals
<1>2. ddir = dir /\ dir[s] = ent[w] /\ ent[w].state = "deleting" /\ s \in Slots
  BY <1>1 DEF Apart, Progress, Planned, DeleteSteps
<1>3. CASE dir' = [dir EXCEPT ![s] = Free] /\ pc' = [pc EXCEPT ![w] = "syncClear"]
  <2>1. dir'[s] = Free /\ pc'[w] = "syncClear" /\ \A t \in Slots \ {s} : dir'[t] = dir[t]
    BY <1>2, <1>3 DEF TypeOK
  <2>2. ActiveSound'
    BY <1>1, <1>2, <2>1, BlankFacts DEF RegionSound, ActiveSound, IntactTwice
  <2>3. \A t \in Slots : \A x \in Copies(t)' : x \in Copies(t) \/ x = Free
    BY <1>1, <2>1 DEF Copies
  <2>4. CopiesApart'
    <3> SUFFICES ASSUME NEW p \in Slots, NEW q \in Slots, p # q,
                        NEW x \in Copies(p)', NEW y \in Copies(q)',
                        x.state = "active", WellFormed(y)
                 PROVE  ~Overlap(x, y)
      BY Zenon DEF CopiesApart
    <3>1. x \in Copies(p) /\ y \in Copies(q)
      BY <2>3, BlankFacts
    <3> QED BY <3>1 DEF RegionSound, CopiesApart
  <2>5. Planned(w)'
    BY <1>1, <1>3, BlankFacts, PutKeepsPlan DEF Apart
  <2>6. Progress(w)'
    BY <1>1, <1>2, <2>1 DEF Apart, Progress, WriteSteps, DeleteSteps
  <2> QED BY <2>2, <2>4, <2>5, <2>6 DEF RegionSound, Apart
<1>4. CASE /\ dir' \in {dir, [dir EXCEPT ![s] = Torn]}
           /\ pc' = [pc EXCEPT ![w] = "failed"]
  BY <1>1, <1>4, PutFails
<1> QED BY <1>3, <1>4 DEF ClearSlot, PutSlot, Goto

-----------------------------------------------------------------------------
(***************************************************************************)
(* Synchronisations.                                                       *)
(***************************************************************************)
Syncs(w) == SyncWriting(w) \/ SyncData(w) \/ SyncActive(w) \/ SyncDeleting(w) \/ SyncClear(w)

LEMMA SyncApart ==
  ASSUME TypeOK, RegionSound, NEW w \in Writers, Apart(w), Syncs(w)
  PROVE  RegionSound' /\ Apart(w)'
<1>1. /\ UNCHANGED <<dir, data, slot, ent, pos, same>>
      /\ pc[w] \in WriteSteps \cup DeleteSteps
  BY DEF Syncs, SyncWriting, SyncData, SyncActive, SyncDeleting, SyncClear, Flush,
         WriteSteps, DeleteSteps, region, locals
<1>2. CASE UNCHANGED <<ddir, ddata>> /\ pc'[w] = "failed"
  <2>1. Apart(w)'
    BY <1>2, OutsideStages DEF WriteSteps, DeleteSteps
  <2> QED BY <1>1, <1>2, <2>1, RegionFrame DEF RegionSound
<1>3. CASE /\ ddir' = dir /\ ddata' = data
           /\ \/ pc[w] = "syncWriting" /\ pc'[w] = "copy"
              \/ pc[w] = "syncData" /\ pc'[w] = "putActive"
              \/ pc[w] = "syncDeleting" /\ pc'[w] = "clear"
              \/ pc'[w] = "ok"
  <2>1. ActiveSound'
    BY <1>1, <1>3, BlankFacts DEF RegionSound, ActiveSound, IntactTwice, SameExtent
  <2>2. \A s \in Slots : Copies(s)' = {dir[s]}
    BY <1>1, <1>3 DEF Copies
  <2>3. CopiesApart'
    BY <2>2 DEF RegionSound, CopiesApart, Copies
  <2>4. Planned(w)'
    BY <1>1, <1>3, <2>2 DEF Apart, Planned, Copies, RegionSound, ActiveSound
  <2>5. Progress(w)'
    <3>1. pos[w] \in Nat /\ (pc[w] = "syncWriting" => pos[w] = 0)
      BY DEF Apart, Progress, TypeOK
    <3>2. \A p \in 0 .. Size[ent[w].val] - 1 : ~(p < 0)
      BY RegionAssumption DEF Apart, Planned, Fits
    <3>3. CASE pc[w] = "syncWriting" /\ pc'[w] = "copy"
      <4>1. \A p \in 0 .. Size[ent[w].val] - 1 : ~(p < pos'[w])
        BY <1>1, <3>1, <3>2, <3>3
      <4>2. pos'[w] % 64 = 0
        BY <1>1, <3>1, <3>3
      <4> QED BY <1>1, <1>3, <3>3, <4>1, <4>2 DEF Apart, Progress, WriteSteps, DeleteSteps
    <3>4. CASE pc[w] = "syncData" /\ pc'[w] = "putActive"
      BY <1>1, <1>3, <3>4 DEF Apart, Progress, WriteSteps, DeleteSteps, IntactTwice, Intact
    <3>5. CASE pc[w] = "syncDeleting" /\ pc'[w] = "clear"
      BY <1>1, <1>3, <3>5 DEF Apart, Progress, WriteSteps, DeleteSteps
    <3>6. CASE pc'[w] = "ok"
      BY <3>6, OutsideStages DEF Apart, WriteSteps, DeleteSteps
    <3> QED BY <1>3, <3>3, <3>4, <3>5, <3>6
  <2> QED BY <2>1, <2>3, <2>4, <2>5 DEF RegionSound, Apart
<1> QED BY <1>2, <1>3
        DEF Syncs, SyncWriting, SyncData, SyncActive, SyncDeleting, SyncClear, Flush, Goto, TypeOK,
            disk

-----------------------------------------------------------------------------
(***************************************************************************)
(* Copying the content: the extent of no ACTIVE entry is touched.          *)
(***************************************************************************)
LEMMA CopyTouches ==
  ASSUME TypeOK, RegionSound, NEW w \in Writers, Apart(w), pc[w] = "copy",
         pos[w] < Size[ent[w].val], UNCHANGED <<dir, ddir, ddata>>,
         \A a \in Cells : a # ent[w].off + pos[w] => data'[a] = data[a]
  PROVE  RegionSound' /\ ent[w].off + pos[w] \in Cells
<1> DEFINE e == ent[w]
           a == e.off + pos[w]
<1>1. /\ slot[w] \in Slots /\ Fits(e) /\ e \in Entry /\ pos[w] % 64 = 0 /\ pos[w] \in Nat
      /\ dir[slot[w]] = e /\ e.state = "writing" /\ ddir = dir
  BY DEF Apart, Planned, Progress, WriteSteps, TypeOK
<1>2. pos[w] \in 0 .. Size[e.val] - 1
  BY <1>1, RegionAssumption DEF Fits
<1>3. a \in Cells /\ e.off <= a /\ a < e.off + e.cap
  BY <1>1, <1>2, CellsOfEntry
<1>4. \A b \in Cells : b # a => data'[b] = data[b]
  OBVIOUS
<1>5. ASSUME NEW s \in Slots, dir[s].state = "active" PROVE Intact(data', dir[s])
  <2>1. s # slot[w] /\ WellFormed(dir[s]) /\ Intact(data, dir[s]) /\ dir[s] \in Entry
    BY <1>1, <1>5 DEF RegionSound, ActiveSound, IntactTwice, TypeOK
  <2>2. ~Overlap(e, dir[s])
    BY <1>1, <2>1 DEF Apart, Planned, WriteSteps
  <2>3. ASSUME NEW p \in 0 .. Size[dir[s].val] - 1, p % 64 = 0
        PROVE  data'[dir[s].off + p] = data[dir[s].off + p]
    <3>1. /\ dir[s].off + p \in Cells
          /\ dir[s].off <= dir[s].off + p /\ dir[s].off + p < dir[s].off + dir[s].cap
      BY <2>1, <2>3, CellsOfEntry DEF WellFormed
    <3>2. dir[s].off \in Nat /\ dir[s].cap \in Nat /\ e.off \in Nat /\ e.cap \in Nat
      BY <1>1, <2>1, EntryFields
    <3>3. dir[s].off + p # a
      BY <1>3, <2>2, <3>1, <3>2 DEF Overlap, Cells
    <3> QED BY <1>4, <3>1, <3>3
  <2> QED BY <2>1, <2>3, IntactFrame
<1>6. ActiveSound'
  BY <1>1, <1>5 DEF RegionSound, ActiveSound, IntactTwice
<1>7. CopiesApart'
  BY DEF RegionSound, CopiesApart, Copies
<1> QED BY <1>3, <1>6, <1>7 DEF RegionSound

LEMMA NextMultiple ==
  ASSUME NEW p \in Nat, NEW q \in Nat, p % 64 = 0, q % 64 = 0, q < p + 64
  PROVE  q <= p
  OBVIOUS

LEMMA CopyApart ==
  ASSUME TypeOK, RegionSound, NEW w \in Writers, Apart(w),
         CopyChunk(w) \/ CopyFails(w) \/ CopyDone(w)
  PROVE  RegionSound' /\ Apart(w)'
<1>1. pc[w] = "copy" /\ UNCHANGED <<dir, ddir, ddata, slot, ent>>
  BY DEF CopyChunk, CopyFails, CopyDone, disk, region, locals
<1>2. /\ slot[w] \in Slots /\ Fits(ent[w]) /\ ent[w] \in Entry
      /\ pos[w] % 64 = 0 /\ pos[w] \in Nat /\ Size[ent[w].val] \in Nat
  BY <1>1, RegionAssumption DEF Apart, Planned, Progress, WriteSteps, TypeOK, Fits
<1>3. CASE CopyFails(w)
  <2>1. pc'[w] = "failed"
    BY <1>3 DEF CopyFails, Goto, TypeOK
  <2>2. Apart(w)'
    BY <2>1, OutsideStages DEF WriteSteps, DeleteSteps
  <2>3. \A b \in Cells : b # ent[w].off + pos[w] => data'[b] = data[b]
    BY <1>3 DEF CopyFails, TypeOK
  <2>4. pos[w] < Size[ent[w].val]
    BY <1>3 DEF CopyFails
  <2> QED BY <1>1, <2>2, <2>3, <2>4, CopyTouches
<1>4. CASE CopyDone(w)
  <2>1. /\ UNCHANGED <<data, pos, same>> /\ pos[w] >= Size[ent[w].val]
        /\ pc'[w] = IF same[w] THEN "syncData" ELSE "failed"
    BY <1>4 DEF CopyDone, region, locals, Goto, TypeOK
  <2>2. RegionSound'
    BY <1>1, <2>1, RegionFrame DEF RegionSound
  <2>3. CASE same[w]
    <3>1. Intact(data, ent[w])
      <4>1. \A p \in 0 .. Size[ent[w].val] - 1 : p < pos[w]
        BY <1>2, <2>1
      <4> QED BY <1>1, <2>3, <4>1 DEF Apart, Progress, Intact
    <3>2. Planned(w)'
      BY <1>1, <2>1, <2>3 DEF Apart, Planned, Copies, WriteSteps, DeleteSteps
    <3>3. Progress(w)'
      BY <1>1, <2>1, <2>3, <3>1 DEF Apart, Progress, WriteSteps, DeleteSteps, Intact
    <3> QED BY <2>2, <3>2, <3>3 DEF Apart
  <2>4. CASE ~same[w]
    BY <2>1, <2>2, <2>4, OutsideStages DEF WriteSteps, DeleteSteps
  <2> QED BY <2>3, <2>4
<1>5. CASE CopyChunk(w)
  <2> DEFINE a == ent[w].off + pos[w]
             want == CellOf(ent[w].val, pos[w])
  <2>1. PICK chunk \in {want, Junk} :
          /\ data' = [data EXCEPT ![a] = chunk]
          /\ same' = [same EXCEPT ![w] = @ /\ chunk # Junk]
    BY <1>5 DEF CopyChunk
  <2>2. pos[w] < Size[ent[w].val] /\ pos'[w] = pos[w] + 64 /\ pc' = pc
    BY <1>5 DEF CopyChunk, TypeOK
  <2>3. RegionSound' /\ a \in Cells /\ \A b \in Cells : b # a => data'[b] = data[b]
    <3>1. \A b \in Cells : b # a => data'[b] = data[b]
      BY <2>1 DEF TypeOK
    <3> QED BY <1>1, <2>2, <3>1, CopyTouches
  <2>4. Planned(w)'
    BY <1>1, <2>2 DEF Apart, Planned, Copies
  <2>5. pos'[w] % 64 = 0
    BY <1>2, <2>2
  <2>6. ASSUME same'[w], NEW p \in 0 .. Size[ent[w].val] - 1, p % 64 = 0, p < pos'[w]
        PROVE  data'[ent[w].off + p] = CellOf(ent[w].val, p)
    <3>1. same[w] /\ chunk = want
      <4>1. same'[w] = (same[w] /\ chunk # Junk)
        BY <2>1, Zenon DEF TypeOK
      <4> QED BY <2>1, <2>6, <4>1, Zenon
    <3>2. p \in Nat /\ p <= pos[w]
      BY <1>2, <2>2, <2>6, NextMultiple
    <3>3. CASE p = pos[w]
      BY <2>1, <2>3, <3>1, <3>3 DEF TypeOK
    <3>4. CASE p < pos[w]
      <4>1. ent[w].off + p \in Cells /\ ent[w].off \in Nat
        BY <1>2, <2>6, CellsOfEntry, EntryFields
      <4>2. ent[w].off + p # a
        BY <1>2, <3>2, <3>4, <4>1
      <4>3. data[ent[w].off + p] = CellOf(ent[w].val, p)
        BY <1>1, <2>6, <3>1, <3>4 DEF Apart, Progress
      <4> QED BY <2>3, <4>1, <4>2, <4>3
    <3> QED BY <1>2, <3>2, <3>3, <3>4
  <2> HIDE DEF a, want
  <2>7. Progress(w)'
    BY <1>1, <2>2, <2>5, <2>6 DEF Apart, Progress, WriteSteps, DeleteSteps
  <2> QED BY <2>3, <2>4, <2>7 DEF Apart
<1> QED BY <1>3, <1>4, <1>5

-----------------------------------------------------------------------------
(***************************************************************************)
(* Write-backs and power losses.                                           *)
(***************************************************************************)
LEMMA WriteBackSlotApart ==
  ASSUME TypeOK, RegionSound, NEW s \in Slots, WriteBackSlot(s)
  PROVE  RegionSound' /\ \A u \in Writers : Apart(u) => Apart(u)'
<1>1. UNCHANGED <<dir, data, ddata, pc, slot, ent, pos, same>> /\ ddir # dir
  BY DEF WriteBackSlot, region, locals
<1>2. ddir'[s] = dir[s] /\ \A t \in Slots \ {s} : ddir'[t] = ddir[t]
  BY DEF WriteBackSlot, TypeOK
<1>3. ActiveSound'
  BY <1>1, <1>2, BlankFacts DEF RegionSound, ActiveSound, IntactTwice, SameExtent
<1>4. \A t \in Slots : Copies(t)' \subseteq Copies(t)
  BY <1>1, <1>2 DEF Copies
<1>5. CopiesApart'
  BY <1>4, Zenon DEF RegionSound, CopiesApart
<1>6. ASSUME NEW u \in Writers, Apart(u) PROVE Apart(u)'
  <2>1. Planned(u)'
    BY <1>1, <1>2, <1>4, <1>6 DEF Apart, Planned, RegionSound, ActiveSound
  <2>2. Progress(u)'
    BY <1>1, <1>6 DEF Apart, Progress, IntactTwice
  <2> QED BY <2>1, <2>2 DEF Apart
<1> QED BY <1>3, <1>5, <1>6 DEF RegionSound

LEMMA WriteBackCellApart ==
  ASSUME TypeOK, RegionSound, NEW a \in Cells, WriteBackCell(a)
  PROVE  RegionSound' /\ \A u \in Writers : Apart(u) => Apart(u)'
<1>1. UNCHANGED <<dir, data, ddir, pc, slot, ent, pos, same>>
  BY DEF WriteBackCell, region, locals
<1>2. \A b \in Cells : ddata'[b] = ddata[b] \/ ddata'[b] = data[b]
  BY DEF WriteBackCell, TypeOK
<1>3. ASSUME NEW e \in Entry, Fits(e), IntactTwice(e)
      PROVE  Intact(data', e) /\ Intact(ddata', e)
  <2>1. \A p \in 0 .. Size[e.val] - 1 : p % 64 = 0 => e.off + p \in Cells
    BY <1>3, CellsOfEntry
  <2>2. Intact(ddata', e)
    BY <1>2, <1>3, <2>1 DEF IntactTwice, Intact
  <2> QED BY <1>1, <1>3, <2>2 DEF IntactTwice
<1>4. ActiveSound'
  BY <1>1, <1>3 DEF RegionSound, ActiveSound, IntactTwice, WellFormed, TypeOK
<1>5. CopiesApart'
  BY <1>1 DEF RegionSound, CopiesApart, Copies
<1>6. ASSUME NEW u \in Writers, Apart(u) PROVE Apart(u)'
  <2>1. Planned(u)'
    BY <1>1, <1>6 DEF Apart, Planned, Copies
  <2>2. pc[u] = "putActive" => IntactTwice(ent[u])'
    <3>1. pc[u] = "putActive" => /\ ent[u] \in Entry /\ Fits(ent[u]) /\ IntactTwice(ent[u])
      BY <1>6 DEF Apart, Progress, Planned, WriteSteps, TypeOK
    <3>2. pc[u] = "putActive" => Intact(data', ent[u]) /\ Intact(ddata', ent[u])
      BY <1>3, <3>1
    <3> QED BY <1>1, <3>2 DEF IntactTwice
  <2>3. Progress(u)'
    BY <1>1, <1>6, <2>2 DEF Apart, Progress
  <2> QED BY <2>1, <2>3 DEF Apart
<1> QED BY <1>4, <1>5, <1>6 DEF RegionSound

\* What survives a power loss: entries of the disk, and the contents beside the
\* ACTIVE ones, none of which was being written.
LEMMA PowerLossApart ==
  ASSUME TypeOK, RegionSound, PowerLoss
  PROVE  RegionSound' /\ \A u \in Writers : Apart(u)'
<1>1. PICK S \in SUBSET {s \in Slots : ddir[s] # dir[s]},
           A \in SUBSET {a \in Cells : ddata[a] # data[a]} :
        /\ dir' = [s \in Slots |-> IF s \in S THEN Torn ELSE ddir[s]]
        /\ data' = [a \in Cells |-> IF a \in A THEN Junk ELSE ddata[a]]
        /\ ddir' = dir'
        /\ ddata' = data'
        /\ lock' = NoProcess
        /\ Stop(Writers)
        /\ UNCHANGED allowed
  BY DEF PowerLoss
<1>2. \A s \in Slots : /\ dir'[s] = ddir[s] \/ dir'[s] = Torn
                       /\ Copies(s)' = {dir'[s]}
  BY <1>1 DEF Copies
<1>3. ASSUME NEW e \in Entry, Fits(e), IntactTwice(e) PROVE Intact(data', e)
  <2>1. ASSUME NEW p \in 0 .. Size[e.val] - 1, p % 64 = 0
        PROVE  data'[e.off + p] = ddata[e.off + p]
    <3>1. e.off + p \in Cells
      BY <1>3, <2>1, CellsOfEntry
    <3>2. data[e.off + p] = ddata[e.off + p]
      BY <1>3, <2>1 DEF IntactTwice, Intact
    <3> QED BY <1>1, <3>1, <3>2
  <2> QED BY <1>3, <2>1, IntactFrame DEF IntactTwice
<1>4. ASSUME NEW s \in Slots, dir'[s].state = "active"
      PROVE  WellFormed(dir'[s]) /\ Intact(data', dir'[s]) /\ dir'[s] = ddir[s]
  <2>1. dir'[s] = ddir[s]
    BY <1>2, <1>4, BlankFacts
  <2>2. WellFormed(ddir[s]) /\ IntactTwice(ddir[s]) /\ ddir[s] \in Entry
    BY <1>4, <2>1 DEF RegionSound, ActiveSound, TypeOK
  <2> QED BY <1>3, <2>1, <2>2 DEF WellFormed
<1>5. ActiveSound'
  BY <1>1, <1>4, BlankFacts DEF ActiveSound, IntactTwice, SameExtent
<1>6. CopiesApart'
  BY <1>2, BlankFacts DEF RegionSound, CopiesApart, Copies
<1>7. ASSUME NEW u \in Writers PROVE Apart(u)'
  BY <1>1, OutsideStages DEF Stop, Forget, WriteSteps, DeleteSteps
<1> QED BY <1>5, <1>6, <1>7 DEF RegionSound

-----------------------------------------------------------------------------
(***************************************************************************)
(* The inductive invariant.                                                *)
(***************************************************************************)
Strong == Typed /\ RegionSound /\ LockHeld /\ \A w \in Writers : Apart(w)

LEMMA StrongIsIInv == Strong <=> IInv
  BY DEF Strong, IInv, Typed, RegionSound, Apart

LEMMA InitStrong == Init => Strong
<1> SUFFICES ASSUME Init PROVE Strong
  OBVIOUS
<1>1. Typed
  BY InitTyped
<1>2. RegionSound
  BY BlankFacts DEF Init, RegionSound, ActiveSound, CopiesApart, Copies
<1>3. LockHeld /\ \A w \in Writers : Apart(w)
  BY DEF Init, LockHeld, Inside, Apart, Planned, Progress, WriteSteps, DeleteSteps
<1> QED BY <1>1, <1>2, <1>3 DEF Strong

\* While one writer is inside, the others have chosen no entry.
LEMMA OtherWriter ==
  ASSUME OneWriterPerProcess, Strong, NEW w \in Writers, NEW u \in Writers, u # w,
         Inside(w), pc'[u] = pc[u], pos'[u] = pos[u]
  PROVE  Apart(u)'
<1>1. pc[u] \in {"idle", "lock"}
  BY AloneInside DEF Strong, Inside
<1>2. pos[u] = 0
  BY <1>1 DEF Strong, Apart, Progress
<1> QED BY <1>1, <1>2, OutsideStages DEF WriteSteps, DeleteSteps

\* Steps that write nothing: a call begins, waits, is refused, or ends.
LEMMA IdleStep ==
  ASSUME Strong, UNCHANGED <<dir, data, ddir, ddata>>, NEW W,
         \A w \in Writers : w \in W => /\ pc'[w] \in {"idle", "lock", "plan", "ok", "failed"}
                                       /\ pc'[w] \in {"idle", "lock", "plan"} => pos'[w] = 0,
         \A w \in Writers : w \notin W =>
           /\ pc'[w] = pc[w] /\ slot'[w] = slot[w] /\ ent'[w] = ent[w]
           /\ pos'[w] = pos[w] /\ same'[w] = same[w]
  PROVE  RegionSound' /\ \A u \in Writers : Apart(u)'
<1>1. RegionSound'
  BY RegionFrame DEF Strong, RegionSound
<1>2. ASSUME NEW u \in Writers PROVE Apart(u)'
  <2>1. CASE u \in W
    <3>1. pc'[u] \notin WriteSteps \cup DeleteSteps
      BY <2>1 DEF WriteSteps, DeleteSteps
    <3> QED BY <2>1, <3>1, OutsideStages
  <2>2. CASE u \notin W
    BY <2>2, WriterFrame DEF Strong
  <2> QED BY <2>1, <2>2
<1> QED BY <1>1, <1>2

LEMMA QuietStep ==
  ASSUME Strong, NEW w \in Writers, UNCHANGED <<dir, data, ddir, ddata, slot, ent, pos, same>>,
         pc[w] \in {"idle", "lock", "plan"}, NEW step \in {"lock", "plan", "failed"},
         pc' = [pc EXCEPT ![w] = step]
  PROVE  RegionSound' /\ \A u \in Writers : Apart(u)'
<1>1. pos'[w] = 0 /\ pc'[w] = step
  BY DEF Strong, Typed, TypeOK, Apart, Progress
<1>2. \A u \in Writers : u # w =>
         /\ pc'[u] = pc[u] /\ slot'[u] = slot[u] /\ ent'[u] = ent[u]
         /\ pos'[u] = pos[u] /\ same'[u] = same[u]
  BY DEF Strong, Typed, TypeOK
<1>3. pc'[w] \notin WriteSteps \cup DeleteSteps
  BY <1>1 DEF WriteSteps, DeleteSteps
<1>4. \A u \in Writers : u # w => Apart(u)'
  BY <1>2, WriterFrame DEF Strong
<1>5. Apart(w)'
  BY <1>1, <1>3, OutsideStages
<1> QED BY <1>4, <1>5, RegionFrame DEF Strong, RegionSound

LEMMA StepApart ==
  ASSUME OneWriterPerProcess, Strong, NEW w \in Writers, Step(w) \/ Begin(w) \/ OpenFails(w)
  PROVE  RegionSound' /\ \A u \in Writers : Apart(u)'
<1>1. TypeOK /\ RegionSound /\ Asked(w) /\ Apart(w)
  BY DEF Strong, Typed
<1>3. CASE Begin(w)
  <2>1. CASE \E k \in Keys, v \in Values, c \in Capacities \cup {0} : BeginWrite(w, k, v, c)
    <3>1. /\ UNCHANGED <<dir, data, ddir, ddata, slot, ent, pos, same>> /\ pc[w] = "idle"
          /\ pc' = [pc EXCEPT ![w] = "lock"]
      BY <2>1 DEF BeginWrite, region, disk, Goto
    <3> QED BY <3>1, QuietStep
  <2>2. CASE \E k \in Keys : BeginDelete(w, k)
    <3>1. /\ UNCHANGED <<dir, data, ddir, ddata, slot, ent, pos, same>> /\ pc[w] = "idle"
          /\ pc' = [pc EXCEPT ![w] = "lock"]
      BY <2>2 DEF BeginDelete, region, disk, Goto
    <3> QED BY <3>1, QuietStep
  <2> QED BY <1>3, <2>1, <2>2 DEF Begin
<1>4. CASE OpenFails(w) \/ Return(w)
  <2>1. /\ UNCHANGED <<dir, data, ddir, ddata>>
        /\ Forget({w})
        /\ pc' = [pc EXCEPT ![w] = "idle"]
    BY <1>4 DEF OpenFails, Return, region, disk, Goto
  <2>2. /\ pc'[w] = "idle" /\ pos'[w] = 0
        /\ \A u \in Writers : u # w =>
             /\ pc'[u] = pc[u] /\ slot'[u] = slot[u] /\ ent'[u] = ent[u]
             /\ pos'[u] = pos[u] /\ same'[u] = same[u]
    BY <1>1, <2>1 DEF Forget, TypeOK
  <2> QED BY <2>1, <2>2, IdleStep
<1>5. CASE Lock(w) \/ PlanRefuse(w)
  <2>1. /\ UNCHANGED <<dir, data, ddir, ddata, slot, ent, pos, same>>
        /\ pc[w] \in {"lock", "plan"}
        /\ pc' = [pc EXCEPT ![w] = "plan"] \/ pc' = [pc EXCEPT ![w] = "failed"]
    BY <1>5 DEF Lock, PlanRefuse, region, disk, locals, Goto
  <2> QED BY <2>1, QuietStep
<1>6. CASE PlanReplace(w) \/ PlanCreate(w) \/ PlanDelete(w)
  <2>1. /\ UNCHANGED <<dir, data, ddir, ddata, pos>> /\ Inside(w)
        /\ \A u \in Writers : u # w => pc'[u] = pc[u]
    BY <1>1, <1>6 DEF PlanReplace, PlanCreate, PlanDelete, Choose, Goto, region, disk, Inside, TypeOK
  <2>2. RegionSound'
    BY <2>1, RegionFrame DEF Strong, RegionSound
  <2>3. Apart(w)'
    BY <1>1, <1>6, PlanReplaceApart, PlanCreateApart, PlanDeleteApart DEF RegionSound
  <2> QED BY <2>1, <2>2, <2>3, OtherWriter
<1>7. CASE \/ PutWriting(w) \/ PutDeleting(w) \/ PutActive(w) \/ ClearSlot(w) \/ Syncs(w)
           \/ CopyChunk(w) \/ CopyFails(w) \/ CopyDone(w)
  <2>1. Inside(w) /\ \A u \in Writers : u # w => pc'[u] = pc[u] /\ pos'[u] = pos[u]
    BY <1>1, <1>7
    DEF PutWriting, PutDeleting, PutActive, ClearSlot, PutSlot, Syncs, SyncWriting, SyncData,
        SyncActive, SyncDeleting, SyncClear, Flush, CopyChunk, CopyFails, CopyDone,
        Goto, locals, Inside, TypeOK
  <2>2. RegionSound' /\ Apart(w)'
    BY <1>1, <1>7, PutEntryApart, PutActiveApart, ClearSlotApart, SyncApart, CopyApart
  <2> QED BY <2>1, <2>2, OtherWriter
<1> QED BY <1>3, <1>4, <1>5, <1>6, <1>7 DEF Step, Syncs

LEMMA StrongInductive ==
  ASSUME OneWriterPerProcess
  PROVE  Strong /\ [Next]_vars => Strong'
<1> SUFFICES ASSUME Strong, [Next]_vars PROVE Strong'
  OBVIOUS
<1>1. Typed'
  BY TypedInductive DEF Strong
<1>2. CASE Next
  <2>1. LockHeld'
    BY <1>2, LockStep DEF Strong, Typed
  <2>2. RegionSound' /\ \A u \in Writers : Apart(u)'
    <3>1. ASSUME NEW p \in Processes, Kill(p) PROVE RegionSound' /\ \A u \in Writers : Apart(u)'
      <4> DEFINE W == {w \in Writers : ProcessOf[w] = p}
      <4>1. UNCHANGED <<dir, data, ddir, ddata>> /\ Stop(W)
        BY <3>1 DEF Kill, region, disk
      <4> HIDE DEF W
      <4> QED BY <4>1, IdleStep DEF Stop, Forget
    <3>2. CASE PowerLoss
      BY <3>2, PowerLossApart DEF Strong, Typed
    <3>3. ASSUME NEW s \in Slots, WriteBackSlot(s)
          PROVE  RegionSound' /\ \A u \in Writers : Apart(u)'
      BY <3>3, WriteBackSlotApart DEF Strong, Typed
    <3>4. ASSUME NEW a \in Cells, WriteBackCell(a)
          PROVE  RegionSound' /\ \A u \in Writers : Apart(u)'
      BY <3>4, WriteBackCellApart DEF Strong, Typed
    <3> QED BY <1>2, <3>1, <3>2, <3>3, <3>4, StepApart DEF Next, Environment
  <2> QED BY <1>1, <2>1, <2>2 DEF Strong
<1>3. CASE UNCHANGED vars
  <2>1. RegionSound' /\ \A u \in Writers : Apart(u)'
    BY <1>3, RegionFrame, WriterFrame DEF vars, Strong, RegionSound
  <2>2. LockHeld'
    BY <1>3 DEF vars, Strong, LockHeld, Inside
  <2> QED BY <1>1, <2>1, <2>2 DEF Strong
<1> QED BY <1>2, <1>3

-----------------------------------------------------------------------------
(***************************************************************************)
(* The theorems.                                                           *)
(***************************************************************************)
\* The inductive invariant holds of every behaviour in which no two threads of
\* one process write: the lock of mutable_write.c excludes processes.
THEOREM Inductive == OneWriterPerProcess => (Spec => []IInv)
<1> SUFFICES ASSUME OneWriterPerProcess PROVE Spec => []IInv
  OBVIOUS
<1>1. Strong /\ [Next]_vars => Strong'
  BY StrongInductive
<1>2. Strong => IInv
  BY StrongIsIInv
<1> QED BY <1>1, <1>2, InitStrong, PTL DEF Spec

\* The commit point: whatever a kill, an error or a power loss interrupts, an
\* ACTIVE entry in the page cache or on the disk stands beside its own content.
THEOREM CommitsAreIntact == OneWriterPerProcess => (Spec => []ActiveIntact)
<1> SUFFICES ASSUME OneWriterPerProcess PROVE Spec => []ActiveIntact
  OBVIOUS
<1>1. IInv => ActiveIntact
  BY DEF IInv, ActiveSound, IntactTwice, ActiveIntact
<1> QED BY <1>1, Inductive, PTL

\* No ACTIVE object's extent is given to another entry, in the page cache or on
\* the disk, by any sequence of calls and failures.
THEOREM ExtentsStayApart == OneWriterPerProcess => (Spec => []ActiveApart)
<1> SUFFICES ASSUME OneWriterPerProcess PROVE Spec => []ActiveApart
  OBVIOUS
<1>1. IInv => ActiveApart
  BY DEF IInv, CopiesApart, Copies, ActiveApart
<1> QED BY <1>1, Inductive, PTL

-----------------------------------------------------------------------------
(***************************************************************************)
(* The pairwise pass over the directory, for any number of slots.          *)
(***************************************************************************)
TurnsBelow(d, n, turns) ==
  \A s \in Slots : s < n => (s \in turns <=> Unmarked(d, turns, s, s))

\* One slot after the other is found usable at its turn, or not.
LEMMA TurnsExist ==
  ASSUME NEW d, NEW n \in Nat
  PROVE  \E turns \in SUBSET {s \in Slots : s < n} : TurnsBelow(d, n, turns)
<1> DEFINE Good(k) == \E turns \in SUBSET {s \in Slots : s < k} : TurnsBelow(d, k, turns)
           Bad == {k \in Nat : ~Good(k)}
<1> SUFFICES ASSUME Bad # {} PROVE FALSE
  OBVIOUS
<1>1. PICK m \in Bad : \A k \in Bad : m <= k
  <2> HIDE DEF Bad
  <2>1. Bad \in SUBSET Nat
    BY DEF Bad
  <2> QED BY <2>1, LeastNatural
<1>2. Good(0)
  <2>1. TurnsBelow(d, 0, {})
    BY DEF TurnsBelow, Slots
  <2> QED BY <2>1
<1>3. m \in Nat /\ m # 0 /\ m - 1 \in Nat /\ Good(m - 1)
  <2>1. m \in Nat /\ m # 0
    BY <1>1, <1>2
  <2>2. m - 1 \in Nat /\ m - 1 < m
    BY <2>1
  <2> QED BY <1>1, <2>1, <2>2
<1>4. PICK before \in SUBSET {s \in Slots : s < m - 1} : TurnsBelow(d, m - 1, before)
  BY <1>3
<1> DEFINE turns == before \cup {s \in Slots : s = m - 1 /\ Unmarked(d, before, s, s)}
<1>5. ASSUME NEW s \in Slots, s < m PROVE Unmarked(d, turns, s, s) <=> Unmarked(d, before, s, s)
  <2>1. \A t \in turns : t < s => t \in before
    BY <1>3, <1>5 DEF Slots
  <2> QED BY <2>1 DEF Unmarked
<1>6. ASSUME NEW s \in Slots, s < m PROVE s \in turns <=> Unmarked(d, turns, s, s)
  <2>1. CASE s < m - 1
    BY <1>3, <1>4, <1>5, <2>1 DEF TurnsBelow, Slots
  <2>2. CASE s = m - 1
    <3>1. s \notin before
      BY <1>3, <2>2 DEF Slots
    <3> QED BY <1>5, <1>6, <2>2, <3>1
  <2> QED BY <1>3, <1>6, <2>1, <2>2 DEF Slots
<1>7. turns \in SUBSET {s \in Slots : s < m}
  <2>1. \A s \in turns : s \in Slots /\ s <= m - 1
    BY <1>3 DEF Slots
  <2>2. \A s \in Slots : s <= m - 1 => s < m
    BY <1>3 DEF Slots
  <2> QED BY <2>1, <2>2
<1>8. TurnsBelow(d, m, turns)
  BY <1>6 DEF TurnsBelow
<1> QED BY <1>1, <1>7, <1>8

\* So the slots that reach their turn usable are well defined.
LEMMA TurnsDefined ==
  ASSUME NEW d
  PROVE  /\ ReachTurn(d) \subseteq {s \in Slots : WellFormed(d[s])}
         /\ \A s \in Slots : s \in ReachTurn(d) <=> Unmarked(d, ReachTurn(d), s, s)
<1>1. NumSlots \in Nat /\ \A s \in Slots : s < NumSlots
  BY RegionAssumption DEF Slots
<1>2. PICK turns \in SUBSET {s \in Slots : s < NumSlots} : TurnsBelow(d, NumSlots, turns)
  BY <1>1, TurnsExist
<1>3. \A s \in Slots : s \in turns <=> Unmarked(d, turns, s, s)
  BY <1>1, <1>2 DEF TurnsBelow
<1>4. turns \in SUBSET {s \in Slots : WellFormed(d[s])}
  BY <1>2, <1>3 DEF Unmarked
<1> QED BY <1>3, <1>4 DEF ReachTurn

\* What the parser calls usable is what its pairwise pass keeps: where nothing
\* conflicts, the pass keeps every well-formed slot.
LEMMA UsableIsKept ==
  ASSUME NEW d
  PROVE  Usable(d) = Kept(d)
<1> DEFINE sound == {s \in Slots : WellFormed(d[s])}
<1>1. CASE \E s, t \in sound : s < t /\ Conflict(d[s], d[t])
  BY <1>1 DEF Usable
<1>2. CASE \A s, t \in sound : s < t => ~Conflict(d[s], d[t])
  <2>1. Usable(d) = sound
    BY <1>2 DEF Usable
  <2>2. /\ ReachTurn(d) \subseteq sound
        /\ \A s \in Slots : s \in ReachTurn(d) <=> Unmarked(d, ReachTurn(d), s, s)
    BY TurnsDefined, Zenon
  <2>3. \A s \in sound : Unmarked(d, ReachTurn(d), s, s)
    BY <1>2, <2>2 DEF Unmarked
  <2>4. \A s \in sound, t \in Slots : t > s /\ Unmarked(d, ReachTurn(d), s, t) => ~Conflict(d[s], d[t])
    BY <1>2 DEF Unmarked, Slots
  <2>5. \A s \in Slots : Unmarked(d, ReachTurn(d), s, s) => s \in sound
    BY DEF Unmarked
  <2>6. Kept(d) = sound
    BY <2>3, <2>4, <2>5 DEF Kept
  <2> QED BY <2>1, <2>6
<1> QED BY <1>1, <1>2, Zenon

\* An entry that conflicts with no other is usable, whatever the others are.
LEMMA UsableAlone ==
  ASSUME NEW d, NEW s \in Slots, WellFormed(d[s]),
         \A t \in Slots : t # s /\ WellFormed(d[t]) =>
           ~Conflict(d[s], d[t]) /\ ~Conflict(d[t], d[s])
  PROVE  s \in Usable(d)
<1>1. \A t \in ReachTurn(d) : t \in Slots /\ WellFormed(d[t])
  BY TurnsDefined
<1>2. Unmarked(d, ReachTurn(d), s, s)
  BY <1>1 DEF Unmarked, Slots
<1>3. \A t \in Slots : t > s /\ Unmarked(d, ReachTurn(d), s, t) => ~Conflict(d[s], d[t])
  BY DEF Unmarked, Slots
<1> QED BY <1>2, <1>3, UsableIsKept DEF Kept

-----------------------------------------------------------------------------
(***************************************************************************)
(* The inductive invariant behind KeepsPromises: where the entries of an   *)
(* object stand, and which contents may be served.                         *)
(***************************************************************************)
IsOf(e, o) == e.key \in Keys /\ Fold[e.key] = o
ActiveOf(e, o) == e.state = "active" /\ IsOf(e, o)

\* The ACTIVE copies of an object stand in one slot, and what replaces one of
\* them there is of the same object.
OneSlotEach ==
  \A o \in Objects :
    /\ \A s, t \in Slots : s # t =>
         \A e \in Copies(s), f \in Copies(t) : ~(ActiveOf(e, o) /\ ActiveOf(f, o))
    /\ \A s \in Slots : ActiveOf(ddir[s], o) /\ dir[s].state \in EntryStates => IsOf(dir[s], o)

\* What is ACTIVE may be served.
ActiveAllowed ==
  \A o \in Objects, s \in Slots : \A e \in Copies(s) : ActiveOf(e, o) => e.val \in allowed[o]

\* While an object must be there, it is, and nothing about it is on its way to
\* the disk.
Settled ==
  \A o \in Objects : NoVal \notin allowed[o] =>
    /\ \E s \in Slots : dir[s] = ddir[s] /\ ActiveOf(dir[s], o)
    /\ \A s \in Slots : IsOf(dir[s], o) \/ IsOf(ddir[s], o) => dir[s] = ddir[s]

Promised == OneSlotEach /\ ActiveAllowed /\ Settled

\* What a call has made of its object at each step ...
Committing(w) ==
  pc[w] \in WriteSteps \cup DeleteSteps =>
    /\ ent[w].key = req[w].key
    /\ pc[w] \in WriteSteps => req[w].kind = "write" /\ ent[w].val = req[w].val
    /\ pc[w] \in DeleteSteps => req[w].kind = "delete"
    /\ \A t \in Slots \ {slot[w]} : ~ActiveOf(dir[t], Target(w))
    /\ \A o \in Objects :
         IsOf(dir[slot[w]], o) \/ ActiveOf(ddir[slot[w]], o) => o = Target(w)
    /\ pc[w] \notin {"putWriting", "putDeleting"} =>
         {NoVal, req[w].val} \subseteq allowed[Target(w)]
    /\ pc[w] = "syncActive" =>
         ActiveOf(dir[slot[w]], Target(w)) /\ dir[slot[w]].val = req[w].val
    /\ pc[w] = "syncClear" => dir[slot[w]] = Free

\* ... and when it is about to return ROMX_OK.
Committed(w) ==
  pc[w] = "ok" =>
    /\ ddir = dir
    /\ req[w].kind = "write" => \E s \in Slots : ActiveOf(dir[s], Target(w))
    /\ \A s \in Slots : ActiveOf(dir[s], Target(w)) =>
         req[w].kind = "write" /\ dir[s].val = req[w].val

Withdraws(w) == pc[w] # "idle" /\ req[w].kind = "delete" => req[w].val = NoVal

Call(w) == Committing(w) /\ Committed(w) /\ Withdraws(w)

PInv == Promised /\ \A w \in Writers : Call(w)

-----------------------------------------------------------------------------
LEMMA BlankIsOfNone == \A o : ~IsOf(Free, o) /\ ~IsOf(Torn, o)
  BY RegionAssumption DEF IsOf, Free, Torn, Blank

LEMMA InitPromised == Init => PInv
<1> SUFFICES ASSUME Init PROVE PInv
  OBVIOUS
<1>1. \A s \in Slots : dir[s] = Free /\ ddir[s] = Free /\ Copies(s) = {Free}
  BY DEF Init, Copies
<1>2. \A s \in Slots : \A e \in Copies(s) : \A o : ~ActiveOf(e, o)
  BY <1>1, BlankIsOfNone DEF ActiveOf
<1>3. OneSlotEach
  BY <1>1, <1>2, BlankIsOfNone DEF OneSlotEach, ActiveOf
<1>4. ActiveAllowed
  BY <1>2 DEF ActiveAllowed
<1>5. Settled
  BY DEF Init, Settled
<1>6. \A w \in Writers : Call(w)
  BY DEF Init, Call, Committing, Committed, Withdraws, WriteSteps, DeleteSteps
<1> QED BY <1>3, <1>4, <1>5, <1>6 DEF PInv, Promised

\* An object may be given more results, never fewer, and one that a call exposes
\* may be missing.
Exposes(o) ==
  /\ NoVal \in allowed'[o]
  /\ \A x \in Objects : allowed[x] \subseteq allowed'[x]
  /\ \A x \in Objects \ {o} : allowed'[x] = allowed[x]

LEMMA PromisedFrame ==
  ASSUME Promised, UNCHANGED <<dir, ddir>>, allowed' = allowed \/ (\E o \in Objects : Exposes(o))
  PROVE  Promised'
<1>1. OneSlotEach'
  BY DEF Promised, OneSlotEach, Copies
<1>2. \A x \in Objects : allowed[x] \subseteq allowed'[x]
  BY DEF Exposes
<1>3. ActiveAllowed'
  BY <1>2 DEF Promised, ActiveAllowed, Copies
<1>4. \A x \in Objects : NoVal \notin allowed'[x] => NoVal \notin allowed[x]
  BY <1>2
<1>5. Settled'
  BY <1>4 DEF Promised, Settled
<1> QED BY <1>1, <1>3, <1>5 DEF Promised

\* The disk takes over slots from the page cache: some, or all.
DiskFollows == \A s \in Slots : ddir'[s] \in {ddir[s], dir[s]}

LEMMA PromisedSync ==
  ASSUME Promised, UNCHANGED <<dir, allowed>>, DiskFollows
  PROVE  Promised'
<1>1. \A s \in Slots : \A e \in Copies(s)' : e \in Copies(s)
  BY DEF Copies, DiskFollows
<1>2. OneSlotEach'
  <2> SUFFICES ASSUME NEW o \in Objects
               PROVE  /\ \A s, t \in Slots : s # t =>
                           \A e \in Copies(s)', f \in Copies(t)' : ~(ActiveOf(e, o) /\ ActiveOf(f, o))
                      /\ \A s \in Slots : ActiveOf(ddir'[s], o) /\ dir[s].state \in EntryStates
                                            => IsOf(dir[s], o)
    BY Zenon DEF OneSlotEach
  <2>1. \A s, t \in Slots : s # t =>
           \A e \in Copies(s)', f \in Copies(t)' : ~(ActiveOf(e, o) /\ ActiveOf(f, o))
    BY <1>1, Zenon DEF Promised, OneSlotEach
  <2>2. ASSUME NEW s \in Slots, ActiveOf(ddir'[s], o), dir[s].state \in EntryStates
        PROVE  IsOf(dir[s], o)
    BY <2>2 DEF Promised, OneSlotEach, DiskFollows, ActiveOf
  <2> QED BY <2>1, <2>2
<1>3. ActiveAllowed'
  BY <1>1, Zenon DEF Promised, ActiveAllowed
<1>4. Settled'
  BY DEF Promised, Settled, DiskFollows
<1> QED BY <1>2, <1>3, <1>4 DEF Promised

\* Replacing the slot a call works on by an entry that is not ACTIVE, while its
\* object may be missing.
LEMMA PromisedPut ==
  ASSUME TypeOK, Promised, NEW w \in Writers, Committing(w), Target(w) \in Objects,
         pc[w] \in WriteSteps \cup DeleteSteps, slot[w] \in Slots,
         NEW e, e.state # "active", e.state \in EntryStates => IsOf(e, Target(w)),
         \A o \in Objects : IsOf(e, o) => o = Target(w),
         dir' = [dir EXCEPT ![slot[w]] = e], ddir' = ddir, Exposes(Target(w))
  PROVE  Promised'
<1> DEFINE s == slot[w]
<1>1. dir'[s] = e /\ \A t \in Slots \ {s} : dir'[t] = dir[t]
  BY DEF TypeOK
<1>2. \A t \in Slots : \A f \in Copies(t)' : \A o : ActiveOf(f, o) => f \in Copies(t)
  BY <1>1 DEF Copies, ActiveOf
<1>3. \A o \in Objects : IsOf(dir[s], o) \/ ActiveOf(ddir[s], o) => o = Target(w)
  BY DEF Committing
<1>4. OneSlotEach'
  <2> SUFFICES ASSUME NEW o \in Objects
               PROVE  /\ \A p, q \in Slots : p # q =>
                           \A x \in Copies(p)', y \in Copies(q)' : ~(ActiveOf(x, o) /\ ActiveOf(y, o))
                      /\ \A t \in Slots : ActiveOf(ddir'[t], o) /\ dir'[t].state \in EntryStates
                                            => IsOf(dir'[t], o)
    BY Zenon DEF OneSlotEach
  <2>1. \A p, q \in Slots : p # q =>
           \A x \in Copies(p)', y \in Copies(q)' : ~(ActiveOf(x, o) /\ ActiveOf(y, o))
    BY <1>2, Zenon DEF Promised, OneSlotEach
  <2>2. ASSUME NEW t \in Slots, ActiveOf(ddir'[t], o), dir'[t].state \in EntryStates
        PROVE  IsOf(dir'[t], o)
    <3>1. CASE t = s
      BY <1>1, <1>3, <2>2, <3>1
    <3>2. CASE t # s
      BY <1>1, <2>2, <3>2 DEF Promised, OneSlotEach
    <3> QED BY <3>1, <3>2
  <2> QED BY <2>1, <2>2
<1>5. ActiveAllowed'
  BY <1>2 DEF Promised, ActiveAllowed, Exposes
<1>6. Settled'
  <2> SUFFICES ASSUME NEW o \in Objects, NoVal \notin allowed'[o]
               PROVE  /\ \E t \in Slots : dir'[t] = ddir[t] /\ ActiveOf(dir'[t], o)
                      /\ \A t \in Slots : IsOf(dir'[t], o) \/ IsOf(ddir[t], o) => dir'[t] = ddir[t]
    BY DEF Settled
  <2>1. o # Target(w) /\ NoVal \notin allowed[o]
    BY DEF Exposes
  <2>2. PICK t \in Slots : dir[t] = ddir[t] /\ ActiveOf(dir[t], o)
    BY <2>1 DEF Promised, Settled
  <2>3. t # s
    BY <1>3, <2>1, <2>2 DEF ActiveOf
  <2>4. ASSUME NEW r \in Slots, IsOf(dir'[r], o) \/ IsOf(ddir[r], o) PROVE dir'[r] = ddir[r]
    <3>1. IsOf(ddir[r], o) => dir[r] = ddir[r]
      BY <2>1 DEF Promised, Settled
    <3>2. r # s
      BY <1>1, <1>3, <2>1, <2>4, <3>1
    <3> QED BY <1>1, <2>1, <2>4, <3>2 DEF Promised, Settled
  <2> QED BY <1>1, <2>2, <2>3, <2>4
<1> QED BY <1>4, <1>5, <1>6 DEF Promised

\* The commit point.
LEMMA PromisedActive ==
  ASSUME TypeOK, Promised, NEW w \in Writers, Committing(w), Target(w) \in Objects,
         pc[w] = "putActive", slot[w] \in Slots, ddir = dir,
         NEW a, ActiveOf(a, Target(w)), a.val = req[w].val,
         dir' = [dir EXCEPT ![slot[w]] = a], UNCHANGED <<ddir, allowed>>
  PROVE  Promised'
<1> DEFINE s == slot[w]
<1>1. dir'[s] = a /\ \A t \in Slots \ {s} : dir'[t] = dir[t]
  BY DEF TypeOK
<1>2. /\ \A t \in Slots \ {s} : ~ActiveOf(dir[t], Target(w))
      /\ \A o \in Objects : IsOf(dir[s], o) => o = Target(w)
      /\ {NoVal, req[w].val} \subseteq allowed[Target(w)]
  BY DEF Committing, WriteSteps
<1>3. \A o : IsOf(a, o) => o = Target(w)
  BY DEF ActiveOf, IsOf
<1>4. \A t \in Slots : \A f \in Copies(t)' : f \in Copies(t) \/ (t = s /\ f = a)
  BY <1>1 DEF Copies
<1>5. \A t \in Slots : Copies(t) = {dir[t]}
  BY DEF Copies
<1>6. OneSlotEach'
  <2> SUFFICES ASSUME NEW o \in Objects
               PROVE  /\ \A p, q \in Slots : p # q =>
                           \A x \in Copies(p)', y \in Copies(q)' : ~(ActiveOf(x, o) /\ ActiveOf(y, o))
                      /\ \A t \in Slots : ActiveOf(ddir'[t], o) /\ dir'[t].state \in EntryStates
                                            => IsOf(dir'[t], o)
    BY Zenon DEF OneSlotEach
  <2>1. ASSUME NEW p \in Slots, NEW q \in Slots, p # q, NEW x \in Copies(p)', NEW y \in Copies(q)',
               ActiveOf(x, o), ActiveOf(y, o)
        PROVE  FALSE
    <3>1. CASE x \in Copies(p) /\ y \in Copies(q)
      BY <2>1, <3>1 DEF Promised, OneSlotEach
    <3>2. CASE p = s /\ x = a
      <4>1. o = Target(w) /\ y = dir[q]
        BY <1>3, <1>4, <1>5, <2>1, <3>2 DEF ActiveOf
      <4> QED BY <1>2, <2>1, <3>2, <4>1
    <3>3. CASE q = s /\ y = a
      <4>1. o = Target(w) /\ x = dir[p]
        BY <1>3, <1>4, <1>5, <2>1, <3>3 DEF ActiveOf
      <4> QED BY <1>2, <2>1, <3>3, <4>1
    <3> QED BY <1>4, <2>1, <3>1, <3>2, <3>3
  <2>2. ASSUME NEW t \in Slots, ActiveOf(ddir'[t], o), dir'[t].state \in EntryStates
        PROVE  IsOf(dir'[t], o)
    BY <1>1, <1>2, <2>2 DEF ActiveOf
  <2> QED BY <2>1, <2>2
<1>7. ActiveAllowed'
  <2> SUFFICES ASSUME NEW o \in Objects, NEW t \in Slots, NEW f \in Copies(t)', ActiveOf(f, o)
               PROVE  f.val \in allowed[o]
    BY DEF ActiveAllowed
  <2> QED BY <1>2, <1>3, <1>4 DEF Promised, ActiveAllowed, ActiveOf
<1>8. Settled'
  <2> SUFFICES ASSUME NEW o \in Objects, NoVal \notin allowed[o]
               PROVE  /\ \E t \in Slots : dir'[t] = ddir[t] /\ ActiveOf(dir'[t], o)
                      /\ \A t \in Slots : IsOf(dir'[t], o) \/ IsOf(ddir[t], o) => dir'[t] = ddir[t]
    BY DEF Settled
  <2>1. o # Target(w)
    BY <1>2
  <2>2. PICK t \in Slots : ActiveOf(dir[t], o)
    BY DEF Promised, Settled
  <2>3. t # s /\ ~IsOf(dir[s], o) /\ ~IsOf(a, o)
    BY <1>2, <1>3, <2>1, <2>2 DEF ActiveOf
  <2> QED BY <1>1, <2>2, <2>3
<1> QED BY <1>6, <1>7, <1>8 DEF Promised

-----------------------------------------------------------------------------
(***************************************************************************)
(* What a call has made of its object, step by step.                       *)
(***************************************************************************)
LEMMA CallOutside ==
  ASSUME NEW u \in Writers, pc'[u] \notin WriteSteps \cup DeleteSteps \cup {"ok"}, Withdraws(u)'
  PROVE  Call(u)'
  BY DEF Call, Committing, Committed

LEMMA CallFrame ==
  ASSUME NEW u \in Writers, Call(u), UNCHANGED <<dir, ddir>>,
         pc'[u] = pc[u], req'[u] = req[u], slot'[u] = slot[u], ent'[u] = ent[u],
         \A x \in Objects : allowed[x] \subseteq allowed'[x],
         pc[u] # "idle" => Target(u) \in Objects
  PROVE  Call(u)'
<1>1. Target(u)' = Target(u)
  BY DEF Target
<1>2. Committing(u)'
  BY <1>1 DEF Call, Committing, WriteSteps, DeleteSteps
<1>3. Committed(u)' /\ Withdraws(u)'
  BY <1>1 DEF Call, Committed, Withdraws
<1> QED BY <1>2, <1>3 DEF Call

\* A call knows its object.
LEMMA TargetIsObject ==
  ASSUME NEW w \in Writers, Asked(w), pc[w] # "idle"
  PROVE  Target(w) \in Objects /\ req[w].key \in Keys
  BY RequestFields, RegionAssumption DEF Asked, Target

\* The slot found for a key is of the key's object, and the only ACTIVE one.
LEMMA CurrentIsOnly ==
  ASSUME TypeOK, Promised, NEW w \in Writers, Target(w) \in Objects, Found(w) # {}
  PROVE  /\ Current(w) \in Slots /\ ActiveOf(dir[Current(w)], Target(w))
         /\ \A t \in Slots \ {Current(w)} : ~ActiveOf(dir[t], Target(w))
         /\ \A o \in Objects : IsOf(dir[Current(w)], o) \/ ActiveOf(ddir[Current(w)], o)
                                 => o = Target(w)
<1> DEFINE s == Current(w)
<1>1. s \in Found(w)
  BY DEF Current
<1>2. s \in Slots /\ WellFormed(dir[s]) /\ dir[s].state = "active" /\ Fold[dir[s].key] = Target(w)
  BY <1>1, UsableWellFormed DEF Found, Holding
<1> HIDE DEF s
<1>3. ActiveOf(dir[s], Target(w))
  BY <1>2 DEF ActiveOf, IsOf, WellFormed, Fits
<1>4. \A t \in Slots \ {s} : ~ActiveOf(dir[t], Target(w))
  BY <1>2, <1>3 DEF Promised, OneSlotEach, Copies
<1>5. \A o \in Objects : ActiveOf(ddir[s], o) => IsOf(dir[s], o)
  BY <1>2 DEF Promised, OneSlotEach, EntryStates
<1>6. \A o : IsOf(dir[s], o) => o = Target(w)
  BY <1>2 DEF IsOf
<1> QED BY <1>2, <1>3, <1>4, <1>5, <1>6 DEF s

LEMMA PlanCall ==
  ASSUME TypeOK, ActiveSound, Promised, NEW w \in Writers, Asked(w), Withdraws(w),
         PlanReplace(w) \/ PlanCreate(w) \/ PlanDelete(w)
  PROVE  Call(w)'
<1>1. pc[w] = "plan" /\ UNCHANGED <<dir, ddir, req, allowed>>
  BY DEF PlanReplace, PlanCreate, PlanDelete, region, disk
<1>2. Target(w) \in Objects /\ Target(w)' = Target(w)
  BY <1>1, TargetIsObject DEF Target
<1>3. ASSUME NEW s \in Slots, slot'[w] = s,
             \A t \in Slots \ {s} : ~ActiveOf(dir[t], Target(w)),
             \A o \in Objects : IsOf(dir[s], o) \/ ActiveOf(ddir[s], o) => o = Target(w),
             ent'[w].key = req[w].key,
             \/ pc'[w] = "putWriting" /\ req[w].kind = "write" /\ ent'[w].val = req[w].val
             \/ pc'[w] = "putDeleting" /\ req[w].kind = "delete"
      PROVE  Call(w)'
  <2>1. Committing(w)'
    BY <1>1, <1>2, <1>3 DEF Committing, WriteSteps, DeleteSteps
  <2>2. Committed(w)' /\ Withdraws(w)'
    BY <1>1, <1>3 DEF Committed, Withdraws
  <2> QED BY <2>1, <2>2 DEF Call
<1>4. CASE PlanReplace(w)
  <2> DEFINE old == dir[Current(w)]
             new == NewEntry(w, "writing", old.off, old.cap, NextGen(old.gen))
  <2>1. /\ Found(w) # {} /\ req[w].kind = "write"
        /\ slot'[w] = Current(w) /\ ent'[w] = new /\ pc'[w] = "putWriting"
    BY <1>4 DEF PlanReplace, MayReplace, Choose, Goto, TypeOK
  <2>2. new.key = req[w].key /\ new.val = req[w].val
    BY DEF NewEntry
  <2> HIDE DEF new
  <2> QED BY <1>2, <1>3, <2>1, <2>2, CurrentIsOnly
<1>5. CASE PlanDelete(w)
  <2> DEFINE old == dir[Current(w)]
             new == [old EXCEPT !.state = "deleting", !.key = req[w].key, !.gen = NextGen(old.gen)]
  <2>1. /\ Found(w) # {} /\ req[w].kind = "delete"
        /\ slot'[w] = Current(w) /\ ent'[w] = new /\ pc'[w] = "putDeleting"
    BY <1>5 DEF PlanDelete, Choose, Goto, TypeOK
  <2>2. new.key = req[w].key
    <3>1. old \in Entry
      BY <1>2, <2>1, CurrentIsOnly DEF TypeOK
    <3> QED BY <3>1 DEF Entry
  <2> HIDE DEF new
  <2> QED BY <1>2, <1>3, <2>1, <2>2, CurrentIsOnly
<1>6. CASE PlanCreate(w)
  <2> DEFINE s == FirstFree
             new == NewEntry(w, "writing", FirstFit(dir, NewCapacity(w)), NewCapacity(w), 1)
  <2>1. /\ Found(w) = {} /\ ~Degraded(dir) /\ req[w].kind = "write"
        /\ slot'[w] = s /\ ent'[w] = new /\ pc'[w] = "putWriting"
    BY <1>6 DEF PlanCreate, MayCreate, Choose, Goto, TypeOK
  <2>2. s \in Slots /\ dir[s] = Free
    BY <1>6, FirstFreeIsFree DEF PlanCreate, MayCreate
  <2>3. new.key = req[w].key /\ new.val = req[w].val
    BY DEF NewEntry
  <2>4. \A o \in Objects : ~IsOf(dir[s], o) /\ ~ActiveOf(ddir[s], o)
    BY <2>2, BlankIsOfNone DEF ActiveSound, ActiveOf
  <2>5. ASSUME NEW t \in Slots, ActiveOf(dir[t], Target(w)) PROVE FALSE
    <3>1. WellFormed(dir[t])
      BY <2>5 DEF ActiveSound, ActiveOf
    <3>2. t \in Usable(dir)
      BY <2>1, <3>1, UsableWhenValid DEF TypeOK
    <3>3. t \in Found(w)
      BY <2>5, <3>2 DEF Found, Holding, ActiveOf, IsOf
    <3> QED BY <2>1, <3>3
  <2> HIDE DEF s, new
  <2> QED BY <1>3, <2>1, <2>2, <2>3, <2>4, <2>5
<1> QED BY <1>4, <1>5, <1>6

\* A slot write and the call that makes it.
LEMMA PutCall ==
  ASSUME TypeOK, NEW w \in Writers, Call(w), slot[w] \in Slots, Target(w) \in Objects,
         <<pc[w], pc'[w]>> \in {<<"putWriting", "syncWriting">>, <<"putActive", "syncActive">>,
                                <<"putDeleting", "syncDeleting">>, <<"clear", "syncClear">>},
         NEW e, \A o \in Objects : IsOf(e, o) => o = Target(w),
         pc[w] = "putActive" => ActiveOf(e, Target(w)) /\ e.val = req[w].val,
         pc[w] = "clear" => e = Free,
         dir' = [dir EXCEPT ![slot[w]] = e], UNCHANGED <<ddir, req, slot, ent>>,
         {NoVal, req[w].val} \subseteq allowed'[Target(w)]
  PROVE  Call(w)'
<1>1. dir'[slot[w]] = e /\ \A t \in Slots \ {slot[w]} : dir'[t] = dir[t]
  BY DEF TypeOK
<1>2. Target(w)' = Target(w)
  BY DEF Target
<1>3. pc[w] \in WriteSteps \cup DeleteSteps
  BY DEF WriteSteps, DeleteSteps
<1>4. /\ ent[w].key = req[w].key
      /\ pc[w] \in WriteSteps => req[w].kind = "write" /\ ent[w].val = req[w].val
      /\ pc[w] \in DeleteSteps => req[w].kind = "delete"
      /\ \A t \in Slots \ {slot[w]} : ~ActiveOf(dir[t], Target(w))
      /\ \A o \in Objects : ActiveOf(ddir[slot[w]], o) => o = Target(w)
  BY <1>3 DEF Call, Committing
<1>5. /\ pc'[w] \in WriteSteps => pc[w] \in WriteSteps
      /\ pc'[w] \in DeleteSteps => pc[w] \in DeleteSteps
      /\ pc'[w] = "syncActive" => pc[w] = "putActive"
      /\ pc'[w] = "syncClear" => pc[w] = "clear"
      /\ pc'[w] # "ok" /\ pc[w] # "idle"
  BY DEF WriteSteps, DeleteSteps
<1>6. Committing(w)'
  BY <1>1, <1>2, <1>4, <1>5 DEF Committing
<1>7. Committed(w)' /\ Withdraws(w)'
  BY <1>5 DEF Committed, Call, Withdraws
<1> QED BY <1>6, <1>7 DEF Call

\* A slot write that fails, and the call with it.
LEMMA PutFailsPromised ==
  ASSUME TypeOK, Promised, NEW w \in Writers, Call(w), Target(w) \in Objects, slot[w] \in Slots,
         pc[w] \in WriteSteps \cup DeleteSteps,
         dir' \in {dir, [dir EXCEPT ![slot[w]] = Torn]}, ddir' = ddir, Exposes(Target(w))
  PROVE  Promised'
<1>1. CASE dir' = dir
  BY <1>1, PromisedFrame
<1>2. CASE dir' = [dir EXCEPT ![slot[w]] = Torn]
  <2>1. Torn.state # "active" /\ Torn.state \notin EntryStates /\ \A o \in Objects : ~IsOf(Torn, o)
    BY BlankIsOfNone DEF Torn, Blank, EntryStates
  <2> QED BY <1>2, <2>1, PromisedPut DEF Call
<1> QED BY <1>1, <1>2

LEMMA PutPromised ==
  ASSUME Strong, PInv, NEW w \in Writers, PutWriting(w) \/ PutDeleting(w) \/ PutActive(w) \/ ClearSlot(w)
  PROVE  Promised' /\ Call(w)'
<1>1. /\ TypeOK /\ Promised /\ Call(w) /\ Asked(w) /\ Apart(w)
      /\ pc[w] \in {"putWriting", "putDeleting", "putActive", "clear"}
      /\ pc[w] \in WriteSteps \cup DeleteSteps
      /\ UNCHANGED <<ddir, req, slot, ent>>
  BY DEF Strong, Typed, PInv, PutWriting, PutDeleting, PutActive, ClearSlot, PutSlot, disk, locals,
         WriteSteps, DeleteSteps
<1>2. /\ slot[w] \in Slots /\ ent[w] \in Entry /\ Fits(ent[w]) /\ Target(w) \in Objects
      /\ pc[w] \in WriteSteps => ent[w].state = "writing" /\ ent[w].gen > 0
      /\ pc[w] \in DeleteSteps => ent[w].state = "deleting"
      /\ pc[w] \in {"putActive", "clear"} => ddir = dir
  BY <1>1, TargetIsObject DEF Apart, Planned, Progress, TypeOK, WriteSteps
<1>3. IsOf(ent[w], Target(w)) /\ \A o : IsOf(ent[w], o) => o = Target(w)
  BY <1>1, <1>2 DEF Call, Committing, IsOf, Target, Fits
<1>4. /\ allowed[Target(w)] \subseteq Outcomes
      /\ allowed' = IF pc[w] \in {"putWriting", "putDeleting"}
                    THEN [allowed EXCEPT ![Target(w)] = @ \cup {NoVal, req[w].val}] ELSE allowed
  BY <1>1, <1>2 DEF PutWriting, PutDeleting, PutActive, ClearSlot, Expose, TypeOK
<1>5. {NoVal, req[w].val} \subseteq allowed'[Target(w)] /\ Exposes(Target(w))
  <2>1. CASE pc[w] \in {"putWriting", "putDeleting"}
    BY <1>1, <1>2, <1>4, <2>1 DEF Exposes, TypeOK
  <2>2. CASE pc[w] \notin {"putWriting", "putDeleting"}
    BY <1>1, <1>4, <2>2 DEF Exposes, Call, Committing
  <2> QED BY <2>1, <2>2
<1>6. CASE /\ dir' \in {dir, [dir EXCEPT ![slot[w]] = Torn]}
           /\ pc' = [pc EXCEPT ![w] = "failed"]
  <2>1. Promised'
    BY <1>1, <1>2, <1>5, <1>6, PutFailsPromised
  <2>2. pc'[w] = "failed" /\ Withdraws(w)'
    BY <1>1, <1>6 DEF TypeOK, Call, Withdraws
  <2>3. Call(w)'
    BY <2>2, CallOutside DEF WriteSteps, DeleteSteps
  <2> QED BY <2>1, <2>3
<1>7. ASSUME PutWriting(w) \/ PutDeleting(w), dir' = [dir EXCEPT ![slot[w]] = ent[w]],
             <<pc[w], pc'[w]>> \in {<<"putWriting", "syncWriting">>, <<"putDeleting", "syncDeleting">>}
      PROVE  Promised' /\ Call(w)'
  <2>1. ent[w].state # "active"
    BY <1>2, <1>7 DEF WriteSteps, DeleteSteps
  <2>2. Promised'
    BY <1>1, <1>2, <1>3, <1>5, <1>7, <2>1, PromisedPut DEF Call
  <2>3. Call(w)'
    BY <1>1, <1>2, <1>3, <1>5, <1>7, PutCall
  <2> QED BY <2>2, <2>3
<1>8. ASSUME pc[w] = "putActive", pc'[w] = "syncActive",
             dir' = [dir EXCEPT ![slot[w]] = [ent[w] EXCEPT !.state = "active"]]
      PROVE  Promised' /\ Call(w)'
  <2> DEFINE a == [ent[w] EXCEPT !.state = "active"]
  <2>1. a.state = "active" /\ a.key = ent[w].key /\ a.val = ent[w].val
    BY <1>2 DEF Entry
  <2>2. a.val = req[w].val
    BY <1>1, <1>8, <2>1 DEF Call, Committing, WriteSteps
  <2>3. ActiveOf(a, Target(w)) /\ \A o \in Objects : IsOf(a, o) => o = Target(w)
    BY <1>3, <2>1 DEF ActiveOf, IsOf
  <2> HIDE DEF a
  <2>4. dir' = [dir EXCEPT ![slot[w]] = a] /\ ddir = dir /\ allowed' = allowed
    BY <1>2, <1>4, <1>8 DEF a
  <2>5. Promised'
    BY <1>1, <1>2, <1>8, <2>2, <2>3, <2>4, PromisedActive DEF Call
  <2>6. Call(w)'
    BY <1>1, <1>2, <1>5, <1>8, <2>2, <2>3, <2>4, PutCall
  <2> QED BY <2>5, <2>6
<1>9. ASSUME pc[w] = "clear", pc'[w] = "syncClear", dir' = [dir EXCEPT ![slot[w]] = Free]
      PROVE  Promised' /\ Call(w)'
  <2>1. Free.state # "active" /\ Free.state \notin EntryStates /\ \A o \in Objects : ~IsOf(Free, o)
    BY BlankIsOfNone DEF Free, Blank, EntryStates
  <2>2. Promised'
    BY <1>1, <1>2, <1>5, <1>9, <2>1, PromisedPut DEF Call
  <2>3. Call(w)'
    BY <1>1, <1>2, <1>5, <1>9, <2>1, PutCall
  <2> QED BY <2>2, <2>3
<1>10. ASSUME NEW e, NEW step \in Steps, PutSlot(w, e, step)
       PROVE  \/ dir' = [dir EXCEPT ![slot[w]] = e] /\ pc'[w] = step
              \/ /\ dir' \in {dir, [dir EXCEPT ![slot[w]] = Torn]}
                 /\ pc' = [pc EXCEPT ![w] = "failed"]
  BY <1>1, <1>10 DEF PutSlot, Goto, TypeOK
<1>11. CASE PutWriting(w)
  BY <1>6, <1>7, <1>10, <1>11 DEF PutWriting, Steps
<1>12. CASE PutDeleting(w)
  BY <1>6, <1>7, <1>10, <1>12 DEF PutDeleting, Steps
<1>13. CASE PutActive(w)
  <2>1. pc[w] = "putActive" /\ PutSlot(w, [ent[w] EXCEPT !.state = "active"], "syncActive")
    BY <1>13 DEF PutActive
  <2> QED BY <1>6, <1>8, <1>10, <2>1 DEF Steps
<1>14. CASE ClearSlot(w)
  BY <1>6, <1>9, <1>10, <1>14 DEF ClearSlot, Steps
<1> QED BY <1>11, <1>12, <1>13, <1>14

\* What a call has made of its object stands on the disk once it is flushed.
LEMMA CallDiskFollows ==
  ASSUME NEW u \in Writers, Call(u), DiskFollows, UNCHANGED <<dir, allowed>>,
         pc'[u] = pc[u], req'[u] = req[u], slot'[u] = slot[u], ent'[u] = ent[u],
         pc[u] \in WriteSteps \cup DeleteSteps => slot[u] \in Slots,
         ddir \in [Slots -> Entry], ddir' \in [Slots -> Entry], dir \in [Slots -> Entry]
  PROVE  Call(u)'
<1>1. Target(u)' = Target(u)
  BY DEF Target
<1>2. Committing(u)'
  <2> SUFFICES ASSUME pc[u] \in WriteSteps \cup DeleteSteps PROVE Committing(u)'
    BY DEF Committing
  <2>1. ddir'[slot[u]] \in {ddir[slot[u]], dir[slot[u]]}
    BY DEF DiskFollows
  <2>2. \A o \in Objects : ActiveOf(ddir'[slot[u]], o) =>
           IsOf(dir[slot[u]], o) \/ ActiveOf(ddir[slot[u]], o)
    BY <2>1 DEF ActiveOf
  <2> QED BY <1>1, <2>2 DEF Call, Committing
<1>3. Committed(u)'
  <2>1. ddir = dir => ddir' = dir
    BY DEF DiskFollows
  <2> QED BY <1>1, <2>1 DEF Call, Committed
<1>4. Withdraws(u)'
  BY DEF Call, Withdraws
<1> QED BY <1>2, <1>3, <1>4 DEF Call

LEMMA SyncPromised ==
  ASSUME Strong, PInv, NEW w \in Writers, Syncs(w)
  PROVE  Promised' /\ Call(w)'
<1>1. /\ UNCHANGED <<dir, req, slot, ent, allowed>>
      /\ pc[w] \in WriteSteps \cup DeleteSteps
  BY DEF Syncs, SyncWriting, SyncData, SyncActive, SyncDeleting, SyncClear, Flush,
         WriteSteps, DeleteSteps, region, locals
<1>2. /\ TypeOK /\ Promised /\ Call(w) /\ Committing(w) /\ Target(w) \in Objects /\ slot[w] \in Slots
      /\ Target(w)' = Target(w) /\ Withdraws(w)
  BY <1>1, TargetIsObject DEF Strong, Typed, PInv, Call, Apart, Planned, Target, WriteSteps, DeleteSteps
<1>3. CASE ddir' = ddir /\ pc'[w] = "failed"
  <2>1. Withdraws(w)'
    BY <1>1, <1>2 DEF Withdraws, WriteSteps, DeleteSteps
  <2>2. Call(w)'
    BY <1>3, <2>1, CallOutside DEF WriteSteps, DeleteSteps
  <2> QED BY <1>1, <1>2, <1>3, <2>2, PromisedFrame
<1>4. ASSUME ddir' = dir,
             <<pc[w], pc'[w]>> \in {<<"syncWriting", "copy">>, <<"syncData", "putActive">>,
                                    <<"syncDeleting", "clear">>, <<"syncActive", "ok">>,
                                    <<"syncClear", "ok">>}
      PROVE  Promised' /\ Call(w)'
  <2>1. DiskFollows
    BY <1>4 DEF DiskFollows
  <2>2. Promised'
    BY <1>1, <1>2, <2>1, PromisedSync
  <2>3. \A o \in Objects : ActiveOf(ddir'[slot[w]], o) => o = Target(w)
    BY <1>1, <1>2, <1>4 DEF Committing, ActiveOf
  <2>4. Committing(w)'
    BY <1>1, <1>2, <1>4, <2>3 DEF Committing, WriteSteps, DeleteSteps
  <2>5. Committed(w)'
    <3>1. CASE pc[w] = "syncActive" /\ pc'[w] = "ok"
      <4>1. /\ ActiveOf(dir[slot[w]], Target(w)) /\ dir[slot[w]].val = req[w].val
            /\ req[w].kind = "write"
            /\ \A t \in Slots \ {slot[w]} : ~ActiveOf(dir[t], Target(w))
        BY <1>1, <1>2, <3>1 DEF Committing, WriteSteps
      <4> QED BY <1>1, <1>2, <1>4, <4>1 DEF Committed
    <3>2. CASE pc[w] = "syncClear" /\ pc'[w] = "ok"
      <4>1. /\ dir[slot[w]] = Free /\ req[w].kind = "delete"
            /\ \A t \in Slots \ {slot[w]} : ~ActiveOf(dir[t], Target(w))
        BY <1>1, <1>2, <3>2 DEF Committing, DeleteSteps
      <4>2. \A t \in Slots : ~ActiveOf(dir[t], Target(w))
        BY <4>1, BlankIsOfNone DEF ActiveOf
      <4> QED BY <1>1, <1>2, <1>4, <4>1, <4>2 DEF Committed
    <3> QED BY <1>4, <3>1, <3>2 DEF Committed
  <2>6. Withdraws(w)'
    BY <1>1, <1>2, <1>4 DEF Withdraws
  <2> QED BY <2>2, <2>4, <2>5, <2>6 DEF Call
<1> QED BY <1>3, <1>4
        DEF Syncs, SyncWriting, SyncData, SyncActive, SyncDeleting, SyncClear, Flush, Goto,
            Strong, Typed, TypeOK, disk

LEMMA CopyPromised ==
  ASSUME Strong, PInv, NEW w \in Writers, CopyChunk(w) \/ CopyFails(w) \/ CopyDone(w)
  PROVE  Promised' /\ Call(w)'
<1>1. /\ UNCHANGED <<dir, ddir, req, slot, ent, allowed>>
      /\ pc[w] = "copy" /\ pc'[w] \in {"copy", "syncData", "failed"}
  BY DEF CopyChunk, CopyFails, CopyDone, Goto, Strong, Typed, TypeOK, region, disk, locals
<1>2. Promised /\ Call(w) /\ Target(w)' = Target(w)
  BY <1>1 DEF PInv, Target
<1>3. Promised'
  BY <1>1, <1>2, PromisedFrame
<1>4. Committing(w)'
  BY <1>1, <1>2 DEF Call, Committing, WriteSteps, DeleteSteps
<1>5. Committed(w)' /\ Withdraws(w)'
  BY <1>1, <1>2 DEF Call, Committed, Withdraws
<1> QED BY <1>3, <1>4, <1>5 DEF Call

\* A call that returned ROMX_OK: its content is served, and only that.
LEMMA ReturnPromised ==
  ASSUME Strong, PInv, NEW w \in Writers, Return(w)
  PROVE  Promised'
<1>1. UNCHANGED <<dir, ddir>> /\ pc[w] \in {"ok", "failed"} /\ Promised /\ Call(w)
  BY DEF Return, region, disk, PInv
<1>2. CASE pc[w] = "failed"
  <2>1. allowed' = allowed
    BY <1>2 DEF Return
  <2> QED BY <1>1, <2>1, PromisedFrame
<1>3. CASE pc[w] = "ok"
  <2>1. /\ Target(w) \in Objects /\ req[w] \in Request
        /\ allowed'[Target(w)] = {req[w].val}
        /\ \A o \in Objects \ {Target(w)} : allowed'[o] = allowed[o]
    BY <1>3, TargetIsObject DEF Return, Strong, Typed, TypeOK, Asked
  <2>2. /\ ddir = dir
        /\ req[w].kind = "write" => \E s \in Slots : ActiveOf(dir[s], Target(w))
        /\ \A s \in Slots : ActiveOf(dir[s], Target(w)) =>
             req[w].kind = "write" /\ dir[s].val = req[w].val
        /\ req[w].kind = "delete" => req[w].val = NoVal
    BY <1>1, <1>3 DEF Call, Committed, Withdraws
  <2>3. req[w].kind \in {"write", "delete"}
    BY <2>1 DEF Request
  <2>4. OneSlotEach'
    BY <1>1 DEF Promised, OneSlotEach, Copies
  <2>5. ActiveAllowed'
    <3> SUFFICES ASSUME NEW o \in Objects, NEW s \in Slots, NEW e \in Copies(s), ActiveOf(e, o)
                 PROVE  e.val \in allowed'[o]
      BY <1>1 DEF ActiveAllowed, Copies
    <3>1. e = dir[s]
      BY <2>2 DEF Copies
    <3>2. CASE o = Target(w)
      BY <2>1, <2>2, <3>1, <3>2
    <3>3. CASE o # Target(w)
      BY <1>1, <2>1, <3>3 DEF Promised, ActiveAllowed
    <3> QED BY <3>2, <3>3
  <2>6. Settled'
    <3> SUFFICES ASSUME NEW o \in Objects, NoVal \notin allowed'[o]
                 PROVE  /\ \E s \in Slots : dir[s] = ddir[s] /\ ActiveOf(dir[s], o)
                        /\ \A s \in Slots : IsOf(dir[s], o) \/ IsOf(ddir[s], o) => dir[s] = ddir[s]
      BY <1>1 DEF Settled
    <3>1. CASE o = Target(w)
      BY <2>1, <2>2, <2>3, <3>1
    <3>2. CASE o # Target(w)
      BY <1>1, <2>1, <3>2 DEF Promised, Settled
    <3> QED BY <3>1, <3>2
  <2> QED BY <2>4, <2>5, <2>6 DEF Promised
<1> QED BY <1>1, <1>2, <1>3

\* After a power loss the page cache holds what the disk held, less what was on
\* its way.
LEMMA PowerLossPromised ==
  ASSUME TypeOK, Promised, PowerLoss
  PROVE  Promised'
<1>1. PICK S \in SUBSET {s \in Slots : ddir[s] # dir[s]} :
        /\ dir' = [s \in Slots |-> IF s \in S THEN Torn ELSE ddir[s]]
        /\ ddir' = dir'
        /\ allowed' = allowed
  BY DEF PowerLoss
<1>2. \A s \in Slots : /\ dir'[s] = ddir[s] \/ dir'[s] = Torn
                       /\ dir[s] = ddir[s] => dir'[s] = ddir[s]
                       /\ Copies(s)' = {dir'[s]}
  BY <1>1 DEF Copies
<1>3. \A s \in Slots : \A e \in Copies(s)' : \A o : ActiveOf(e, o) => e \in Copies(s)
  BY <1>2, BlankIsOfNone DEF Copies, ActiveOf
<1>4. OneSlotEach'
  <2> SUFFICES ASSUME NEW o \in Objects
               PROVE  /\ \A p, q \in Slots : p # q =>
                           \A x \in Copies(p)', y \in Copies(q)' : ~(ActiveOf(x, o) /\ ActiveOf(y, o))
                      /\ \A t \in Slots : ActiveOf(ddir'[t], o) /\ dir'[t].state \in EntryStates
                                            => IsOf(dir'[t], o)
    BY Zenon DEF OneSlotEach
  <2>1. \A p, q \in Slots : p # q =>
           \A x \in Copies(p)', y \in Copies(q)' : ~(ActiveOf(x, o) /\ ActiveOf(y, o))
    BY <1>3, Zenon DEF Promised, OneSlotEach
  <2> QED BY <1>1, <2>1 DEF ActiveOf
<1>5. ActiveAllowed'
  BY <1>1, <1>3 DEF Promised, ActiveAllowed
<1>6. Settled'
  <2> SUFFICES ASSUME NEW o \in Objects, NoVal \notin allowed[o]
               PROVE  \E t \in Slots : dir'[t] = ddir'[t] /\ ActiveOf(dir'[t], o)
    BY <1>1 DEF Settled
  <2>1. PICK t \in Slots : dir[t] = ddir[t] /\ ActiveOf(dir[t], o)
    BY DEF Promised, Settled
  <2> QED BY <1>1, <1>2, <2>1
<1> QED BY <1>4, <1>5, <1>6 DEF Promised

\* A deletion has no content.
LEMMA WithdrawsStep ==
  ASSUME TypeOK, \A w \in Writers : Withdraws(w), Next
  PROVE  \A w \in Writers : Withdraws(w)'
<1> SUFFICES ASSUME NEW u \in Writers PROVE Withdraws(u)'
  OBVIOUS
<1> USE DEF TypeOK, region, disk, locals, Goto
<1>1. ASSUME pc'[u] # "idle" => pc[u] # "idle" /\ req'[u] = req[u] PROVE Withdraws(u)'
  BY <1>1 DEF Withdraws
<1>2. ASSUME NEW W, Forget(W), u \notin W PROVE req'[u] = req[u]
  BY <1>2 DEF Forget
<1>3. ASSUME NEW w \in Writers, Begin(w) PROVE Withdraws(u)'
  <2>1. CASE \E k \in Keys, v \in Values, c \in Capacities \cup {0} : BeginWrite(w, k, v, c)
    BY <2>1 DEF BeginWrite, Withdraws
  <2>2. CASE \E k \in Keys : BeginDelete(w, k)
    BY <2>2 DEF BeginDelete, Withdraws
  <2> QED BY <1>3, <2>1, <2>2 DEF Begin
<1>4. ASSUME NEW w \in Writers, OpenFails(w) \/ Return(w) PROVE Withdraws(u)'
  BY <1>1, <1>2, <1>4 DEF OpenFails, Return
<1>5. ASSUME NEW W, Stop(W) PROVE Withdraws(u)'
  BY <1>1, <1>2, <1>5 DEF Stop
<1>6. ASSUME NEW w \in Writers, Step(w), ~Return(w) PROVE Withdraws(u)'
  <2>1. req' = req /\ (pc'[u] # "idle" => pc[u] # "idle")
    BY <1>6 DEF Step, Lock, PlanReplace, PlanCreate, PlanDelete, PlanRefuse, Choose,
                PutWriting, PutActive, PutDeleting, ClearSlot, PutSlot,
                SyncWriting, SyncData, SyncActive, SyncDeleting, SyncClear, Flush,
                CopyChunk, CopyDone, CopyFails
  <2> QED BY <1>1, <2>1
<1>7. ASSUME (\E s \in Slots : WriteBackSlot(s)) \/ (\E a \in Cells : WriteBackCell(a))
      PROVE  Withdraws(u)'
  BY <1>1, <1>7 DEF WriteBackSlot, WriteBackCell
<1>8. ASSUME PowerLoss \/ \E p \in Processes : Kill(p) PROVE Withdraws(u)'
  BY <1>5, <1>8 DEF PowerLoss, Kill
<1> QED BY <1>3, <1>4, <1>6, <1>7, <1>8 DEF Next, Environment

\* While one writer is inside, the others have made nothing of their objects.
LEMMA OtherCall ==
  ASSUME OneWriterPerProcess, Strong, NEW w \in Writers, NEW u \in Writers, u # w,
         Inside(w), pc'[u] = pc[u], Withdraws(u)'
  PROVE  Call(u)'
<1>1. pc[u] \in {"idle", "lock"}
  BY AloneInside DEF Strong, Inside
<1> QED BY <1>1, CallOutside DEF WriteSteps, DeleteSteps

LEMMA StepPromised ==
  ASSUME OneWriterPerProcess, Strong, PInv, \A u \in Writers : Withdraws(u)',
         NEW w \in Writers, Step(w) \/ Begin(w) \/ OpenFails(w)
  PROVE  PInv'
<1>1. TypeOK /\ ActiveSound /\ Promised /\ Asked(w) /\ Call(w)
  BY DEF Strong, Typed, RegionSound, PInv
<1>2. ASSUME UNCHANGED <<dir, ddir>>, Promised',
             pc'[w] \in {"idle", "lock", "plan", "failed"},
             \A u \in Writers : u # w =>
               /\ pc'[u] = pc[u] /\ req'[u] = req[u] /\ slot'[u] = slot[u] /\ ent'[u] = ent[u],
             allowed' = allowed \/ Inside(w)
      PROVE  PInv'
  <2>1. Call(w)'
    BY <1>2, CallOutside DEF WriteSteps, DeleteSteps
  <2>2. ASSUME NEW u \in Writers, u # w PROVE Call(u)'
    <3>1. CASE allowed' = allowed
      <4>1. pc[u] # "idle" => Target(u) \in Objects
        BY TargetIsObject DEF Strong, Typed
      <4> QED BY <1>2, <2>2, <3>1, <4>1, CallFrame DEF PInv
    <3>2. CASE Inside(w)
      BY <1>2, <2>2, <3>2, OtherCall
    <3> QED BY <1>2, <3>1, <3>2
  <2> QED BY <1>2, <2>1, <2>2 DEF PInv
<1>3. CASE Begin(w)
  <2>1. /\ UNCHANGED <<dir, ddir, allowed, slot, ent>>
        /\ pc' = [pc EXCEPT ![w] = "lock"] /\ \A u \in Writers : u # w => req'[u] = req[u]
    BY <1>1, <1>3 DEF Begin, BeginWrite, BeginDelete, region, disk, Goto, TypeOK
  <2>2. Promised'
    BY <1>1, <2>1, PromisedFrame
  <2> QED BY <1>1, <1>2, <2>1, <2>2 DEF TypeOK
<1>4. CASE OpenFails(w) \/ Return(w)
  <2>1. /\ UNCHANGED <<dir, ddir>> /\ Forget({w}) /\ pc' = [pc EXCEPT ![w] = "idle"]
        /\ OpenFails(w) => allowed' = allowed
        /\ Return(w) => Inside(w)
    BY <1>4 DEF OpenFails, Return, region, disk, Goto, Inside
  <2>2. Promised'
    BY <1>1, <1>4, <2>1, PromisedFrame, ReturnPromised
  <2>3. /\ pc'[w] = "idle"
        /\ \A u \in Writers : u # w =>
             pc'[u] = pc[u] /\ req'[u] = req[u] /\ slot'[u] = slot[u] /\ ent'[u] = ent[u]
    BY <1>1, <2>1 DEF Forget, TypeOK
  <2> QED BY <1>2, <1>4, <2>1, <2>2, <2>3
<1>5. CASE Lock(w) \/ PlanRefuse(w)
  <2>1. /\ UNCHANGED <<dir, ddir, allowed, req, slot, ent>>
        /\ pc' = [pc EXCEPT ![w] = "plan"] \/ pc' = [pc EXCEPT ![w] = "failed"]
    BY <1>5 DEF Lock, PlanRefuse, region, disk, locals, Goto
  <2>2. Promised'
    BY <1>1, <2>1, PromisedFrame
  <2> QED BY <1>1, <1>2, <2>1, <2>2 DEF TypeOK
<1>6. CASE \/ PlanReplace(w) \/ PlanCreate(w) \/ PlanDelete(w)
           \/ PutWriting(w) \/ PutDeleting(w) \/ PutActive(w) \/ ClearSlot(w) \/ Syncs(w)
           \/ CopyChunk(w) \/ CopyFails(w) \/ CopyDone(w)
  <2>1. Inside(w) /\ \A u \in Writers : u # w => pc'[u] = pc[u]
    BY <1>1, <1>6
    DEF PlanReplace, PlanCreate, PlanDelete, Choose,
        PutWriting, PutDeleting, PutActive, ClearSlot, PutSlot, Syncs, SyncWriting, SyncData,
        SyncActive, SyncDeleting, SyncClear, Flush, CopyChunk, CopyFails, CopyDone,
        Goto, locals, Inside, TypeOK
  <2>2. Promised' /\ Call(w)'
    <3>1. CASE PlanReplace(w) \/ PlanCreate(w) \/ PlanDelete(w)
      <4>1. UNCHANGED <<dir, ddir, allowed>>
        BY <3>1 DEF PlanReplace, PlanCreate, PlanDelete, region, disk
      <4>2. Call(w)'
        BY <1>1, <3>1, PlanCall DEF Call
      <4> QED BY <1>1, <4>1, <4>2, PromisedFrame
    <3> QED BY <1>6, <3>1, PutPromised, SyncPromised, CopyPromised
  <2> QED BY <2>1, <2>2, OtherCall DEF PInv
<1> QED BY <1>3, <1>4, <1>5, <1>6 DEF Step, Syncs

LEMMA PromisedInductive ==
  ASSUME OneWriterPerProcess
  PROVE  Strong /\ PInv /\ [Next]_vars => PInv'
<1> SUFFICES ASSUME Strong, PInv, [Next]_vars PROVE PInv'
  OBVIOUS
<1>1. CASE Next
  <2>1. \A u \in Writers : Withdraws(u)'
    BY <1>1, WithdrawsStep DEF Strong, Typed, PInv, Call
  <2>2. ASSUME NEW p \in Processes, Kill(p) PROVE PInv'
    <3> DEFINE W == {w \in Writers : ProcessOf[w] = p}
    <3>1. UNCHANGED <<dir, ddir, allowed>> /\ Stop(W)
      BY <2>2 DEF Kill, region, disk
    <3>2. Promised'
      BY <3>1, PromisedFrame DEF PInv
    <3>3. ASSUME NEW u \in Writers PROVE Call(u)'
      <4>1. CASE u \in W
        <5>1. pc'[u] = "idle"
          BY <3>1, <4>1 DEF Stop
        <5> QED BY <2>1, <5>1, CallOutside DEF WriteSteps, DeleteSteps
      <4>2. CASE u \notin W
        <5> HIDE DEF W
        <5>1. /\ pc'[u] = pc[u] /\ req'[u] = req[u] /\ slot'[u] = slot[u] /\ ent'[u] = ent[u]
          BY <3>1, <4>2 DEF Stop, Forget
        <5>2. pc[u] # "idle" => Target(u) \in Objects
          BY TargetIsObject DEF Strong, Typed
        <5> QED BY <3>1, <5>1, <5>2, CallFrame DEF PInv
      <4> QED BY <4>1, <4>2
    <3> QED BY <3>2, <3>3 DEF PInv
  <2>3. CASE PowerLoss
    <3>1. Promised'
      BY <2>3, PowerLossPromised DEF Strong, Typed, PInv
    <3>2. \A u \in Writers : pc'[u] = "idle"
      BY <2>3 DEF PowerLoss, Stop
    <3>3. \A u \in Writers : Call(u)'
      BY <2>1, <3>2, CallOutside DEF WriteSteps, DeleteSteps
    <3> QED BY <3>1, <3>3 DEF PInv
  <2>4. ASSUME NEW s \in Slots, WriteBackSlot(s) PROVE PInv'
    <3>1. UNCHANGED <<dir, allowed, pc, req, slot, ent>> /\ DiskFollows
      BY <2>4 DEF WriteBackSlot, region, locals, DiskFollows, Strong, Typed, TypeOK
    <3>2. Promised'
      BY <3>1, PromisedSync DEF PInv
    <3>3. ddir' \in [Slots -> Entry]
      BY <2>4 DEF WriteBackSlot, Strong, Typed, TypeOK
    <3>4. ASSUME NEW u \in Writers PROVE Call(u)'
      <4>1. pc[u] \in WriteSteps \cup DeleteSteps => slot[u] \in Slots
        BY DEF Strong, Apart, Planned
      <4> QED BY <3>1, <3>3, <4>1, CallDiskFollows DEF PInv, Strong, Typed, TypeOK
    <3> QED BY <3>2, <3>4 DEF PInv
  <2>5. ASSUME NEW a \in Cells, WriteBackCell(a) PROVE PInv'
    <3>1. UNCHANGED <<dir, ddir, allowed, pc, req, slot, ent>>
      BY <2>5 DEF WriteBackCell, region, locals
    <3>2. \A u \in Writers : pc[u] # "idle" => Target(u) \in Objects
      BY TargetIsObject DEF Strong, Typed
    <3> QED BY <3>1, <3>2, PromisedFrame, CallFrame DEF PInv
  <2> QED BY <1>1, <2>1, <2>2, <2>3, <2>4, <2>5, StepPromised DEF Next, Environment
<1>2. CASE UNCHANGED vars
  <2>1. UNCHANGED <<dir, ddir, allowed, pc, req, slot, ent>>
    BY <1>2 DEF vars
  <2>2. \A u \in Writers : pc[u] # "idle" => Target(u) \in Objects
    BY TargetIsObject DEF Strong, Typed
  <2> QED BY <2>1, <2>2, PromisedFrame, CallFrame DEF PInv
<1> QED BY <1>1, <1>2

-----------------------------------------------------------------------------
(***************************************************************************)
(* What a reader is given.                                                 *)
(***************************************************************************)
LEMMA VisibleIsActive ==
  ASSUME NEW d, NEW c, NEW o
  PROVE  \/ Visible(d, c, o) = NoVal
         \/ \E s \in Slots : ActiveOf(d[s], o) /\ Visible(d, c, o) = d[s].val
<1> DEFINE readable == {s \in Holding(d, o) : Intact(c, d[s])}
<1>1. CASE readable = {}
  BY <1>1 DEF Visible
<1>2. CASE readable # {}
  <2> DEFINE s == CHOOSE s \in readable : TRUE
  <2>1. s \in Holding(d, o) /\ Visible(d, c, o) = d[s].val
    BY <1>2 DEF Visible
  <2> HIDE DEF s
  <2>2. s \in Slots /\ ActiveOf(d[s], o)
    BY <2>1, UsableWellFormed DEF Holding, ActiveOf, IsOf, WellFormed, Fits
  <2> QED BY <2>1, <2>2
<1> QED BY <1>1, <1>2

\* An ACTIVE entry that is intact and alone is given to a reader.
LEMMA VisibleWhenAlone ==
  ASSUME NEW d, NEW c, NEW o, NEW s \in Slots, ActiveOf(d[s], o), WellFormed(d[s]),
         Intact(c, d[s]),
         \A t \in Slots : t # s /\ WellFormed(d[t]) =>
           ~Conflict(d[s], d[t]) /\ ~Conflict(d[t], d[s])
  PROVE  \E t \in Slots : ActiveOf(d[t], o) /\ Visible(d, c, o) = d[t].val
<1> DEFINE readable == {t \in Holding(d, o) : Intact(c, d[t])}
<1>1. s \in readable
  BY UsableAlone DEF Holding, ActiveOf, IsOf
<1> DEFINE t == CHOOSE t \in readable : TRUE
<1>2. t \in Holding(d, o) /\ Visible(d, c, o) = d[t].val
  BY <1>1 DEF Visible
<1> HIDE DEF t
<1>3. t \in Slots /\ ActiveOf(d[t], o)
  BY <1>2, UsableWellFormed DEF Holding, ActiveOf, IsOf, WellFormed, Fits
<1> QED BY <1>2, <1>3

\* What one of the two copies of the region serves is what the calls allow.
LEMMA ServedAllowed ==
  ASSUME Strong, PInv, NEW o \in Objects,
         NEW d, NEW c, \A s \in Slots : d[s] \in Copies(s),
         \A s \in Slots : d[s].state = "active" => Intact(c, d[s])
  PROVE  Visible(d, c, o) \in allowed[o] \cup {x \in {NoVal} : LeftOver(o)}
<1>1. TypeOK /\ ActiveSound /\ CopiesApart /\ OneSlotEach /\ ActiveAllowed /\ Settled
  BY DEF Strong, Typed, RegionSound, PInv, Promised
<1>2. ASSUME NEW s \in Slots, ActiveOf(d[s], o) PROVE d[s].val \in allowed[o]
  BY <1>1, <1>2 DEF ActiveAllowed
<1>3. CASE NoVal \in allowed[o] \/ LeftOver(o)
  BY <1>2, <1>3, VisibleIsActive
<1>4. CASE NoVal \notin allowed[o] /\ ~LeftOver(o)
  <2>1. PICK s \in Slots : dir[s] = ddir[s] /\ ActiveOf(dir[s], o)
    BY <1>1, <1>4 DEF Settled
  <2>2. d[s] = dir[s] /\ ActiveOf(d[s], o) /\ WellFormed(d[s]) /\ Intact(c, d[s])
    BY <1>1, <2>1 DEF Copies, ActiveSound, ActiveOf
  <2>3. ASSUME NEW t \in Slots, t # s, WellFormed(d[t])
        PROVE  ~Conflict(d[s], d[t]) /\ ~Conflict(d[t], d[s])
    <3>1. d[t] \in Entry /\ d[s] \in Entry
      BY <1>1 DEF Copies, TypeOK
    <3>2. ~Overlap(d[s], d[t])
      BY <1>1, <2>2, <2>3 DEF CopiesApart, ActiveOf
    <3>3. ~Overlap(d[t], d[s])
      BY <3>1, <3>2, OverlapFacts
    <3>4. Fold[d[t].key] # o
      <4> SUFFICES ASSUME Fold[d[t].key] = o PROVE FALSE
        OBVIOUS
      <4>1. IsOf(d[t], o) /\ d[t].state \in EntryStates
        BY <2>3 DEF IsOf, WellFormed, Fits
      <4>2. d[t] = dir[t]
        BY <1>1, <1>4, <4>1 DEF Settled, Copies
      <4>3. d[t].state # "active"
        <5>1. ~(ActiveOf(d[s], o) /\ ActiveOf(d[t], o))
          BY <1>1, <2>3 DEF OneSlotEach
        <5> QED BY <2>2, <4>1, <5>1 DEF ActiveOf
      <4>4. LeftOver(o)
        BY <4>1, <4>2, <4>3 DEF LeftOver, EntryStates, IsOf
      <4> QED BY <1>4, <4>4
    <3>5. Fold[d[s].key] = o
      BY <2>2 DEF ActiveOf, IsOf
    <3> QED BY <3>2, <3>3, <3>4, <3>5 DEF Conflict
  <2>4. \E t \in Slots : ActiveOf(d[t], o) /\ Visible(d, c, o) = d[t].val
    BY <2>2, <2>3, VisibleWhenAlone
  <2> QED BY <1>2, <2>4
<1> QED BY <1>3, <1>4

\* A reader, now or after a power loss, is given the content of the last call
\* that returned ROMX_OK, or while a later one is under way or failed the old
\* content, the new one or none; an object with a leftover entry may be missing
\* (mutable_write.c). It rests on one writing thread per process.
THEOREM PromisesAreKept == OneWriterPerProcess => (Spec => []KeepsPromises)
<1> SUFFICES ASSUME OneWriterPerProcess PROVE Spec => []KeepsPromises
  OBVIOUS
<1>1. Strong /\ PInv /\ [Next]_vars => Strong' /\ PInv'
  BY StrongInductive, PromisedInductive
<1>2. Strong /\ PInv => KeepsPromises
  <2> SUFFICES ASSUME Strong, PInv, NEW o \in Objects
               PROVE  Served(o) \subseteq allowed[o] \cup {x \in {NoVal} : LeftOver(o)}
    BY DEF KeepsPromises
  <2>1. Visible(dir, data, o) \in allowed[o] \cup {x \in {NoVal} : LeftOver(o)}
    BY ServedAllowed DEF Copies, Strong, RegionSound, ActiveSound, IntactTwice
  <2>2. Visible(ddir, ddata, o) \in allowed[o] \cup {x \in {NoVal} : LeftOver(o)}
    BY ServedAllowed DEF Copies, Strong, RegionSound, ActiveSound, IntactTwice
  <2> QED BY <2>1, <2>2 DEF Served
<1> QED BY <1>1, <1>2, InitStrong, InitPromised, PTL DEF Spec

-----------------------------------------------------------------------------
(***************************************************************************)
(* DamageIsDeletion.  A deletion that wraps its generation leaves a slot   *)
(* the parser takes for damaged; while one stands, in the page cache or on *)
(* the disk, no other slot serves its object.                              *)
(***************************************************************************)
Damaged(e) == e \notin {Free, Torn} /\ ~WellFormed(e)

DamageKnown ==
  \A s \in Slots : \A e \in Copies(s) : Damaged(e) =>
    /\ e.state = "deleting" /\ e.key \in Keys
    /\ NoVal \in allowed[Fold[e.key]]
    /\ \A t \in Slots \ {s} : \A f \in Copies(t) : ~ActiveOf(f, Fold[e.key])

\* A write found no damaged slot of its object, a deletion no second ACTIVE one.
FoundSound(w) ==
  /\ pc[w] \in WriteSteps =>
       \A t \in Slots \ {slot[w]} : Damaged(dir[t]) => Fold[dir[t].key] # Target(w)
  /\ pc[w] = "putDeleting" => \A t \in Slots \ {slot[w]} : ~ActiveOf(ddir[t], Target(w))

DInv == DamageKnown /\ \A w \in Writers : FoundSound(w)

LEMMA InitDamage == Init => DInv
  BY DEF Init, DInv, DamageKnown, FoundSound, Copies, Damaged, WriteSteps

\* Entries that are well-formed and not ACTIVE, or blank, disturb nothing.
LEMMA DamageFrame ==
  ASSUME DamageKnown, \A o \in Objects : allowed[o] \subseteq allowed'[o],
         \A s \in Slots : \A e \in Copies(s)' :
           e \in Copies(s) \/ (~Damaged(e) /\ e.state # "active")
  PROVE  DamageKnown'
<1> SUFFICES ASSUME NEW s \in Slots, NEW e \in Copies(s)', Damaged(e)
             PROVE  /\ e.state = "deleting" /\ e.key \in Keys
                    /\ NoVal \in allowed'[Fold[e.key]]
                    /\ \A t \in Slots \ {s} : \A f \in Copies(t)' : ~ActiveOf(f, Fold[e.key])
  BY DEF DamageKnown, Damaged
<1>1. e \in Copies(s)
  OBVIOUS
<1>2. /\ e.state = "deleting" /\ e.key \in Keys /\ NoVal \in allowed[Fold[e.key]]
      /\ \A t \in Slots \ {s} : \A f \in Copies(t) : ~ActiveOf(f, Fold[e.key])
  BY <1>1 DEF DamageKnown
<1>3. Fold[e.key] \in Objects
  BY <1>2, RegionAssumption
<1>4. \A t \in Slots \ {s} : \A f \in Copies(t)' : ~ActiveOf(f, Fold[e.key])
  BY <1>2 DEF ActiveOf
<1> QED BY <1>2, <1>3, <1>4

LEMMA BlankUndamaged ==
  ~Damaged(Free) /\ ~Damaged(Torn) /\ Free.state # "active" /\ Torn.state # "active"
  BY DEF Damaged, Free, Torn, Blank

\* What a writer found stays so while the others and the disk leave it alone.
LEMMA FoundFrame ==
  ASSUME NEW u \in Writers, FoundSound(u), Call(u),
         pc'[u] \in WriteSteps => pc[u] \in WriteSteps,
         pc'[u] = "putDeleting" => pc[u] = "putDeleting",
         pc'[u] \in WriteSteps \cup {"putDeleting"} =>
           /\ req'[u] = req[u] /\ slot'[u] = slot[u]
           /\ \A t \in Slots \ {slot[u]} : dir'[t] = dir[t] /\ ddir'[t] \in {ddir[t], dir[t]}
  PROVE  FoundSound(u)'
<1>1. CASE pc'[u] \in WriteSteps
  <2>1. /\ req'[u] = req[u] /\ slot'[u] = slot[u] /\ pc[u] \in WriteSteps /\ pc'[u] # "putDeleting"
        /\ \A t \in Slots \ {slot[u]} : dir'[t] = dir[t]
    BY <1>1 DEF WriteSteps
  <2> QED BY <2>1 DEF FoundSound, Target, Damaged
<1>2. CASE pc'[u] = "putDeleting"
  <2>1. /\ req'[u] = req[u] /\ slot'[u] = slot[u] /\ pc[u] = "putDeleting" /\ pc'[u] \notin WriteSteps
        /\ \A t \in Slots \ {slot[u]} : ddir'[t] \in {ddir[t], dir[t]}
    BY <1>2 DEF WriteSteps
  <2>2. \A t \in Slots \ {slot[u]} : ~ActiveOf(dir[t], Target(u)) /\ ~ActiveOf(ddir[t], Target(u))
    BY <2>1 DEF FoundSound, Call, Committing, DeleteSteps
  <2> QED BY <2>1, <2>2 DEF FoundSound, Target
<1>3. CASE pc'[u] \notin WriteSteps \cup {"putDeleting"}
  BY <1>3 DEF FoundSound
<1> QED BY <1>1, <1>2, <1>3

\* Planning: a region that is not degraded holds no damaged slot, and the slot
\* found for an object is the only one it has.
LEMMA PlanFound ==
  ASSUME Strong, PInv, DInv, NEW w \in Writers, PlanReplace(w) \/ PlanCreate(w) \/ PlanDelete(w)
  PROVE  FoundSound(w)'
<1>1. /\ UNCHANGED <<dir, ddir, req>> /\ Target(w)' = Target(w) /\ Target(w) \in Objects /\ Promised
      /\ pc' \in {[pc EXCEPT ![w] = "putWriting"], [pc EXCEPT ![w] = "putDeleting"]}
  BY TargetIsObject DEF PlanReplace, PlanCreate, PlanDelete, Choose, Goto, region, disk, Target,
     Strong, Typed, PInv
<1>2. ASSUME Found(w) # {}, slot'[w] = Current(w) PROVE FoundSound(w)'
  <2> DEFINE s == Current(w)
  <2>1. s \in Slots /\ ActiveOf(dir[s], Target(w))
    BY <1>1, <1>2, CurrentIsOnly DEF Strong, Typed
  <2> HIDE DEF s
  <2>2. \A t \in Slots \ {s} : Damaged(dir[t]) => Fold[dir[t].key] # Target(w)
    BY <2>1 DEF DInv, DamageKnown, Copies
  <2>3. \A t \in Slots \ {s} : ~ActiveOf(ddir[t], Target(w))
    BY <1>1, <2>1 DEF Promised, OneSlotEach, Copies
  <2>4. slot'[w] = s
    BY <1>2 DEF s
  <2> QED BY <1>1, <2>2, <2>3, <2>4 DEF FoundSound, Damaged
<1>3. CASE PlanReplace(w) \/ PlanDelete(w)
  BY <1>2, <1>3 DEF PlanReplace, MayReplace, PlanDelete, Choose, Strong, Typed, TypeOK
<1>4. CASE PlanCreate(w)
  <2>1. pc'[w] = "putWriting"
    BY <1>4 DEF PlanCreate, Choose, Goto, Strong, Typed, TypeOK
  <2>2. \A t \in Slots : ~Damaged(dir[t])
    BY <1>4 DEF PlanCreate, MayCreate, Degraded, Damaged
  <2> QED BY <1>1, <2>1, <2>2 DEF FoundSound, Damaged
<1> QED BY <1>3, <1>4

\* The four writes of a slot.
LEMMA PutDamage ==
  ASSUME Strong, PInv, DInv, NEW w \in Writers,
         PutWriting(w) \/ PutDeleting(w) \/ PutActive(w) \/ ClearSlot(w)
  PROVE  DamageKnown' /\ FoundSound(w)'
<1>1. /\ TypeOK /\ Promised /\ Call(w) /\ Asked(w) /\ Apart(w) /\ DamageKnown /\ FoundSound(w)
      /\ pc[w] \in {"putWriting", "putDeleting", "putActive", "clear"}
      /\ pc[w] \in WriteSteps \cup DeleteSteps
      /\ UNCHANGED <<ddir, req, slot, ent>>
  BY DEF Strong, Typed, PInv, DInv, PutWriting, PutDeleting, PutActive, ClearSlot, PutSlot, disk,
         locals, WriteSteps, DeleteSteps
<1>2. /\ slot[w] \in Slots /\ ent[w] \in Entry /\ Fits(ent[w]) /\ Target(w) \in Objects
      /\ ent[w].key \in Keys /\ Fold[ent[w].key] = Target(w)
      /\ pc[w] \in WriteSteps => ent[w].state = "writing" /\ ent[w].gen > 0
      /\ pc[w] \in DeleteSteps => ent[w].state = "deleting"
      /\ pc[w] = "putActive" => ddir = dir
      /\ \A t \in Slots \ {slot[w]} : ~ActiveOf(dir[t], Target(w))
  BY <1>1, TargetIsObject
  DEF Apart, Planned, Progress, TypeOK, WriteSteps, Call, Committing, Fits, Target
<1>3. \A o \in Objects : allowed[o] \subseteq allowed'[o]
  BY <1>1 DEF PutWriting, PutDeleting, PutActive, ClearSlot, Expose, TypeOK
<1>4. ASSUME NEW e, dir' = [dir EXCEPT ![slot[w]] = e]
      PROVE  \A t \in Slots : Copies(t)' = IF t = slot[w] THEN {e, ddir[t]} ELSE Copies(t)
  BY <1>1, <1>2, <1>4 DEF Copies, TypeOK
<1>5. ASSUME NEW e, dir' = [dir EXCEPT ![slot[w]] = e], ~Damaged(e), e.state # "active"
      PROVE  DamageKnown'
  BY <1>1, <1>3, <1>4, <1>5, DamageFrame DEF Copies
<1>6. ASSUME NEW e, NEW step \in Steps, PutSlot(w, e, step)
      PROVE  \/ dir' = [dir EXCEPT ![slot[w]] = e] /\ pc' = [pc EXCEPT ![w] = step]
             \/ /\ dir' = dir \/ dir' = [dir EXCEPT ![slot[w]] = Torn]
                /\ pc' = [pc EXCEPT ![w] = "failed"]
  BY <1>6 DEF PutSlot, Goto
<1>7. ASSUME dir' = dir \/ dir' = [dir EXCEPT ![slot[w]] = Torn]
      PROVE  DamageKnown'
  <2>1. CASE dir' = dir
    <3>1. \A s \in Slots : Copies(s)' = Copies(s)
      BY <1>1, <2>1 DEF Copies
    <3> QED BY <1>1, <1>3, <3>1, DamageFrame
  <2>2. CASE dir' = [dir EXCEPT ![slot[w]] = Torn]
    BY <1>5, <2>2, BlankUndamaged
  <2> QED BY <1>7, <2>1, <2>2
<1>8. ASSUME pc[w] = "putActive", dir' = [dir EXCEPT ![slot[w]] = [ent[w] EXCEPT !.state = "active"]]
      PROVE  DamageKnown'
  <2> DEFINE a == [ent[w] EXCEPT !.state = "active"]
  <2>1. a.state = "active" /\ a.key = ent[w].key /\ WellFormed(a)
    BY <1>1, <1>2, <1>8 DEF Entry, WellFormed, Fits, EntryStates, WriteSteps
  <2> HIDE DEF a
  <2>2. dir' = [dir EXCEPT ![slot[w]] = a]
    BY <1>8 DEF a
  <2>3. \A t \in Slots : Copies(t) = {dir[t]}
    BY <1>2, <1>8 DEF Copies
  <2>4. \A t \in Slots : Copies(t)' \subseteq {dir[t]} \cup {x \in {a} : t = slot[w]}
    <3>1. \A t \in Slots : Copies(t)' = IF t = slot[w] THEN {a, ddir[t]} ELSE Copies(t)
      BY <1>4, <2>2
    <3>2. ddir = dir
      BY <1>2, <1>8
    <3> QED BY <2>3, <3>1, <3>2
  <2>5. ASSUME NEW s \in Slots, NEW e \in Copies(s)', Damaged(e)
        PROVE  /\ e.state = "deleting" /\ e.key \in Keys
               /\ NoVal \in allowed'[Fold[e.key]]
               /\ \A t \in Slots \ {s} : \A f \in Copies(t)' : ~ActiveOf(f, Fold[e.key])
    <3>1. e # a
      BY <2>1, <2>5 DEF Damaged
    <3>2. e = dir[s]
      BY <2>5, <2>4, <3>1
    <3>3. /\ e.state = "deleting" /\ e.key \in Keys /\ NoVal \in allowed[Fold[e.key]]
          /\ \A t \in Slots \ {s} : ~ActiveOf(dir[t], Fold[e.key])
      BY <1>1, <2>3, <2>5, <3>2 DEF DamageKnown
    <3>4. Fold[e.key] \in Objects
      BY <3>3, RegionAssumption
    <3>5. ASSUME NEW t \in Slots \ {s}, NEW f \in Copies(t)' PROVE ~ActiveOf(f, Fold[e.key])
      <4>1. CASE f = dir[t]
        BY <3>3, <4>1
      <4>2. CASE f # dir[t]
        <5>1. t = slot[w] /\ f = a
          BY <2>4, <3>5, <4>2
        <5>2. Fold[e.key] # Target(w)
          BY <1>1, <1>8, <2>5, <3>2, <5>1 DEF FoundSound, WriteSteps
        <5> QED BY <1>2, <2>1, <5>1, <5>2 DEF ActiveOf, IsOf
      <4> QED BY <4>1, <4>2
    <3> QED BY <1>3, <3>3, <3>4, <3>5
  <2> QED BY <2>5 DEF DamageKnown, Damaged
<1>9. ASSUME pc[w] = "putDeleting", PutDeleting(w), dir' = [dir EXCEPT ![slot[w]] = ent[w]]
      PROVE  DamageKnown'
  <2>1. ent[w].state = "deleting" /\ NoVal \in allowed'[Target(w)]
    BY <1>1, <1>2, <1>9 DEF PutDeleting, Expose, TypeOK, DeleteSteps
  <2>2. \A t \in Slots \ {slot[w]} : ~ActiveOf(ddir[t], Target(w))
    BY <1>1, <1>9 DEF FoundSound
  <2>3. \A t \in Slots : Copies(t)' = IF t = slot[w] THEN {ent[w], ddir[t]} ELSE Copies(t)
    BY <1>4, <1>9
  <2>4. ASSUME NEW s \in Slots, NEW e \in Copies(s)', Damaged(e)
        PROVE  /\ e.state = "deleting" /\ e.key \in Keys
               /\ NoVal \in allowed'[Fold[e.key]]
               /\ \A t \in Slots \ {s} : \A f \in Copies(t)' : ~ActiveOf(f, Fold[e.key])
    <3>1. CASE s = slot[w] /\ e = ent[w]
      <4>1. \A t \in Slots \ {s} : \A f \in Copies(t)' : f = dir[t] \/ f = ddir[t]
        BY <2>3, <3>1 DEF Copies
      <4> QED BY <1>2, <2>1, <2>2, <3>1, <4>1
    <3>2. CASE ~(s = slot[w] /\ e = ent[w])
      <4>1. e \in Copies(s)
        BY <2>4, <2>3, <3>2 DEF Copies
      <4>2. /\ e.state = "deleting" /\ e.key \in Keys /\ NoVal \in allowed[Fold[e.key]]
            /\ \A t \in Slots \ {s} : \A f \in Copies(t) : ~ActiveOf(f, Fold[e.key])
        BY <1>1, <2>4, <4>1 DEF DamageKnown
      <4>3. Fold[e.key] \in Objects
        BY <4>2, RegionAssumption
      <4>4. \A t \in Slots \ {s} : \A f \in Copies(t)' : f \in Copies(t) \/ f.state # "active"
        BY <2>1, <2>3 DEF Copies
      <4> QED BY <1>3, <4>2, <4>3, <4>4 DEF ActiveOf
    <3> QED BY <3>1, <3>2
  <2> QED BY <2>4 DEF DamageKnown, Damaged
<1>10. /\ WellFormed(ent[w]) \/ pc[w] \notin WriteSteps
       /\ pc[w] \in WriteSteps => ~Damaged(ent[w]) /\ ent[w].state # "active"
  BY <1>2 DEF WellFormed, EntryStates, Damaged
<1>11. DamageKnown'
  <2>1. CASE PutWriting(w)
    <3>1. PutSlot(w, ent[w], "syncWriting") /\ pc[w] \in WriteSteps
      BY <2>1 DEF PutWriting, WriteSteps
    <3> QED BY <1>5, <1>6, <1>7, <1>10, <3>1 DEF Steps
  <2>2. CASE PutDeleting(w)
    <3>1. PutSlot(w, ent[w], "syncDeleting") /\ pc[w] = "putDeleting"
      BY <2>2 DEF PutDeleting
    <3> QED BY <1>6, <1>7, <1>9, <2>2, <3>1 DEF Steps
  <2>3. CASE PutActive(w)
    <3>1. PutSlot(w, [ent[w] EXCEPT !.state = "active"], "syncActive") /\ pc[w] = "putActive"
      BY <2>3 DEF PutActive
    <3> QED BY <1>6, <1>7, <1>8, <3>1 DEF Steps
  <2>4. CASE ClearSlot(w)
    <3>1. PutSlot(w, Free, "syncClear")
      BY <2>4 DEF ClearSlot
    <3> QED BY <1>5, <1>6, <1>7, <3>1, BlankUndamaged DEF Steps
  <2> QED BY <2>1, <2>2, <2>3, <2>4
<1>12. FoundSound(w)'
  <2>1. /\ pc'[w] \in {"syncWriting", "syncDeleting", "syncActive", "syncClear", "failed"}
        /\ pc'[w] \in {"syncWriting", "syncActive"} => pc[w] \in WriteSteps
    BY <1>1 DEF PutWriting, PutDeleting, PutActive, ClearSlot, PutSlot, Goto, TypeOK, WriteSteps
  <2>2. \A t \in Slots \ {slot[w]} : dir'[t] = dir[t]
    BY <1>1 DEF PutWriting, PutDeleting, PutActive, ClearSlot, PutSlot, TypeOK
  <2> QED BY <1>1, <2>1, <2>2, FoundFrame DEF WriteSteps
<1> QED BY <1>11, <1>12

\* A write returns ROMX_OK with its object ACTIVE, so no damaged slot is its own.
LEMMA ReturnDamage ==
  ASSUME Strong, PInv, DInv, NEW w \in Writers, Return(w)
  PROVE  DamageKnown'
<1>1. UNCHANGED <<dir, ddir>> /\ pc[w] \in {"ok", "failed"} /\ Call(w) /\ DamageKnown
  BY DEF Return, region, disk, PInv, DInv
<1>2. CASE pc[w] = "failed"
  <2>1. allowed' = allowed
    BY <1>2 DEF Return
  <2> QED BY <1>1, <2>1, DamageFrame DEF Copies
<1>3. CASE pc[w] = "ok"
  <2>1. /\ Target(w) \in Objects /\ req[w] \in Request
        /\ allowed'[Target(w)] = {req[w].val}
        /\ \A o \in Objects \ {Target(w)} : allowed'[o] = allowed[o]
    BY <1>3, TargetIsObject DEF Return, Strong, Typed, TypeOK, Asked
  <2>2. /\ ddir = dir
        /\ req[w].kind = "write" => \E s \in Slots : ActiveOf(dir[s], Target(w))
        /\ req[w].kind = "delete" => req[w].val = NoVal
    BY <1>1, <1>3 DEF Call, Committed, Withdraws
  <2>3. req[w].kind \in {"write", "delete"}
    BY <2>1 DEF Request
  <2>4. ASSUME NEW s \in Slots, NEW e \in Copies(s), Damaged(e)
        PROVE  /\ e.state = "deleting" /\ e.key \in Keys
               /\ NoVal \in allowed'[Fold[e.key]]
               /\ \A t \in Slots \ {s} : \A f \in Copies(t) : ~ActiveOf(f, Fold[e.key])
    <3>1. /\ e.state = "deleting" /\ e.key \in Keys /\ NoVal \in allowed[Fold[e.key]]
          /\ \A t \in Slots \ {s} : \A f \in Copies(t) : ~ActiveOf(f, Fold[e.key])
      BY <1>1, <2>4 DEF DamageKnown
    <3>2. Fold[e.key] \in Objects /\ e = dir[s]
      BY <2>2, <2>4, <3>1, RegionAssumption DEF Copies
    <3>3. CASE Fold[e.key] = Target(w)
      <4>1. \A t \in Slots : ~ActiveOf(dir[t], Target(w))
        BY <3>1, <3>2, <3>3 DEF ActiveOf, Copies
      <4> QED BY <2>1, <2>2, <2>3, <3>1, <3>3, <4>1
    <3>4. CASE Fold[e.key] # Target(w)
      BY <2>1, <3>1, <3>2, <3>4
    <3> QED BY <3>3, <3>4
  <2> QED BY <1>1, <2>4 DEF DamageKnown, Copies, Damaged
<1> QED BY <1>1, <1>2, <1>3

LEMMA StepDamage ==
  ASSUME OneWriterPerProcess, Strong, PInv, DInv,
         NEW w \in Writers, Step(w) \/ Begin(w) \/ OpenFails(w)
  PROVE  DInv'
<1>1. TypeOK /\ DamageKnown /\ FoundSound(w) /\ Call(w)
  BY DEF Strong, Typed, PInv, DInv
<1>2. ASSUME DamageKnown', FoundSound(w)', Inside(w), \A u \in Writers : u # w => pc'[u] = pc[u]
      PROVE  DInv'
  <2>1. ASSUME NEW u \in Writers, u # w PROVE FoundSound(u)'
    <3>1. pc'[u] \in {"idle", "lock"}
      BY <1>2, <2>1, AloneInside DEF Strong, Inside
    <3> QED BY <3>1 DEF FoundSound, WriteSteps
  <2> QED BY <1>2, <2>1 DEF DInv
<1>3. ASSUME UNCHANGED <<dir, ddir, allowed>>, pc'[w] \in {"idle", "lock", "plan", "failed"},
             \A u \in Writers : u # w =>
               pc'[u] = pc[u] /\ req'[u] = req[u] /\ slot'[u] = slot[u]
      PROVE  DInv'
  <2>1. DamageKnown'
    BY <1>1, <1>3, DamageFrame DEF Copies
  <2>2. FoundSound(w)'
    BY <1>3 DEF FoundSound, WriteSteps
  <2>3. ASSUME NEW u \in Writers, u # w PROVE FoundSound(u)'
    BY <1>3, <2>3, FoundFrame DEF PInv, DInv
  <2> QED BY <2>1, <2>2, <2>3 DEF DInv
<1>4. CASE Begin(w)
  <2>1. /\ UNCHANGED <<dir, ddir, allowed, slot>>
        /\ pc' = [pc EXCEPT ![w] = "lock"] /\ \A u \in Writers : u # w => req'[u] = req[u]
    BY <1>1, <1>4 DEF Begin, BeginWrite, BeginDelete, region, disk, Goto, TypeOK
  <2> QED BY <1>1, <1>3, <2>1 DEF TypeOK
<1>5. CASE OpenFails(w)
  <2>1. /\ UNCHANGED <<dir, ddir, allowed>> /\ Forget({w}) /\ pc' = [pc EXCEPT ![w] = "idle"]
    BY <1>5 DEF OpenFails, region, disk, Goto
  <2>2. /\ pc'[w] = "idle"
        /\ \A u \in Writers : u # w => pc'[u] = pc[u] /\ req'[u] = req[u] /\ slot'[u] = slot[u]
    BY <1>1, <2>1 DEF Forget, TypeOK
  <2> QED BY <1>3, <2>1, <2>2
<1>6. CASE Lock(w) \/ PlanRefuse(w)
  <2>1. /\ UNCHANGED <<dir, ddir, allowed, req, slot>>
        /\ pc' = [pc EXCEPT ![w] = "plan"] \/ pc' = [pc EXCEPT ![w] = "failed"]
    BY <1>6 DEF Lock, PlanRefuse, region, disk, locals, Goto
  <2> QED BY <1>1, <1>3, <2>1 DEF TypeOK
<1>7. CASE PlanReplace(w) \/ PlanCreate(w) \/ PlanDelete(w)
  <2>1. /\ UNCHANGED <<dir, ddir, allowed>> /\ Inside(w)
        /\ \A u \in Writers : u # w => pc'[u] = pc[u]
    BY <1>1, <1>7 DEF PlanReplace, PlanCreate, PlanDelete, Choose, Goto, region, disk, Inside, TypeOK
  <2>2. DamageKnown'
    BY <1>1, <2>1, DamageFrame DEF Copies
  <2> QED BY <1>2, <1>7, <2>1, <2>2, PlanFound
<1>8. CASE PutWriting(w) \/ PutDeleting(w) \/ PutActive(w) \/ ClearSlot(w)
  <2>1. Inside(w) /\ \A u \in Writers : u # w => pc'[u] = pc[u]
    BY <1>1, <1>8 DEF PutWriting, PutDeleting, PutActive, ClearSlot, PutSlot, Goto, Inside, TypeOK
  <2> QED BY <1>2, <1>8, <2>1, PutDamage
<1>9. CASE Syncs(w) \/ CopyChunk(w) \/ CopyFails(w) \/ CopyDone(w)
  <2>1. /\ UNCHANGED <<dir, allowed, req, slot>> /\ Inside(w) /\ ddir' \in {ddir, dir}
        /\ \A u \in Writers : u # w => pc'[u] = pc[u]
        /\ pc'[w] \in WriteSteps => pc[w] \in WriteSteps
        /\ pc'[w] # "putDeleting"
    BY <1>1, <1>9
    DEF Syncs, SyncWriting, SyncData, SyncActive, SyncDeleting, SyncClear, Flush, CopyChunk,
        CopyFails, CopyDone, Goto, region, disk, locals, Inside, TypeOK, WriteSteps
  <2>2. DamageKnown'
    BY <1>1, <2>1, DamageFrame DEF Copies
  <2>3. FoundSound(w)'
    BY <1>1, <2>1, FoundFrame
  <2> QED BY <1>2, <2>1, <2>2, <2>3
<1>10. CASE Return(w)
  <2>1. pc' = [pc EXCEPT ![w] = "idle"] /\ Inside(w)
    BY <1>10 DEF Return, Goto, Inside
  <2>2. FoundSound(w)'
    BY <1>1, <2>1 DEF FoundSound, TypeOK, WriteSteps
  <2>3. \A u \in Writers : u # w => pc'[u] = pc[u]
    BY <1>1, <2>1 DEF TypeOK
  <2> QED BY <1>2, <1>10, <2>1, <2>2, <2>3, ReturnDamage
<1> QED BY <1>4, <1>5, <1>6, <1>7, <1>8, <1>9, <1>10 DEF Step, Syncs

LEMMA DamageInductive ==
  ASSUME OneWriterPerProcess
  PROVE  Strong /\ PInv /\ DInv /\ [Next]_vars => DInv'
<1> SUFFICES ASSUME Strong, PInv, DInv, [Next]_vars PROVE DInv'
  OBVIOUS
<1>1. DamageKnown /\ \A u \in Writers : FoundSound(u) /\ Call(u)
  BY DEF DInv, PInv
<1>2. ASSUME NEW p \in Processes, Kill(p) PROVE DInv'
  <2>1. PICK W : UNCHANGED <<dir, ddir, allowed>> /\ Stop(W)
    BY <1>2 DEF Kill, region, disk
  <2>2. DamageKnown'
    BY <1>1, <2>1, DamageFrame DEF Copies
  <2>3. ASSUME NEW u \in Writers PROVE FoundSound(u)'
    <3>1. pc'[u] = "idle" \/ (pc'[u] = pc[u] /\ req'[u] = req[u] /\ slot'[u] = slot[u])
      BY <2>1 DEF Stop, Forget
    <3>2. CASE pc'[u] = "idle"
      BY <3>2 DEF FoundSound, WriteSteps
    <3> QED BY <1>1, <2>1, <3>1, <3>2, FoundFrame
  <2> QED BY <2>2, <2>3 DEF DInv
<1>3. CASE PowerLoss
  <2>1. PICK S \in SUBSET {s \in Slots : ddir[s] # dir[s]} :
          /\ dir' = [s \in Slots |-> IF s \in S THEN Torn ELSE ddir[s]]
          /\ ddir' = dir' /\ allowed' = allowed
    BY <1>3 DEF PowerLoss
  <2>2. \A s \in Slots : \A e \in Copies(s)' : e \in Copies(s) \/ e = Torn
    BY <2>1 DEF Copies
  <2>3. DamageKnown'
    BY <1>1, <2>1, <2>2, BlankUndamaged, DamageFrame
  <2>4. \A u \in Writers : pc'[u] = "idle"
    BY <1>3 DEF PowerLoss, Stop
  <2> QED BY <2>3, <2>4 DEF DInv, FoundSound, WriteSteps
<1>4. ASSUME (\E s \in Slots : WriteBackSlot(s)) \/ (\E a \in Cells : WriteBackCell(a)) \/ UNCHANGED vars
      PROVE  DInv'
  <2>1. UNCHANGED <<dir, allowed, pc, req, slot>> /\ \A s \in Slots : ddir'[s] \in {ddir[s], dir[s]}
    BY <1>4 DEF WriteBackSlot, WriteBackCell, region, locals, vars, Strong, Typed, TypeOK
  <2>2. DamageKnown'
    BY <1>1, <2>1, DamageFrame DEF Copies
  <2>3. ASSUME NEW u \in Writers PROVE FoundSound(u)'
    BY <1>1, <2>1, FoundFrame
  <2> QED BY <2>2, <2>3 DEF DInv
<1> QED BY <1>2, <1>3, <1>4, StepDamage DEF Next, Environment

\* The parser takes no entry for damaged that a call wrote whole but a deletion's
\* whose generation wrapped (mutable_write.c), and such a slot never stands for
\* an object that a call has promised since. It rests on one writing thread per
\* process.
THEOREM DamageIsOfDeletions == OneWriterPerProcess => (Spec => []DamageIsDeletion)
<1> SUFFICES ASSUME OneWriterPerProcess PROVE Spec => []DamageIsDeletion
  OBVIOUS
<1>1. Strong /\ PInv /\ DInv /\ [Next]_vars => Strong' /\ PInv' /\ DInv'
  BY StrongInductive, PromisedInductive, DamageInductive
<1>2. DInv => DamageIsDeletion
  BY DEF DInv, DamageKnown, DamageIsDeletion, Copies, Damaged
<1> QED BY <1>1, <1>2, InitStrong, InitPromised, InitDamage, PTL DEF Spec

-----------------------------------------------------------------------------
(***************************************************************************)
(* ImplementsStore.  What readers get of an object depends on which other  *)
(* slots conflict with its own, in the page cache and in every mixture of  *)
(* the cache and the disk that write-backs and a power loss can produce.   *)
(***************************************************************************)
\* Two contents of a slot that claim the same object and extent, or nothing.
SameClaim(e, f) ==
  /\ WellFormed(e) <=> WellFormed(f)
  /\ WellFormed(e) => SameExtent(e, f) /\ Fold[e.key] = Fold[f.key]

LEMMA ConflictFacts ==
  ASSUME NEW e, NEW f
  PROVE  /\ Conflict(e, f) <=> Conflict(f, e)
         /\ \A e2, f2 : SameExtent(e, e2) /\ Fold[e.key] = Fold[e2.key]
                          /\ SameExtent(f, f2) /\ Fold[f.key] = Fold[f2.key]
                        => (Conflict(e, f) <=> Conflict(e2, f2))
  BY Zenon DEF Conflict, Overlap, SameExtent

LEMMA ClaimsConflict ==
  ASSUME NEW e, NEW e2, NEW f, NEW f2, SameClaim(e, e2), SameClaim(f, f2),
         WellFormed(e) \/ WellFormed(e2), WellFormed(f) \/ WellFormed(f2)
  PROVE  Conflict(e, f) <=> Conflict(e2, f2)
<1>1. SameExtent(e, e2) /\ Fold[e.key] = Fold[e2.key] /\ SameExtent(f, f2) /\ Fold[f.key] = Fold[f2.key]
  BY Zenon DEF SameClaim
<1> QED BY <1>1, ConflictFacts, Zenon

\* When a region's slots keep their claims, save perhaps for one usable slot
\* that loses its own, every slot that kept its claim reaches its turn as before ...
LEMMA TurnsAgree ==
  ASSUME NEW d1, NEW d2, NEW x \in Slots,
         \A s \in Slots : s # x => SameClaim(d1[s], d2[s]),
         SameClaim(d1[x], d2[x]) \/ (x \in Usable(d1) /\ ~WellFormed(d2[x]))
  PROVE  \A s \in Slots : SameClaim(d1[s], d2[s]) => (s \in ReachTurn(d1) <=> s \in ReachTurn(d2))
<1> DEFINE T1 == ReachTurn(d1)
           T2 == ReachTurn(d2)
           Odd == {s \in Slots : SameClaim(d1[s], d2[s]) /\ ~(s \in T1 <=> s \in T2)}
<1>1. T1 \subseteq {s \in Slots : WellFormed(d1[s])}
      /\ \A s \in Slots : s \in T1 <=> Unmarked(d1, T1, s, s)
  BY TurnsDefined, Zenon
<1>2. T2 \subseteq {s \in Slots : WellFormed(d2[s])}
      /\ \A s \in Slots : s \in T2 <=> Unmarked(d2, T2, s, s)
  BY TurnsDefined, Zenon
<1>u. x \in Usable(d1) => \A t \in Slots : t > x /\ Unmarked(d1, T1, x, t) => ~Conflict(d1[x], d1[t])
  BY UsableIsKept, Zenon DEF Kept
<1> HIDE DEF T1, T2
<1>3. ASSUME Odd # {} PROVE FALSE
  <2>1. Slots \subseteq Nat
    BY RegionAssumption DEF Slots
  <2>2. PICK s \in Odd : \A y \in Odd : s <= y
    BY <1>3, <2>1, LeastNatural
  <2>3. s \in Slots /\ SameClaim(d1[s], d2[s]) /\ ~(s \in T1 <=> s \in T2)
    BY <2>2
  <2>4. \A t \in Slots : t < s /\ SameClaim(d1[t], d2[t]) => (t \in T1 <=> t \in T2)
    BY <2>1, <2>2
  <2> HIDE DEF Odd
  <2>5. CASE s \in T1
    <3>1. WellFormed(d1[s]) /\ WellFormed(d2[s])
      BY <1>1, <2>3, <2>5, Zenon DEF SameClaim
    <3>2. ASSUME NEW t \in T2, t < s PROVE ~Conflict(d2[t], d2[s])
      <4>1. t \in Slots /\ WellFormed(d2[t])
        BY <1>2
      <4>2. SameClaim(d1[t], d2[t])
        BY <4>1
      <4>3. t \in T1
        BY <2>4, <3>2, <4>1, <4>2
      <4>4. ~Conflict(d1[t], d1[s])
        BY <1>1, <2>3, <2>5, <3>2, <4>3 DEF Unmarked
      <4> QED BY <2>3, <3>1, <4>1, <4>2, <4>4, ClaimsConflict, Zenon
    <3>3. s \in T2
      BY <1>2, <2>3, <3>1, <3>2, Zenon DEF Unmarked
    <3> QED BY <2>3, <2>5, <3>3
  <2>6. CASE s \in T2
    <3>1. WellFormed(d1[s]) /\ WellFormed(d2[s])
      BY <1>2, <2>3, <2>6, Zenon DEF SameClaim
    <3>2. ASSUME NEW t \in T1, t < s, SameClaim(d1[t], d2[t]) PROVE ~Conflict(d1[t], d1[s])
      <4>1. t \in Slots /\ WellFormed(d1[t])
        BY <1>1
      <4>2. t \in T2
        BY <2>4, <3>2, <4>1
      <4>3. ~Conflict(d2[t], d2[s])
        BY <1>2, <2>3, <2>6, <3>2, <4>2 DEF Unmarked
      <4> QED BY <2>3, <3>1, <3>2, <4>1, <4>3, ClaimsConflict, Zenon
    <3>3. ASSUME NEW t \in T1, t < s, ~SameClaim(d1[t], d2[t]) PROVE ~Conflict(d1[t], d1[s])
      <4>1. t \in Slots /\ t = x /\ x \in Usable(d1)
        BY <1>1, <3>3
      <4>2. SUFFICES ASSUME Conflict(d1[x], d1[s]) PROVE FALSE
        BY <4>1
      <4>3. ~Unmarked(d1, T1, x, s)
        BY <1>u, <2>1, <2>3, <3>3, <4>1, <4>2
      <4>4. PICK r \in T1 : r < x /\ Conflict(d1[r], d1[s])
        BY <3>1, <4>3, Zenon DEF Unmarked
      <4>5. r \in Slots /\ r # x /\ r < s
        BY <1>1, <2>1, <2>3, <3>3, <4>1, <4>4
      <4> QED BY <3>2, <4>4, <4>5
    <3>4. s \in T1
      BY <1>1, <2>3, <3>1, <3>2, <3>3, Zenon DEF Unmarked
    <3> QED BY <2>3, <2>6, <3>4
  <2> QED BY <2>3, <2>5, <2>6
<1> QED BY <1>3 DEF T1, T2

\* ... and is usable as before.
LEMMA UsableAgree ==
  ASSUME NEW d1, NEW d2, NEW x \in Slots,
         \A s \in Slots : s # x => SameClaim(d1[s], d2[s]),
         SameClaim(d1[x], d2[x]) \/ (x \in Usable(d1) /\ ~WellFormed(d2[x]))
  PROVE  \A s \in Slots : SameClaim(d1[s], d2[s]) => (s \in Usable(d1) <=> s \in Usable(d2))
<1> DEFINE T1 == ReachTurn(d1)
           T2 == ReachTurn(d2)
<1>1. T1 \subseteq {s \in Slots : WellFormed(d1[s])}
      /\ \A s \in Slots : s \in T1 <=> Unmarked(d1, T1, s, s)
  BY TurnsDefined, Zenon
<1>2. T2 \subseteq {s \in Slots : WellFormed(d2[s])}
      /\ \A s \in Slots : s \in T2 <=> Unmarked(d2, T2, s, s)
  BY TurnsDefined, Zenon
<1>3. \A s \in Slots : SameClaim(d1[s], d2[s]) => (s \in T1 <=> s \in T2)
  BY TurnsAgree
<1>4. \A s \in Slots : s \in Usable(d1) <=>
        s \in T1 /\ \A t \in Slots : t > s /\ Unmarked(d1, T1, s, t) => ~Conflict(d1[s], d1[t])
  BY <1>1, UsableIsKept, Zenon DEF Kept
<1>5. \A s \in Slots : s \in Usable(d2) <=>
        s \in T2 /\ \A t \in Slots : t > s /\ Unmarked(d2, T2, s, t) => ~Conflict(d2[s], d2[t])
  BY <1>2, UsableIsKept, Zenon DEF Kept
<1> HIDE DEF T1, T2
<1>6. Slots \subseteq Nat
  BY RegionAssumption DEF Slots
<1> SUFFICES ASSUME NEW s \in Slots, SameClaim(d1[s], d2[s])
             PROVE  s \in Usable(d1) <=> s \in Usable(d2)
  OBVIOUS
<1>7. ASSUME s \in Usable(d1) PROVE s \in Usable(d2)
  <2>1. s \in T1 /\ s \in T2 /\ WellFormed(d1[s])
    BY <1>1, <1>3, <1>4, <1>7
  <2>2. ASSUME NEW t \in Slots, t > s, Unmarked(d2, T2, s, t) PROVE ~Conflict(d2[s], d2[t])
    <3>1. WellFormed(d2[t]) /\ SameClaim(d1[t], d2[t])
      BY <2>2 DEF Unmarked
    <3>2. WellFormed(d1[t])
      BY <3>1, Zenon DEF SameClaim
    <3>3. ASSUME NEW r \in T1, r < s, SameClaim(d1[r], d2[r]) PROVE ~Conflict(d1[r], d1[t])
      <4>1. r \in Slots /\ r \in T2 /\ WellFormed(d1[r])
        BY <1>1, <1>3, <3>3
      <4>2. ~Conflict(d2[r], d2[t])
        BY <2>2, <3>3, <4>1 DEF Unmarked
      <4> QED BY <3>1, <3>2, <3>3, <4>1, <4>2, ClaimsConflict, Zenon
    <3>4. ASSUME NEW r \in T1, r < s, ~SameClaim(d1[r], d2[r]) PROVE ~Conflict(d1[r], d1[t])
      <4>1. r \in Slots /\ r = x /\ x \in Usable(d1)
        BY <1>1, <3>4
      <4>2. SUFFICES ASSUME Conflict(d1[x], d1[t]) PROVE FALSE
        BY <4>1
      <4>3. ~Unmarked(d1, T1, x, t)
        BY <1>4, <1>6, <2>2, <3>4, <4>1, <4>2
      <4>4. PICK q \in T1 : q < x /\ Conflict(d1[q], d1[t])
        BY <3>2, <4>3, Zenon DEF Unmarked
      <4>5. q \in Slots /\ q # x /\ q < s
        BY <1>1, <1>6, <3>4, <4>1, <4>4
      <4> QED BY <3>3, <4>4, <4>5
    <3>5. Unmarked(d1, T1, s, t)
      BY <3>2, <3>3, <3>4, Zenon DEF Unmarked
    <3>6. ~Conflict(d1[s], d1[t])
      BY <1>4, <1>7, <2>2, <3>5
    <3> QED BY <2>1, <3>1, <3>2, <3>6, ClaimsConflict, Zenon
  <2> QED BY <1>5, <2>1, <2>2
<1>8. ASSUME s \in Usable(d2) PROVE s \in Usable(d1)
  <2>1. s \in T1 /\ s \in T2 /\ WellFormed(d2[s]) /\ WellFormed(d1[s])
    BY <1>1, <1>2, <1>3, <1>5, <1>8
  <2>2. ASSUME NEW t \in Slots, t > s, Unmarked(d1, T1, s, t), SameClaim(d1[t], d2[t])
        PROVE  ~Conflict(d1[s], d1[t])
    <3>1. WellFormed(d1[t]) /\ WellFormed(d2[t])
      BY <2>2, Zenon DEF Unmarked, SameClaim
    <3>2. ASSUME NEW r \in T2, r < s PROVE ~Conflict(d2[r], d2[t])
      <4>1. r \in Slots /\ WellFormed(d2[r]) /\ SameClaim(d1[r], d2[r])
        BY <1>2
      <4>2. r \in T1
        BY <1>3, <4>1
      <4>3. ~Conflict(d1[r], d1[t])
        BY <2>2, <3>2, <4>2 DEF Unmarked
      <4> QED BY <2>2, <3>1, <4>1, <4>3, ClaimsConflict, Zenon
    <3>3. Unmarked(d2, T2, s, t)
      BY <3>1, <3>2, Zenon DEF Unmarked
    <3>4. ~Conflict(d2[s], d2[t])
      BY <1>5, <1>8, <2>2, <3>3
    <3> QED BY <2>1, <2>2, <3>1, <3>4, ClaimsConflict, Zenon
  <2>3. ASSUME NEW t \in Slots, t > s, ~SameClaim(d1[t], d2[t]) PROVE ~Conflict(d1[s], d1[t])
    <3>1. t = x /\ x \in T1
      BY <1>4, <2>3
    <3>2. s < x
      BY <1>6, <2>3, <3>1
    <3> QED BY <1>1, <2>1, <3>1, <3>2 DEF Unmarked
  <2> QED BY <1>4, <2>1, <2>2, <2>3
<1> QED BY <1>7, <1>8

\* A slot with a single rival is usable when an earlier slot marks that rival.
LEMMA OnlyRival ==
  ASSUME NEW d, NEW a \in Slots, NEW x \in Slots, a # x,
         WellFormed(d[a]), WellFormed(d[x]), Conflict(d[a], d[x]),
         \A t \in Slots \ {a, x} : WellFormed(d[t]) => ~Conflict(d[a], d[t])
  PROVE  a \in Usable(d) <=> \E g \in ReachTurn(d) : g < a /\ g < x /\ Conflict(d[g], d[x])
<1> DEFINE T == ReachTurn(d)
<1>1. T \subseteq {s \in Slots : WellFormed(d[s])} /\ \A s \in Slots : s \in T <=> Unmarked(d, T, s, s)
  BY TurnsDefined, Zenon
<1>2. \A s \in Slots : s \in Usable(d) <=>
        s \in T /\ \A t \in Slots : t > s /\ Unmarked(d, T, s, t) => ~Conflict(d[s], d[t])
  BY <1>1, UsableIsKept, Zenon DEF Kept
<1> HIDE DEF T
<1>3. Slots \subseteq Nat
  BY RegionAssumption DEF Slots
<1>4. \A e, f : Conflict(e, f) <=> Conflict(f, e)
  BY ConflictFacts, Zenon
<1>5. ASSUME a \in Usable(d) PROVE \E g \in T : g < a /\ g < x /\ Conflict(d[g], d[x])
  <2>1. CASE x < a
    <3>1. x \notin T
      BY <1>1, <1>2, <1>4, <1>5, <2>1 DEF Unmarked
    <3>2. PICK g \in T : g < x /\ Conflict(d[g], d[x])
      BY <1>1, <3>1, Zenon DEF Unmarked
    <3>3. g < a
      BY <1>1, <1>3, <2>1, <3>2
    <3> QED BY <3>2, <3>3
  <2>2. CASE a < x
    <3>1. ~Unmarked(d, T, a, x)
      BY <1>2, <1>3, <1>5, <2>2
    <3>2. PICK g \in T : g < a /\ Conflict(d[g], d[x])
      BY <3>1, Zenon DEF Unmarked
    <3>3. g < x
      BY <1>1, <1>3, <2>2, <3>2
    <3> QED BY <3>2, <3>3
  <2> QED BY <1>3, <2>1, <2>2
<1>6. ASSUME NEW g \in T, g < a, g < x, Conflict(d[g], d[x]) PROVE a \in Usable(d)
  <2>1. x \notin T
    BY <1>1, <1>6 DEF Unmarked
  <2>2. ASSUME NEW t \in T, t < a PROVE ~Conflict(d[t], d[a])
    <3>1. t \in Slots \ {a, x} /\ WellFormed(d[t])
      BY <1>1, <1>3, <2>1, <2>2
    <3> QED BY <1>4, <3>1
  <2>3. a \in T
    BY <1>1, <2>2, Zenon DEF Unmarked
  <2>4. ASSUME NEW t \in Slots, t > a, Unmarked(d, T, a, t) PROVE ~Conflict(d[a], d[t])
    <3>1. t # x
      BY <1>6, <2>4 DEF Unmarked
    <3>2. t # a /\ WellFormed(d[t])
      BY <1>3, <2>4 DEF Unmarked
    <3> QED BY <3>1, <3>2
  <2> QED BY <1>2, <2>3, <2>4
<1> QED BY <1>5, <1>6 DEF T

-----------------------------------------------------------------------------
\* A region some of whose slots are those of the one and the others those of
\* the other; and one in which slots on their way may also be half written.
Mix(m, from, to) == \A s \in Slots : m[s] \in {from[s], to[s]}
Between(m, from, to) == \A s \in Slots : m[s] \in {from[s], to[s]} \/ (m[s] = Torn /\ from[s] # to[s])

\* An ACTIVE entry is replaced by way of one that is not, on the disk too.
OneVersion ==
  \A s \in Slots : dir[s].state = "active" /\ ddir[s].state = "active" => dir[s] = ddir[s]

\* The disk still holds an entry whose slot was cleared, and perhaps used again.
Ghost(s) ==
  /\ WellFormed(ddir[s])
  /\ dir[s] = Free \/ (WellFormed(dir[s]) /\ ~SameClaim(ddir[s], dir[s]))

\* No ghost is of an object that has an ACTIVE entry, ...
NoGhostOf ==
  \A o \in Objects, a, b \in Slots :
    /\ a # b
    /\ \E e \in Copies(a) : ActiveOf(e, o)
    /\ WellFormed(ddir[b])
    /\ IsOf(ddir[b], o)
    => SameClaim(ddir[b], dir[b])

\* ... there is one at a time, since a deletion flushes before it clears, ...
OneGhost == \A s, t \in Slots : Ghost(s) /\ Ghost(t) => s = t

\* ... and what it conflicts with on the disk stays as it was.
GhostsUntouched ==
  \A u, v \in Slots :
    Ghost(u) /\ v # u /\ WellFormed(ddir[v]) /\ Conflict(ddir[u], ddir[v]) => dir[v] = ddir[v]

\* Whether an ACTIVE entry of the cache is usable does not depend on which of
\* the other slots have been written back ...
Mixed ==
  \A a \in Slots : dir[a].state = "active" =>
    \A m \in [Slots -> Entry] :
      Between(m, ddir, dir) /\ m[a] = dir[a] => (a \in Usable(m) <=> a \in Usable(dir))

\* ... and one that the disk alone still has does not become usable again.
Receding ==
  \A a \in Slots : ddir[a].state = "active" /\ dir[a].state # "active" =>
    \A m1, m2 \in [Slots -> Entry] :
      Mix(m1, ddir, dir) /\ Between(m2, m1, dir) /\ m1[a] = ddir[a] /\ m2[a] = ddir[a]
        => (a \in Usable(m2) => a \in Usable(m1))

Steady == OneVersion /\ NoGhostOf /\ OneGhost /\ GhostsUntouched /\ Mixed /\ Receding

\* A call works in the slot that its object has and that readers find, ...
InPlace(w) ==
  /\ pc[w] \in {"putWriting", "putDeleting"} =>
       ActiveOf(dir[slot[w]], Target(w)) /\ SameExtent(dir[slot[w]], ent[w])
  /\ WellFormed(dir[slot[w]]) => slot[w] \in Usable(dir)

\* ... or in a slot it found empty, in a region without conflicts.
Fresh(w) ==
  /\ pc[w] \in WriteSteps
  /\ \A s \in Slots \ {slot[w]} : dir[s] = Free \/ WellFormed(dir[s])
  /\ \A s, t \in Slots \ {slot[w]} :
       s # t /\ WellFormed(dir[s]) /\ WellFormed(dir[t]) => ~Conflict(dir[s], dir[t])
  /\ pc[w] = "putWriting" => dir[slot[w]] = Free

Placed(w) == pc[w] \in WriteSteps \cup DeleteSteps => InPlace(w) \/ Fresh(w)

LEMMA InitSteady == TypeOK /\ Init => Steady /\ \A w \in Writers : Placed(w)
<1> SUFFICES ASSUME TypeOK, Init PROVE Steady /\ \A w \in Writers : Placed(w)
  OBVIOUS
<1>1. ddir = dir /\ (\A s \in Slots : dir[s] = Free) /\ \A w \in Writers : pc[w] = "idle"
  BY DEF Init
<1>2. \A s \in Slots : dir[s].state # "active" /\ ddir[s].state # "active" /\ ~WellFormed(ddir[s])
  BY <1>1, BlankFacts, Zenon
<1>3. \A w \in Writers : Placed(w)
  BY <1>1 DEF Placed, WriteSteps, DeleteSteps
<1> QED BY <1>2, <1>3, Zenon DEF Steady, OneVersion, NoGhostOf, OneGhost, GhostsUntouched, Mixed, Receding, Ghost

LEMMA SteadyFrame ==
  ASSUME Steady, UNCHANGED <<dir, ddir>>
  PROVE  Steady'
  BY DEF Steady, OneVersion, NoGhostOf, OneGhost, GhostsUntouched, Mixed, Receding, Ghost, Mix, Between, Copies

LEMMA SameClaimFacts ==
  /\ \A e : SameClaim(e, e)
  /\ \A e, f : SameClaim(e, f) <=> SameClaim(f, e)
  /\ \A e, f, g : SameClaim(e, f) /\ SameClaim(f, g) => SameClaim(e, g)
  BY Zenon DEF SameClaim, SameExtent

\* The disk may follow the cache in any order.
LEMMA SteadySync ==
  ASSUME TypeOK, Steady, UNCHANGED dir, DiskFollows, ddir' \in [Slots -> Entry]
  PROVE  Steady'
<1>1. \A s \in Slots : ddir'[s] \in {ddir[s], dir[s]} /\ dir'[s] = dir[s]
  BY DEF DiskFollows
<1>2. \A s \in Slots : Ghost(s)' => Ghost(s) /\ ddir'[s] = ddir[s]
  BY <1>1, SameClaimFacts, BlankFacts, Zenon DEF Ghost
<1>3. OneVersion'
  BY <1>1 DEF Steady, OneVersion
<1>4. NoGhostOf'
  <2> SUFFICES ASSUME NEW o \in Objects, NEW a \in Slots, NEW b \in Slots, a # b,
                      NEW e \in Copies(a)', ActiveOf(e, o), WellFormed(ddir'[b]), IsOf(ddir'[b], o)
               PROVE  SameClaim(ddir'[b], dir'[b])
    BY Zenon DEF NoGhostOf
  <2>1. e \in Copies(a)
    BY <1>1 DEF Copies
  <2>2. CASE ddir'[b] = ddir[b]
    BY <1>1, <2>1, <2>2, Zenon DEF Steady, NoGhostOf
  <2>3. CASE ddir'[b] = dir[b]
    BY <1>1, <2>3, SameClaimFacts, Zenon
  <2> QED BY <1>1, <2>2, <2>3
<1>5. OneGhost'
  BY <1>2, Zenon DEF Steady, OneGhost
<1>6. GhostsUntouched'
  <2> SUFFICES ASSUME NEW u \in Slots, NEW v \in Slots, Ghost(u)', v # u,
                      WellFormed(ddir'[v]), Conflict(ddir'[u], ddir'[v])
               PROVE  dir'[v] = ddir'[v]
    BY Zenon DEF GhostsUntouched
  <2>1. CASE ddir'[v] = ddir[v]
    BY <1>1, <1>2, <2>1, Zenon DEF Steady, GhostsUntouched
  <2> QED BY <1>1, <2>1
<1>7. ASSUME NEW m, Between(m, ddir', dir') PROVE Between(m, ddir, dir)
  BY <1>1, <1>7 DEF Between
<1>8. ASSUME NEW m, Mix(m, ddir', dir') PROVE Mix(m, ddir, dir)
  BY <1>1, <1>8 DEF Mix
<1>9. Mixed'
  <2> SUFFICES ASSUME NEW a \in Slots, dir'[a].state = "active", NEW m \in [Slots -> Entry],
                      Between(m, ddir', dir'), m[a] = dir'[a]
               PROVE  a \in Usable(m) <=> a \in Usable(dir')
    BY Zenon DEF Mixed
  <2>1. Between(m, ddir, dir)
    BY <1>7
  <2> QED BY <1>1, <2>1 DEF Steady, Mixed
<1>10. Receding'
  <2> SUFFICES ASSUME NEW a \in Slots, ddir'[a].state = "active", dir'[a].state # "active",
                      NEW m1 \in [Slots -> Entry], NEW m2 \in [Slots -> Entry],
                      Mix(m1, ddir', dir'), Between(m2, m1, dir'), m1[a] = ddir'[a], m2[a] = ddir'[a],
                      a \in Usable(m2)
               PROVE  a \in Usable(m1)
    BY Zenon DEF Receding
  <2>1. Mix(m1, ddir, dir)
    BY <1>8
  <2>2. ddir'[a] = ddir[a] /\ dir[a].state # "active"
    BY <1>1
  <2>3. Between(m2, m1, dir)
    OBVIOUS
  <2> QED BY <2>1, <2>2, <2>3 DEF Steady, Receding
<1> QED BY <1>3, <1>4, <1>5, <1>6, <1>9, <1>10 DEF Steady

\* A power loss leaves the cache and the disk with one directory.
LEMMA SteadyPowerLoss ==
  ASSUME ddir' = dir', dir' \in [Slots -> Entry]
  PROVE  Steady'
<1>a. \A s \in Slots : ddir'[s] = dir'[s]
  OBVIOUS
<1>b. ASSUME NEW s \in Slots PROVE ~Ghost(s)'
  <2>1. SameClaim(ddir'[s], dir'[s])
    BY <1>a, SameClaimFacts, Zenon
  <2>2. WellFormed(ddir'[s]) => dir'[s] # Free
    BY <1>a, BlankFacts, Zenon
  <2> QED BY <2>1, <2>2, Zenon DEF Ghost
<1>1. \A s \in Slots : ddir'[s] = dir'[s] /\ ~Ghost(s)'
  BY <1>a, <1>b, Zenon
<1>c. \A s \in Slots : SameClaim(ddir'[s], dir'[s])
  BY <1>a, SameClaimFacts, Zenon
<1>2. OneVersion' /\ NoGhostOf' /\ OneGhost' /\ GhostsUntouched'
  BY <1>1, <1>c, Zenon DEF OneVersion, NoGhostOf, OneGhost, GhostsUntouched
<1>3. Receding'
  BY <1>1, Zenon DEF Receding
<1>4. Mixed'
  <2> SUFFICES ASSUME NEW a \in Slots, dir'[a].state = "active", NEW m \in [Slots -> Entry],
                      Between(m, ddir', dir'), m[a] = dir'[a]
               PROVE  a \in Usable(m) <=> a \in Usable(dir')
    BY Zenon DEF Mixed
  <2>1. \A s \in Slots : m[s] = dir'[s]
    BY <1>1 DEF Between
  <2>2. m = dir'
    BY <2>1
  <2> QED BY <2>2
<1> QED BY <1>2, <1>3, <1>4 DEF Steady

-----------------------------------------------------------------------------
(***************************************************************************)
(* Where a call works, and what its slot writes can disturb.               *)
(***************************************************************************)
LEMMA PlanPlaced ==
  ASSUME TypeOK, ActiveSound, NEW w \in Writers, Asked(w),
         PlanReplace(w) \/ PlanCreate(w) \/ PlanDelete(w)
  PROVE  Placed(w)'
<1>1. UNCHANGED <<dir, req>> /\ pc[w] = "plan" /\ Target(w)' = Target(w)
  BY DEF PlanReplace, PlanCreate, PlanDelete, region, Target
<1>2. ASSUME Found(w) # {}
      PROVE  /\ Current(w) \in Slots /\ Current(w) \in Usable(dir)
             /\ ActiveOf(dir[Current(w)], Target(w)) /\ dir[Current(w)] \in Entry
  <2>1. Current(w) \in Found(w)
    BY <1>2 DEF Current
  <2> HIDE DEF Current
  <2>2. WellFormed(dir[Current(w)]) /\ Current(w) \in Slots
    BY <2>1, UsableWellFormed DEF Found, Holding
  <2> QED BY <2>1, <2>2 DEF Found, Holding, ActiveOf, IsOf, WellFormed, Fits, TypeOK
<1>3. ASSUME Found(w) # {}, slot'[w] = Current(w), SameExtent(dir[Current(w)], ent'[w])
      PROVE  Placed(w)'
  <2> DEFINE s == Current(w)
  <2>1. s \in Usable(dir) /\ ActiveOf(dir[s], Target(w)) /\ SameExtent(dir[s], ent'[w]) /\ slot'[w] = s
    BY <1>2, <1>3
  <2> HIDE DEF s
  <2>2. InPlace(w)'
    BY <1>1, <2>1 DEF InPlace
  <2> QED BY <2>2 DEF Placed
<1>4. CASE PlanReplace(w)
  <2> DEFINE old == dir[Current(w)]
             new == NewEntry(w, "writing", old.off, old.cap, NextGen(old.gen))
  <2>1. Found(w) # {} /\ slot'[w] = Current(w) /\ ent'[w] = new
    BY <1>4 DEF PlanReplace, MayReplace, Choose, TypeOK
  <2>2. SameExtent(old, new)
    BY DEF SameExtent, NewEntry
  <2> QED BY <1>3, <2>1, <2>2
<1>5. CASE PlanDelete(w)
  <2> DEFINE old == dir[Current(w)]
             new == [old EXCEPT !.state = "deleting", !.key = req[w].key, !.gen = NextGen(old.gen)]
  <2>1. Found(w) # {} /\ slot'[w] = Current(w) /\ ent'[w] = new
    BY <1>5 DEF PlanDelete, Choose, TypeOK
  <2>2. SameExtent(old, new)
    <3>1. old \in Entry
      BY <1>2, <2>1
    <3> QED BY <3>1 DEF SameExtent, Entry
  <2> QED BY <1>3, <2>1, <2>2
<1>6. CASE PlanCreate(w)
  <2>1. ~Degraded(dir) /\ slot'[w] = FirstFree /\ pc'[w] = "putWriting" /\ FreeSlots # {}
    BY <1>6 DEF PlanCreate, MayCreate, Choose, Goto, TypeOK
  <2>2. FirstFree \in Slots /\ dir[FirstFree] = Free
    BY <2>1, FirstFreeIsFree
  <2>3. \A s \in Slots : dir[s] = Free \/ WellFormed(dir[s])
    BY <2>1, UsableWhenValid DEF TypeOK
  <2>4. \A s, t \in Slots : s # t /\ WellFormed(dir[s]) /\ WellFormed(dir[t]) => ~Conflict(dir[s], dir[t])
    BY <2>1, Zenon DEF Degraded
  <2>5. pc'[w] \in WriteSteps /\ pc'[w] = "putWriting"
    BY <2>1 DEF WriteSteps
  <2>6. Fresh(w)'
    BY <1>1, <2>1, <2>2, <2>3, <2>4, <2>5, Zenon DEF Fresh
  <2> QED BY <2>6 DEF Placed
<1> QED BY <1>4, <1>5, <1>6

Puts == {"putWriting", "putActive", "putDeleting", "clear"}

\* An entry that claims nothing but what the call has planned.
Claims(w, e) == WellFormed(e) => SameExtent(e, ent[w]) /\ IsOf(e, Target(w))

\* A call that is about to write its slot.
AtPut(w) ==
  /\ pc[w] \in Puts
  /\ slot[w] \in Slots
  /\ Target(w) \in Objects
  /\ Planned(w) /\ Committing(w) /\ Placed(w)
  /\ Claims(w, dir[slot[w]])
  /\ pc[w] \in {"putActive", "clear"} => ddir = dir /\ dir[slot[w]].state # "active"
  /\ pc[w] = "putActive" => WellFormed(dir[slot[w]])
  /\ \/ Fresh(w) /\ pc[w] \in {"putWriting", "putActive"}
     \/ InPlace(w) /\ (pc[w] # "clear" => WellFormed(dir[slot[w]]))

\* What it leaves in the slot.
Leaves(w, e) ==
  /\ e \in Entry
  /\ Claims(w, e)
  /\ pc[w] = "clear" => ~WellFormed(e)
  /\ e = Free => pc[w] = "clear"
  /\ e.state = "active" => pc[w] = "putActive" /\ IsOf(e, Target(w)) /\ e.val = req[w].val

LEMMA PutSituation ==
  ASSUME Strong, PInv, NEW w \in Writers, Placed(w), pc[w] \in Puts
  PROVE  AtPut(w) /\ Claims(w, ent[w]) /\ Fits(ent[w]) /\ ent[w] \in Entry
<1>1. /\ TypeOK /\ ActiveSound /\ Planned(w) /\ Progress(w) /\ Committing(w) /\ Asked(w)
      /\ pc[w] \in WriteSteps \cup DeleteSteps /\ pc[w] # "idle"
  BY DEF Strong, Typed, RegionSound, Apart, PInv, Call, Puts, WriteSteps, DeleteSteps
<1>2. Target(w) \in Objects /\ slot[w] \in Slots /\ Fits(ent[w]) /\ ent[w] \in Entry
  BY <1>1, TargetIsObject DEF Planned, TypeOK
<1>3. Claims(w, ent[w])
  BY <1>1, <1>2 DEF Claims, SameExtent, IsOf, Committing, Target, Fits
<1>4. CASE pc[w] \in {"putActive", "clear"}
  <2>1. ddir = dir /\ dir[slot[w]] = ent[w] /\ ent[w].state \in {"writing", "deleting"}
        /\ (pc[w] = "putActive" => ent[w].state = "writing" /\ ent[w].gen > 0)
    BY <1>1, <1>4 DEF Progress, WriteSteps, DeleteSteps
  <2>2. pc[w] = "putActive" => WellFormed(ent[w])
    BY <1>2, <2>1 DEF WellFormed, EntryStates
  <2>3. dir[slot[w]].state # "active"
    BY <2>1
  <2>4. Fresh(w) => pc[w] \in {"putWriting", "putActive"}
    BY <1>4 DEF Fresh, WriteSteps
  <2> QED BY <1>1, <1>2, <1>3, <1>4, <2>1, <2>2, <2>3, <2>4 DEF AtPut, Placed
<1>5. CASE pc[w] \in {"putWriting", "putDeleting"}
  <2>1. CASE Fresh(w)
    <3>1. pc[w] = "putWriting" /\ dir[slot[w]] = Free
      BY <1>5, <2>1 DEF Fresh, WriteSteps
    <3>2. Claims(w, dir[slot[w]])
      BY <3>1, BlankFacts DEF Claims
    <3> QED BY <1>1, <1>2, <1>3, <2>1, <3>1, <3>2 DEF AtPut
  <2>2. CASE InPlace(w)
    <3>1. ActiveOf(dir[slot[w]], Target(w)) /\ SameExtent(dir[slot[w]], ent[w])
      BY <1>5, <2>2 DEF InPlace
    <3>2. WellFormed(dir[slot[w]]) /\ Claims(w, dir[slot[w]])
      BY <1>1, <1>2, <3>1 DEF ActiveSound, ActiveOf, Claims
    <3> QED BY <1>1, <1>2, <1>3, <1>5, <2>2, <3>2 DEF AtPut
  <2> QED BY <1>1, <2>1, <2>2 DEF Placed
<1> QED BY <1>4, <1>5 DEF Puts

LEMMA PutForms ==
  ASSUME Strong, PInv, NEW w \in Writers, Placed(w),
         PutWriting(w) \/ PutDeleting(w) \/ PutActive(w) \/ ClearSlot(w)
  PROVE  /\ AtPut(w) /\ ddir' = ddir
         /\ \/ dir' = dir /\ pc'[w] = "failed"
            \/ \E e : /\ Leaves(w, e)
                      /\ dir' = [dir EXCEPT ![slot[w]] = e]
                      /\ \/ pc'[w] = "failed"
                         \/ <<pc[w], pc'[w]>> \in {<<"putWriting", "syncWriting">>, <<"putActive", "syncActive">>,
                                                  <<"putDeleting", "syncDeleting">>, <<"clear", "syncClear">>}
<1>1. pc[w] \in Puts /\ UNCHANGED <<ddir, req, slot, ent>>
  BY DEF PutWriting, PutDeleting, PutActive, ClearSlot, PutSlot, disk, locals, Puts
<1>2. TypeOK /\ AtPut(w) /\ Claims(w, ent[w]) /\ Fits(ent[w]) /\ ent[w] \in Entry
      /\ Progress(w) /\ Committing(w)
  BY <1>1, PutSituation DEF Strong, Typed, Apart, PInv, Call
<1>3. ASSUME NEW e, NEW step \in Steps, PutSlot(w, e, step)
      PROVE  \/ dir' = dir /\ pc'[w] = "failed"
             \/ dir' = [dir EXCEPT ![slot[w]] = Torn] /\ pc'[w] = "failed"
             \/ dir' = [dir EXCEPT ![slot[w]] = e] /\ pc'[w] = step
  BY <1>2, <1>3 DEF PutSlot, Goto, TypeOK
<1>4. Leaves(w, Torn)
  BY BlankFacts, BlankTypes DEF Leaves, Claims
<1>5. CASE PutWriting(w) \/ PutDeleting(w)
  <2>1. pc[w] \in {"putWriting", "putDeleting"} /\ ent[w].state \in {"writing", "deleting"}
    BY <1>2, <1>5 DEF PutWriting, PutDeleting, Progress, WriteSteps, DeleteSteps
  <2>2. Leaves(w, ent[w])
    BY <1>2, <2>1 DEF Leaves, Free, Blank
  <2>3. \/ pc[w] = "putWriting" /\ PutSlot(w, ent[w], "syncWriting")
        \/ pc[w] = "putDeleting" /\ PutSlot(w, ent[w], "syncDeleting")
    BY <1>5 DEF PutWriting, PutDeleting
  <2> QED BY <1>1, <1>2, <1>3, <1>4, <2>2, <2>3 DEF Steps
<1>6. CASE PutActive(w)
  <2> DEFINE a == [ent[w] EXCEPT !.state = "active"]
  <2>1. pc[w] = "putActive" /\ PutSlot(w, a, "syncActive")
    BY <1>6 DEF PutActive
  <2>2. a \in Entry /\ a.state = "active" /\ a.key = ent[w].key /\ a.val = ent[w].val /\ SameExtent(a, ent[w])
        /\ a # Free
    BY <1>2, ActivatedType DEF Entry, SameExtent, Free, Blank
  <2>3. a.val = req[w].val /\ IsOf(a, Target(w))
    BY <1>2, <2>1, <2>2 DEF Committing, WriteSteps, IsOf, Target, Fits
  <2>4. Leaves(w, a)
    BY <2>1, <2>2, <2>3 DEF Leaves, Claims
  <2> HIDE DEF a
  <2> QED BY <1>1, <1>2, <1>3, <1>4, <2>1, <2>4 DEF Steps
<1>7. CASE ClearSlot(w)
  <2>1. pc[w] = "clear" /\ PutSlot(w, Free, "syncClear")
    BY <1>7 DEF ClearSlot
  <2>2. Leaves(w, Free)
    BY <2>1, BlankFacts, BlankTypes DEF Leaves, Claims
  <2> QED BY <1>1, <1>2, <1>3, <1>4, <2>1, <2>2 DEF Steps
<1> QED BY <1>5, <1>6, <1>7

\* An entry the writer does not commit, ACTIVE in the cache or on the disk, has
\* at most one rival in what a mixture holds while a new object's slot is written:
\* the new slot, and that only when it is of the same object.
LEMMA FreshRivals ==
  ASSUME TypeOK, RegionSound, OneSlotEach, NoGhostOf, NEW w \in Writers, AtPut(w), Fresh(w),
         pc[w] = "putWriting", NEW a \in Slots \ {slot[w]}, NEW c \in Copies(a), c.state = "active",
         NEW m, m[a] = c, \A s \in Slots \ {slot[w]} : m[s] \in {ddir[s], dir[s], Torn},
         m[slot[w]] = ddir[slot[w]] \/ Claims(w, m[slot[w]])
  PROVE  /\ WellFormed(c)
         /\ SameClaim(c, dir[a])
         /\ \A b \in Slots \ {a} : WellFormed(m[b]) /\ Conflict(c, m[b]) =>
              b = slot[w] /\ m[b] # ddir[b] /\ Fold[c.key] = Target(w)
<1> DEFINE x == slot[w]
           o == Fold[c.key]
<1>1. x \in Slots /\ Target(w) \in Objects /\ Planned(w) /\ dir[x] = Free /\ pc[w] \in WriteSteps
      /\ dir[a] \in Entry /\ ddir[a] \in Entry
  BY DEF AtPut, Fresh, TypeOK
<1>2. WellFormed(c) /\ ActiveOf(c, o) /\ o \in Objects
  <2>1. WellFormed(c)
    BY DEF RegionSound, ActiveSound, Copies
  <2> QED BY <2>1, RegionAssumption DEF WellFormed, Fits, ActiveOf, IsOf
<1>3. WellFormed(dir[a]) /\ SameExtent(c, dir[a]) /\ IsOf(dir[a], o)
  <2>1. CASE c = dir[a]
    BY <1>2, <2>1 DEF ActiveOf, SameExtent
  <2>2. CASE c = ddir[a]
    <3>1. dir[a] # Free
      BY <2>2 DEF RegionSound, ActiveSound
    <3>2. WellFormed(dir[a])
      BY <3>1 DEF Fresh
    <3>3. SameExtent(c, dir[a])
      BY <2>2, <3>2 DEF RegionSound, ActiveSound, SameExtent
    <3>4. IsOf(dir[a], o)
      BY <1>2, <2>2, <3>2 DEF OneSlotEach, WellFormed
    <3> QED BY <3>2, <3>3, <3>4
  <2> QED BY <2>1, <2>2 DEF Copies
<1>4. SameClaim(c, dir[a])
  BY <1>2, <1>3 DEF SameClaim, IsOf
<1> HIDE DEF x, o
<1>5. ASSUME NEW b \in Slots \ {a}, WellFormed(m[b]), m[b] \in Copies(b), Conflict(c, m[b]) PROVE FALSE
  <2>1. ~Overlap(c, m[b])
    BY <1>5 DEF RegionSound, CopiesApart
  <2>2. Fold[m[b].key] = o /\ IsOf(m[b], o)
    BY <1>5, <2>1 DEF Conflict, o, WellFormed, Fits, IsOf
  <2>3. SameClaim(m[b], dir[b])
    <3>1. CASE m[b] = dir[b]
      BY <3>1, SameClaimFacts, Zenon
    <3>2. CASE m[b] = ddir[b]
      BY <1>2, <1>5, <2>2, <3>2, Zenon DEF NoGhostOf
    <3> QED BY <1>5, <3>1, <3>2 DEF Copies
  <2>4. WellFormed(dir[b]) /\ Fold[dir[b].key] = o
    BY <1>5, <2>2, <2>3, Zenon DEF SameClaim
  <2>5. b # x
    BY <1>1, <2>4, BlankFacts
  <2>6. ~Conflict(dir[a], dir[b])
    BY <1>3, <1>5, <2>4, <2>5 DEF Fresh, x
  <2> QED BY <1>3, <2>4, <2>6 DEF Conflict, IsOf
<1>6. ASSUME NEW b \in Slots \ {a}, WellFormed(m[b]), Conflict(c, m[b])
      PROVE  b = x /\ m[b] # ddir[b] /\ o = Target(w)
  <2>1. b = x
    <3>1. SUFFICES ASSUME b # x PROVE FALSE
      OBVIOUS
    <3>2. m[b] \in Copies(b)
      BY <1>6, <3>1, BlankFacts DEF x, Copies
    <3> QED BY <1>5, <1>6, <3>2
  <2>2. m[x] # ddir[x]
    BY <1>5, <1>6, <2>1 DEF Copies
  <2>3. SameExtent(m[x], ent[w]) /\ IsOf(m[x], Target(w))
    BY <1>6, <2>1, <2>2 DEF Claims, x
  <2>4. ~Overlap(ent[w], c)
    BY <1>1, <1>2 DEF Planned, Copies, x
  <2>5. ~Overlap(c, m[x])
    BY <2>3, <2>4 DEF Overlap, SameExtent
  <2> QED BY <1>6, <2>1, <2>2, <2>3, <2>5 DEF Conflict, IsOf, o
<1> QED BY <1>2, <1>4, <1>6 DEF x, o

\* Whatever the writer leaves in its slot, the other ACTIVE entries of the cache
\* are as usable as they were.
LEMMA Bystanders ==
  ASSUME TypeOK, RegionSound, NEW w \in Writers, AtPut(w),
         NEW a \in Slots \ {slot[w]}, dir[a].state = "active",
         NEW d, \A s \in Slots \ {slot[w]} : d[s] = dir[s],
         Claims(w, d[slot[w]]), pc[w] = "clear" => ~WellFormed(d[slot[w]])
  PROVE  a \in Usable(dir) <=> a \in Usable(d)
<1> DEFINE x == slot[w]
<1>1. x \in Slots /\ Target(w) \in Objects /\ Planned(w) /\ Committing(w) /\ Claims(w, dir[x])
      /\ dir[a] \in Entry /\ pc[w] \in WriteSteps \cup DeleteSteps
  BY DEF AtPut, TypeOK, Puts, WriteSteps, DeleteSteps
<1>2. WellFormed(dir[a])
  BY DEF RegionSound, ActiveSound
<1>3. CASE Fresh(w)
  <2>1. Fold[dir[a].key] # Target(w)
    BY <1>1, <1>2 DEF Committing, ActiveOf, IsOf, WellFormed, Fits
  <2>2. ~Overlap(ent[w], dir[a])
    BY <1>1, <1>2 DEF Planned
  <2>3. ASSUME NEW f, WellFormed(f), Claims(w, f) PROVE ~Conflict(dir[a], f)
    BY <2>1, <2>2, <2>3 DEF Claims, Conflict, Overlap, SameExtent, IsOf
  <2>4. ASSUME NEW e, \A s \in Slots \ {slot[w]} : e[s] = dir[s], Claims(w, e[slot[w]])
        PROVE  a \in Usable(e)
    <3>1. ASSUME NEW t \in Slots, t # a, WellFormed(e[t]) PROVE ~Conflict(e[a], e[t])
      BY <1>2, <1>3, <2>3, <2>4, <3>1 DEF Fresh
    <3>2. \A t \in Slots : t # a /\ WellFormed(e[t]) => ~Conflict(e[a], e[t]) /\ ~Conflict(e[t], e[a])
      BY <3>1, ConflictFacts, Zenon
    <3>3. WellFormed(e[a])
      BY <1>2, <2>4
    <3> QED BY <3>2, <3>3, UsableAlone
  <2> QED BY <1>1, <2>4
<1>4. CASE InPlace(w) /\ (pc[w] # "clear" => WellFormed(dir[x]))
  <2>1. SameClaim(dir[x], d[x]) \/ (x \in Usable(dir) /\ ~WellFormed(d[x]))
    <3>1. CASE WellFormed(d[x])
      <4>1. WellFormed(dir[x])
        BY <1>4, <3>1
      <4> QED BY <1>1, <3>1, <4>1 DEF Claims, SameClaim, SameExtent, IsOf
    <3>2. CASE ~WellFormed(d[x]) /\ ~WellFormed(dir[x])
      BY <3>2 DEF SameClaim
    <3>3. CASE ~WellFormed(d[x]) /\ WellFormed(dir[x])
      BY <1>4, <3>3 DEF InPlace
    <3> QED BY <3>1, <3>2, <3>3
  <2>2. \A s \in Slots : s # x => SameClaim(dir[s], d[s])
    BY SameClaimFacts
  <2> HIDE DEF x
  <2>3. SameClaim(dir[a], d[a])
    BY <2>2 DEF x
  <2> QED BY <1>1, <2>1, <2>2, <2>3, UsableAgree
<1> QED BY <1>3, <1>4 DEF AtPut

LEMMA OwnClaims ==
  ASSUME NEW w \in Writers, NEW e, NEW f, Claims(w, e), Claims(w, f), WellFormed(e) <=> WellFormed(f)
  PROVE  SameClaim(e, f)
  BY Zenon DEF Claims, SameClaim, SameExtent, IsOf

\* A slot write makes a ghost only when it clears a slot that is flushed.
LEMMA PutGhost ==
  ASSUME TypeOK, NEW w \in Writers, AtPut(w), NEW e, Leaves(w, e),
         dir' = [dir EXCEPT ![slot[w]] = e], ddir' = ddir
  PROVE  /\ \A s \in Slots : Ghost(s)' => Ghost(s) \/ (s = slot[w] /\ pc[w] = "clear")
         /\ ddir = dir => \A s \in Slots : ~Ghost(s)
<1> DEFINE x == slot[w]
<1>1. x \in Slots /\ dir'[x] = e /\ (\A s \in Slots : s # x => dir'[s] = dir[s])
      /\ Claims(w, dir[x]) /\ Claims(w, e) /\ (\A s \in Slots : ddir'[s] = ddir[s])
  BY DEF AtPut, Leaves, TypeOK
<1> HIDE DEF x
<1>2. ASSUME NEW s \in Slots, s # x, Ghost(s)' PROVE Ghost(s)
  BY <1>1, <1>2, Zenon DEF Ghost
<1>3. ASSUME ddir = dir, NEW s \in Slots PROVE ~Ghost(s)
  <2>1. ddir[s] = dir[s]
    BY <1>3
  <2>2. SameClaim(ddir[s], dir[s]) /\ (WellFormed(ddir[s]) => dir[s] # Free)
    BY <2>1, SameClaimFacts, BlankFacts, Zenon
  <2> QED BY <2>2, Zenon DEF Ghost
<1>4. ASSUME NEW s \in Slots, s = x, Ghost(s)', pc[w] # "clear" PROVE Ghost(x)
  <2>1. WellFormed(ddir[x]) /\ WellFormed(e) /\ ~SameClaim(ddir[x], e)
    BY <1>1, <1>4 DEF Ghost, Leaves
  <2>2. CASE WellFormed(dir[x])
    <3>1. SameClaim(dir[x], e)
      BY <1>1, <2>1, <2>2, OwnClaims
    <3>2. ~SameClaim(ddir[x], dir[x])
      BY <2>1, <3>1, SameClaimFacts, Zenon
    <3> QED BY <2>1, <2>2, <3>2 DEF Ghost
  <2>3. CASE ~WellFormed(dir[x])
    <3>1. dir[x] = Free
      BY <1>4, <2>3 DEF AtPut, Fresh, x
    <3> QED BY <2>1, <3>1 DEF Ghost
  <2> QED BY <2>2, <2>3
<1> QED BY <1>1, <1>2, <1>3, <1>4, Zenon DEF x

LEMMA PutGhosts ==
  ASSUME TypeOK, RegionSound, OneSlotEach, Steady, NEW w \in Writers, AtPut(w), NEW e, Leaves(w, e),
         dir' = [dir EXCEPT ![slot[w]] = e], ddir' = ddir
  PROVE  OneVersion' /\ NoGhostOf' /\ OneGhost' /\ GhostsUntouched'
<1> DEFINE x == slot[w]
<1>1. /\ x \in Slots /\ dir'[x] = e /\ (\A s \in Slots : s # x => dir'[s] = dir[s])
      /\ (\A s \in Slots : ddir'[s] = ddir[s])
      /\ Claims(w, dir[x]) /\ Claims(w, e) /\ Target(w) \in Objects
      /\ (pc[w] \in {"putActive", "clear"} => ddir = dir /\ dir[x].state # "active")
      /\ (e.state = "active" => pc[w] = "putActive" /\ IsOf(e, Target(w)))
      /\ pc[w] \in WriteSteps \cup DeleteSteps /\ Committing(w)
  BY DEF AtPut, Leaves, TypeOK, Puts, WriteSteps, DeleteSteps
<1>2. /\ \A s \in Slots : Ghost(s)' => Ghost(s) \/ (s = x /\ pc[w] = "clear")
      /\ ddir = dir => \A s \in Slots : ~Ghost(s)
  BY PutGhost
<1>3. pc[w] \notin {"putActive", "clear"} => pc[w] \in {"putWriting", "putDeleting"}
  BY DEF AtPut, Puts
<1>f. Fresh(w) /\ pc[w] = "putWriting" => dir[x] = Free
  BY DEF Fresh
<1>i. pc[w] \in {"putWriting", "putDeleting"} => (dir[x] = Free /\ pc[w] = "putWriting") \/ ActiveOf(dir[x], Target(w))
  BY <1>f DEF AtPut, InPlace
<1> HIDE DEF x
<1>4. OneVersion'
  <2> SUFFICES ASSUME NEW s \in Slots, dir'[s].state = "active", ddir'[s].state = "active"
               PROVE  dir'[s] = ddir'[s]
    BY Zenon DEF OneVersion
  <2>1. CASE s = x
    BY <1>1, <2>1
  <2>2. CASE s # x
    BY <1>1, <2>2 DEF Steady, OneVersion
  <2> QED BY <2>1, <2>2
<1>5. NoGhostOf'
  <2> SUFFICES ASSUME NEW o \in Objects, NEW a \in Slots, NEW b \in Slots, a # b,
                      NEW c \in Copies(a)', ActiveOf(c, o), WellFormed(ddir'[b]), IsOf(ddir'[b], o)
               PROVE  SameClaim(ddir'[b], dir'[b])
    BY Zenon DEF NoGhostOf
  <2>1. CASE c \notin Copies(a)
    <3>1. a = x /\ e.state = "active"
      BY <1>1, <2>1 DEF Copies, ActiveOf
    <3>2. ddir = dir
      BY <1>1, <3>1
    <3> QED BY <1>1, <3>1, <3>2, SameClaimFacts, Zenon
  <2>2. CASE c \in Copies(a)
    <3>1. SameClaim(ddir[b], dir[b])
      BY <1>1, <2>2, Zenon DEF Steady, NoGhostOf
    <3>2. CASE b # x
      BY <1>1, <3>1, <3>2
    <3>3. CASE b = x
      <4>1. WellFormed(dir[x]) /\ IsOf(dir[x], o)
        BY <1>1, <3>1, <3>3 DEF SameClaim, IsOf, WellFormed, Fits
      <4>2. o = Target(w)
        BY <1>1, <4>1 DEF Claims, IsOf
      <4>3. CASE ddir = dir
        <5>1. ActiveOf(dir[a], o)
          BY <2>2, <4>3 DEF Copies
        <5> QED BY <1>1, <3>3, <4>2, <5>1 DEF Committing, x
      <4>4. CASE ddir # dir
        <5>1. ActiveOf(dir[x], o)
          BY <1>1, <1>3, <1>i, <4>1, <4>2, <4>4, BlankFacts
        <5> QED BY <1>1, <2>2, <3>3, <5>1 DEF OneSlotEach, Copies
      <4> QED BY <4>3, <4>4
    <3> QED BY <3>2, <3>3
  <2> QED BY <2>1, <2>2
<1>6. OneGhost'
  <2> SUFFICES ASSUME NEW s \in Slots, NEW t \in Slots, Ghost(s)', Ghost(t)' PROVE s = t
    BY Zenon DEF OneGhost
  <2> QED BY <1>1, <1>2 DEF Steady, OneGhost
<1>7. GhostsUntouched'
  <2> SUFFICES ASSUME NEW u \in Slots, NEW v \in Slots, Ghost(u)', v # u,
                      WellFormed(ddir[v]), Conflict(ddir[u], ddir[v])
               PROVE  dir'[v] = ddir[v]
    BY <1>1, Zenon DEF GhostsUntouched
  <2>1. CASE ddir = dir
    BY <1>1, <1>2, <2>1
  <2>2. CASE ddir # dir
    <3>1. Ghost(u) /\ pc[w] \in {"putWriting", "putDeleting"}
      BY <1>1, <1>2, <1>3, <2>2
    <3>2. dir[v] = ddir[v]
      BY <3>1 DEF Steady, GhostsUntouched
    <3>3. SUFFICES ASSUME v = x PROVE FALSE
      BY <1>1, <3>2
    <3>4. ActiveOf(dir[x], Target(w)) /\ WellFormed(ddir[u])
      BY <1>i, <3>1, <3>2, <3>3, BlankFacts DEF Ghost
    <3>5. ~Overlap(dir[x], ddir[u])
      BY <1>1, <3>3, <3>4 DEF RegionSound, CopiesApart, Copies, ActiveOf
    <3>6. ~Overlap(ddir[u], ddir[v])
      BY <3>2, <3>3, <3>5 DEF Overlap
    <3>7. IsOf(ddir[u], Target(w))
      BY <3>2, <3>3, <3>4, <3>6 DEF Conflict, ActiveOf, IsOf, WellFormed, Fits
    <3>8. SameClaim(ddir[u], dir[u])
      BY <1>1, <3>3, <3>4, <3>7 DEF Steady, NoGhostOf, Copies
    <3>9. dir[u] # Free /\ SameClaim(ddir[u], dir[u])
      BY <3>4, <3>8, BlankFacts DEF SameClaim
    <3> QED BY <3>1, <3>9 DEF Ghost
  <2> QED BY <2>1, <2>2
<1> QED BY <1>4, <1>5, <1>6, <1>7

\* A slot write in place takes away the claim of a slot that is usable in every
\* mixture, and so leaves every other slot as usable as it was.
LEMMA LiftedUsable ==
  ASSUME TypeOK, Mixed, NEW w \in Writers, AtPut(w), InPlace(w),
         pc[w] \in {"putWriting", "putDeleting"}, WellFormed(dir[slot[w]]),
         NEW m \in [Slots -> Entry], NEW a \in Slots \ {slot[w]}, Claims(w, m[slot[w]]),
         NEW n \in [Slots -> Entry], n[slot[w]] = dir[slot[w]],
         \A s \in Slots : s # slot[w] => n[s] = m[s], Between(n, ddir, dir)
  PROVE  a \in Usable(m) <=> a \in Usable(n)
<1> DEFINE x == slot[w]
<1>1. x \in Slots /\ Claims(w, dir[x]) /\ dir[x] \in Entry
  BY DEF AtPut, TypeOK
<1>2. n \in [Slots -> Entry] /\ n[x] = dir[x] /\ \A s \in Slots : s # x => n[s] = m[s]
  BY <1>1
<1>3. dir[x].state = "active" /\ x \in Usable(dir)
  BY DEF InPlace, ActiveOf
<1> HIDE DEF x
<1>4. x \in Usable(n)
  BY <1>1, <1>2, <1>3 DEF Mixed
<1>5. SameClaim(n[x], m[x]) \/ (x \in Usable(n) /\ ~WellFormed(m[x]))
  <2>1. CASE WellFormed(m[x])
    BY <1>1, <1>2, <2>1, OwnClaims DEF x
  <2> QED BY <1>4, <2>1
<1>6. \A s \in Slots : s # x => SameClaim(n[s], m[s])
  BY <1>2, SameClaimFacts
<1>7. SameClaim(n[a], m[a])
  BY <1>6 DEF x
<1> QED BY <1>1, <1>5, <1>6, <1>7, UsableAgree

LEMMA PutMixed ==
  ASSUME TypeOK, RegionSound, OneSlotEach, Steady, NEW w \in Writers, AtPut(w), NEW e, Leaves(w, e),
         dir' = [dir EXCEPT ![slot[w]] = e], ddir' = ddir
  PROVE  Mixed'
<1> DEFINE x == slot[w]
           D == dir'
<1>1. /\ x \in Slots /\ D[x] = e /\ (\A s \in Slots : s # x => D[s] = dir[s])
      /\ Claims(w, dir[x]) /\ Claims(w, e) /\ Claims(w, Torn)
      /\ (pc[w] \in {"putActive", "clear"} => ddir = dir /\ dir[x].state # "active")
      /\ (e.state = "active" => pc[w] = "putActive")
      /\ (pc[w] = "clear" => ~WellFormed(e))
      /\ D \in [Slots -> Entry] /\ dir \in [Slots -> Entry]
      /\ pc[w] \in WriteSteps \cup DeleteSteps /\ Committing(w)
      /\ pc[w] \in {"putActive", "clear"} \cup {"putWriting", "putDeleting"}
  BY BlankFacts DEF AtPut, Leaves, TypeOK, Puts, WriteSteps, DeleteSteps, Claims
<1> SUFFICES ASSUME NEW a \in Slots, D[a].state = "active", NEW m \in [Slots -> Entry],
                    Between(m, ddir, D), m[a] = D[a]
             PROVE  a \in Usable(m) <=> a \in Usable(D)
  BY Zenon DEF Mixed
<1>m. \A s \in Slots : m[s] \in {ddir[s], D[s]} \/ (m[s] = Torn /\ ddir[s] # D[s])
  BY DEF Between
<1> HIDE DEF D
<1>2. CASE pc[w] \in {"putActive", "clear"}
  <2>1. \A s \in Slots : s # x => m[s] = dir[s]
    BY <1>1, <1>m, <1>2
  <2>2. m[x] \in {dir[x], e, Torn}
    BY <1>1, <1>m, <1>2
  <2>3. CASE a = x
    <3>1. \A s \in Slots : m[s] = D[s]
      BY <1>1, <2>1, <2>3
    <3>2. m = D
      BY <1>1, <3>1
    <3> QED BY <3>2
  <2>4. CASE a # x
    <3>1. dir[a].state = "active"
      BY <1>1, <2>4
    <3>2. a \in Usable(dir) <=> a \in Usable(D)
      BY <1>1, <2>4, <3>1, Bystanders DEF x
    <3>3. CASE m[x] = dir[x]
      <4>1. m = dir
        BY <1>1, <2>1, <3>3
      <4> QED BY <3>2, <4>1
    <3>4. CASE m[x] \in {e, Torn}
      <4>1. Claims(w, m[x]) /\ (pc[w] = "clear" => ~WellFormed(m[x]))
        BY <1>1, <3>4, BlankFacts
      <4>2. a \in Usable(dir) <=> a \in Usable(m)
        BY <2>1, <2>4, <3>1, <4>1, Bystanders DEF x
      <4> QED BY <3>2, <4>2
    <3> QED BY <2>2, <3>3, <3>4
  <2> QED BY <2>3, <2>4
<1>3. CASE pc[w] \in {"putWriting", "putDeleting"}
  <2>1. a # x /\ dir[a].state = "active" /\ m[a] = dir[a]
    BY <1>1, <1>3
  <2>2. a \in Usable(dir) <=> a \in Usable(D)
    BY <1>1, <1>3, <2>1, Bystanders DEF x
  <2>3. CASE m[x] = ddir[x]
    <3>1. Between(m, ddir, dir)
      BY <1>1, <1>m, <2>3 DEF Between
    <3> QED BY <2>1, <2>2, <3>1 DEF Steady, Mixed
  <2>4. CASE m[x] # ddir[x]
    <3>1. m[x] \in {e, Torn} /\ Claims(w, m[x])
      BY <1>1, <1>m, <2>4
    <3>2. CASE Fresh(w) /\ pc[w] = "putWriting"
      <4>1. ASSUME NEW r, r[a] = dir[a], \A s \in Slots \ {x} : r[s] \in {ddir[s], dir[s], Torn}, Claims(w, r[x])
            PROVE  a \in Usable(r)
        <5>1. /\ WellFormed(dir[a])
              /\ \A b \in Slots \ {a} : WellFormed(r[b]) /\ Conflict(dir[a], r[b]) =>
                   Fold[dir[a].key] = Target(w)
          <6>1. dir[a] \in Copies(a) /\ a \in Slots \ {slot[w]} /\ NoGhostOf
            BY <2>1 DEF Copies, Steady
          <6> QED BY <2>1, <3>2, <4>1, <6>1, FreshRivals
        <5>2. Fold[dir[a].key] # Target(w)
          BY <1>1, <2>1, <5>1 DEF Committing, ActiveOf, IsOf, WellFormed, Fits
        <5>3. \A t \in Slots : t # a /\ WellFormed(r[t]) => ~Conflict(r[a], r[t]) /\ ~Conflict(r[t], r[a])
          BY <4>1, <5>1, <5>2, ConflictFacts, Zenon
        <5> QED BY <4>1, <5>1, <5>3, UsableAlone
      <4>2. a \in Usable(m)
        BY <1>1, <1>m, <2>1, <3>1, <4>1
      <4>3. a \in Usable(D)
        BY <1>1, <2>1, <4>1
      <4> QED BY <4>2, <4>3
    <3>3. CASE InPlace(w) /\ WellFormed(dir[x])
      <4> DEFINE n == [m EXCEPT ![x] = dir[x]]
      <4>1. n \in [Slots -> Entry] /\ n[x] = dir[x] /\ \A s \in Slots : s # x => n[s] = m[s]
        BY <1>1
      <4>2. Between(n, ddir, dir)
        BY <1>1, <1>m, <4>1 DEF Between
      <4> HIDE DEF n
      <4>3. a \in Usable(m) <=> a \in Usable(n)
        BY <1>3, <2>1, <3>1, <3>3, <4>1, <4>2, LiftedUsable DEF Steady, x
      <4>4. a \in Usable(n) <=> a \in Usable(dir)
        BY <2>1, <4>1, <4>2 DEF Steady, Mixed
      <4> QED BY <2>2, <4>3, <4>4
    <3>4. (Fresh(w) /\ pc[w] = "putWriting") \/ (InPlace(w) /\ WellFormed(dir[x]))
      BY <1>3 DEF AtPut
    <3> QED BY <3>2, <3>3, <3>4
  <2> QED BY <2>3, <2>4
<1> QED BY <1>1, <1>2, <1>3

\* While a new object's slot is written, a withdrawn entry of the object is
\* usable on the disk only as long as a ghost keeps the new slot out of its way.
LEMMA FreshReceding ==
  ASSUME TypeOK, RegionSound, OneSlotEach, Steady, NEW w \in Writers, AtPut(w), Fresh(w),
         pc[w] = "putWriting", NEW e, Claims(w, e), NEW a \in Slots \ {slot[w]},
         ddir[a].state = "active", NEW m1, NEW m2, m1[a] = ddir[a], m2[a] = ddir[a],
         \A s \in Slots \ {slot[w]} : m1[s] \in {ddir[s], dir[s]},
         \A s \in Slots \ {slot[w]} : m2[s] \in {m1[s], dir[s]} \/ (m2[s] = Torn /\ m1[s] # dir[s]),
         m1[slot[w]] \in {ddir[slot[w]], e},
         m2[slot[w]] \in {m1[slot[w]], e} \/ (m2[slot[w]] = Torn /\ m1[slot[w]] # e),
         a \in Usable(m2)
  PROVE  a \in Usable(m1)
<1> DEFINE x == slot[w]
           c == ddir[a]
<1>1. /\ x \in Slots /\ Planned(w) /\ pc[w] \in WriteSteps /\ c \in Copies(a) /\ dir[x] = Free
      /\ NoGhostOf /\ Claims(w, Torn)
  BY BlankFacts DEF AtPut, Fresh, Copies, Steady, Claims
<1>s. Slots \subseteq Nat
  BY RegionAssumption DEF Slots
<1>2. \A s \in Slots : s # x => m1[s] \in {ddir[s], dir[s], Torn} /\ m2[s] \in {ddir[s], dir[s], Torn}
  OBVIOUS
<1>3. /\ WellFormed(c) /\ SameClaim(c, dir[a])
      /\ \A b \in Slots \ {a} : WellFormed(m1[b]) /\ Conflict(c, m1[b]) =>
           b = x /\ m1[b] # ddir[b] /\ Fold[c.key] = Target(w)
  BY <1>1, <1>2, FreshRivals
<1>4. \A b \in Slots \ {a} : WellFormed(m2[b]) /\ Conflict(c, m2[b]) =>
           b = x /\ m2[b] # ddir[b] /\ Fold[c.key] = Target(w)
  <2>1. m2[x] = ddir[x] \/ Claims(w, m2[x])
    BY <1>1
  <2> QED BY <1>1, <1>2, <2>1, FreshRivals
<1> HIDE DEF c
<1>5. CASE ~(WellFormed(m1[x]) /\ Conflict(c, m1[x]))
  <2>1. \A t \in Slots : t # a /\ WellFormed(m1[t]) => ~Conflict(m1[a], m1[t]) /\ ~Conflict(m1[t], m1[a])
    BY <1>3, <1>5, ConflictFacts, Zenon DEF c
  <2> QED BY <1>3, <2>1, UsableAlone DEF c
<1>6. CASE WellFormed(m1[x]) /\ Conflict(c, m1[x])
  <2>1. m1[x] # ddir[x] /\ Fold[c.key] = Target(w) /\ a # x
    BY <1>1, <1>3, <1>6
  <2>2. m1[x] = e /\ m2[x] = e /\ WellFormed(e) /\ Conflict(c, e)
    BY <1>6, <2>1
  <2>3. SameExtent(e, ent[w]) /\ Fold[e.key] = Target(w)
    BY <2>2 DEF Claims, IsOf
  <2>4. PICK g \in ReachTurn(m2) : g < a /\ g < x /\ Conflict(m2[g], e)
    <3>1. \A t \in Slots \ {a, x} : WellFormed(m2[t]) => ~Conflict(m2[a], m2[t])
      BY <1>4 DEF c
    <3>2. WellFormed(m2[a]) /\ WellFormed(m2[x]) /\ Conflict(m2[a], m2[x])
      BY <1>3, <2>2 DEF c
    <3>3. \E g \in ReachTurn(m2) : g < a /\ g < x /\ Conflict(m2[g], m2[x])
      BY <1>1, <2>1, <3>1, <3>2, OnlyRival
    <3> QED BY <2>2, <3>3
  <2>5. /\ g \in Slots /\ WellFormed(m2[g]) /\ Unmarked(m2, ReachTurn(m2), g, g)
        /\ \A s \in Slots : s \in ReachTurn(m2) <=> Unmarked(m2, ReachTurn(m2), s, s)
        /\ \A s \in ReachTurn(m2) : s \in Slots /\ WellFormed(m2[s])
    BY <2>4, TurnsDefined
  <2>6. g # x /\ g # a
    BY <1>s, <1>1, <2>4, <2>5
  <2>7. ~SameClaim(m2[g], dir[g])
    <3>1. SUFFICES ASSUME SameClaim(m2[g], dir[g]) PROVE FALSE
      OBVIOUS
    <3>2. WellFormed(dir[g]) /\ SameExtent(m2[g], dir[g]) /\ Fold[m2[g].key] = Fold[dir[g].key]
      BY <2>5, <3>1, Zenon DEF SameClaim
    <3>3. ~Overlap(ent[w], dir[g])
      BY <1>1, <2>5, <2>6, <3>2 DEF Planned
    <3>4. ~Overlap(m2[g], e)
      BY <2>3, <3>2, <3>3, Zenon DEF Overlap, SameExtent
    <3>5. Fold[dir[g].key] = Fold[dir[a].key] /\ WellFormed(dir[a])
      BY <1>3, <2>1, <2>3, <2>4, <3>2, <3>4, Zenon DEF Conflict, SameClaim
    <3>6. ~Conflict(dir[g], dir[a])
      BY <2>5, <2>6, <3>2, <3>5 DEF Fresh
    <3> QED BY <3>5, <3>6, Zenon DEF Conflict
  <2>8. m2[g] = m1[g] /\ m1[g] = ddir[g] /\ Ghost(g)
    <3>1. m2[g] # dir[g] /\ m2[g] # Torn
      BY <2>5, <2>7, SameClaimFacts, BlankFacts
    <3>2. m2[g] = m1[g] /\ m1[g] = ddir[g]
      BY <2>5, <2>6, <3>1
    <3>3. dir[g] = Free \/ WellFormed(dir[g])
      BY <2>5, <2>6 DEF Fresh
    <3> QED BY <2>5, <2>7, <3>2, <3>3 DEF Ghost
  <2>9. ASSUME NEW v \in ReachTurn(m1), v < g PROVE ~Conflict(m1[v], m1[g])
    <3>1. v \in Slots /\ WellFormed(m1[v]) /\ v # x /\ v # g
      BY <1>s, <1>1, <2>4, <2>5, <2>9, TurnsDefined
    <3>2. SUFFICES ASSUME Conflict(m1[v], m1[g]) PROVE FALSE
      OBVIOUS
    <3>3. m1[v] = ddir[v] => dir[v] = ddir[v]
      <4>1. m1[v] = ddir[v] => Conflict(ddir[g], ddir[v]) /\ WellFormed(ddir[v])
        BY <2>8, <3>1, <3>2, ConflictFacts, Zenon
      <4> QED BY <2>5, <2>8, <3>1, <4>1 DEF Steady, GhostsUntouched
    <3>4. m1[v] = dir[v] /\ m2[v] = dir[v]
      BY <3>1, <3>3
    <3>5. ASSUME NEW u \in ReachTurn(m2), u < v PROVE ~Conflict(m2[u], m2[v])
      <4>1. u \in Slots /\ WellFormed(m2[u]) /\ u # x /\ u # g /\ u # v
        BY <1>s, <1>1, <2>4, <2>5, <2>9, <3>1, <3>5
      <4>2. dir[u] = Free \/ WellFormed(dir[u])
        BY <4>1 DEF Fresh
      <4>3. SameClaim(m2[u], dir[u])
        <5>1. ~Ghost(u)
          BY <2>5, <2>8, <4>1 DEF Steady, OneGhost
        <5>2. m2[u] \in {ddir[u], dir[u]}
          BY <4>1, BlankFacts
        <5> QED BY <4>1, <4>2, <5>1, <5>2, SameClaimFacts DEF Ghost
      <4>4. WellFormed(dir[u]) /\ WellFormed(dir[v])
        BY <3>1, <3>4, <4>1, <4>3, Zenon DEF SameClaim
      <4>5. ~Conflict(dir[u], dir[v])
        BY <3>1, <4>1, <4>4 DEF Fresh
      <4>6. SameClaim(m2[v], dir[v])
        BY <3>4, SameClaimFacts
      <4> QED BY <4>3, <4>4, <4>5, <4>6, ClaimsConflict
    <3>6. v \in ReachTurn(m2)
      BY <2>5, <3>1, <3>4, <3>5 DEF Unmarked
    <3>7. ~Conflict(m2[v], m2[g])
      BY <2>5, <2>9, <3>6 DEF Unmarked
    <3> QED BY <2>8, <3>2, <3>4, <3>7
  <2>10. g \in ReachTurn(m1)
    <3>1. Unmarked(m1, ReachTurn(m1), g, g)
      BY <2>5, <2>8, <2>9 DEF Unmarked
    <3> QED BY <2>5, <3>1, TurnsDefined
  <2>11. Conflict(m1[g], m1[x])
    BY <2>2, <2>4, <2>8
  <2>12. \A t \in Slots \ {a, x} : WellFormed(m1[t]) => ~Conflict(m1[a], m1[t])
    BY <1>3 DEF c
  <2>13. WellFormed(m1[a]) /\ WellFormed(m1[x]) /\ Conflict(m1[a], m1[x])
    BY <1>3, <1>6 DEF c
  <2> HIDE DEF x
  <2> QED BY <1>1, <2>1, <2>4, <2>10, <2>11, <2>12, <2>13, OnlyRival
<1> QED BY <1>5, <1>6

LEMMA PutReceding ==
  ASSUME TypeOK, RegionSound, OneSlotEach, Steady, NEW w \in Writers, AtPut(w), NEW e, Leaves(w, e),
         dir' = [dir EXCEPT ![slot[w]] = e], ddir' = ddir
  PROVE  Receding'
<1> DEFINE x == slot[w]
           D == dir'
<1>1. /\ x \in Slots /\ D[x] = e /\ (\A s \in Slots : s # x => D[s] = dir[s])
      /\ Claims(w, dir[x]) /\ Claims(w, e) /\ Claims(w, Torn)
      /\ (pc[w] \in {"putActive", "clear"} => ddir = dir /\ dir[x].state # "active")
      /\ dir \in [Slots -> Entry] /\ ddir \in [Slots -> Entry]
      /\ pc[w] \in {"putActive", "clear"} \cup {"putWriting", "putDeleting"}
  BY BlankFacts DEF AtPut, Leaves, TypeOK, Puts, Claims
<1> SUFFICES ASSUME NEW a \in Slots, ddir[a].state = "active", D[a].state # "active",
                    NEW m1 \in [Slots -> Entry], NEW m2 \in [Slots -> Entry],
                    Mix(m1, ddir, D), Between(m2, m1, D), m1[a] = ddir[a], m2[a] = ddir[a],
                    a \in Usable(m2)
             PROVE  a \in Usable(m1)
  BY Zenon DEF Receding
<1>m. \A s \in Slots : m1[s] \in {ddir[s], D[s]} /\ (m2[s] \in {m1[s], D[s]} \/ (m2[s] = Torn /\ m1[s] # D[s]))
  BY DEF Mix, Between
<1> HIDE DEF D
<1>2. pc[w] \in {"putWriting", "putDeleting"}
  BY <1>1
<1>3. CASE Fresh(w) /\ pc[w] = "putWriting"
  <2>1. dir[x] = Free /\ dir[a] # Free
    BY <1>3 DEF Fresh, RegionSound, ActiveSound
  <2>2. a \in Slots \ {slot[w]}
    BY <2>1
  <2> QED BY <1>1, <1>m, <1>3, <2>2, FreshReceding
<1>4. CASE InPlace(w) /\ WellFormed(dir[x])
  <2>1. ActiveOf(dir[x], Target(w)) /\ Mixed /\ Receding /\ OneVersion
    BY <1>2, <1>4 DEF InPlace, Steady
  <2>2. CASE a = x
    <3>1. ddir[x] = dir[x]
      BY <1>1, <2>1, <2>2 DEF OneVersion, ActiveOf
    <3>2. Between(m1, ddir, dir) /\ Between(m2, ddir, dir)
      BY <1>1, <1>m, <2>2, <3>1 DEF Between
    <3>3. a \in Usable(m1) <=> a \in Usable(m2)
      BY <2>1, <2>2, <3>1, <3>2 DEF Mixed, ActiveOf
    <3> QED BY <3>3
  <2>3. CASE a # x
    <3>1. dir[a].state # "active" /\ a \in Slots \ {x}
      BY <1>1, <2>3
    <3> DEFINE n1 == [m1 EXCEPT ![x] = IF m1[x] = ddir[x] THEN ddir[x] ELSE dir[x]]
               n2 == [m2 EXCEPT ![x] = IF m2[x] = ddir[x] THEN ddir[x] ELSE dir[x]]
    <3>2. /\ n1 \in [Slots -> Entry] /\ \A s \in Slots : s # x => n1[s] = m1[s]
          /\ n2 \in [Slots -> Entry] /\ \A s \in Slots : s # x => n2[s] = m2[s]
          /\ n1[x] = IF m1[x] = ddir[x] THEN ddir[x] ELSE dir[x]
          /\ n2[x] = IF m2[x] = ddir[x] THEN ddir[x] ELSE dir[x]
          /\ m1[x] = ddir[x] => n1 = m1
          /\ m2[x] = ddir[x] => n2 = m2
      BY <1>1
    <3> HIDE DEF n1, n2
    <3>3. Mix(n1, ddir, dir)
      BY <1>1, <1>m, <3>2 DEF Mix
    <3>4. Between(n2, n1, dir)
      BY <1>1, <1>m, <3>2 DEF Between
    <3>5. Between(n1, ddir, dir) /\ Between(n2, ddir, dir)
      BY <3>3, <3>4 DEF Mix, Between
    <3>6. m1[x] # ddir[x] => Claims(w, m1[x])
      BY <1>1, <1>m
    <3>7. m2[x] # ddir[x] => Claims(w, m2[x])
      BY <1>1, <1>m
    <3>8. a \in Usable(m1) <=> a \in Usable(n1)
      BY <1>2, <1>4, <2>1, <3>1, <3>2, <3>5, <3>6, LiftedUsable
    <3>9. a \in Usable(m2) <=> a \in Usable(n2)
      BY <1>2, <1>4, <2>1, <3>1, <3>2, <3>5, <3>7, LiftedUsable
    <3>10. n1[a] = ddir[a] /\ n2[a] = ddir[a]
      BY <2>3, <3>2
    <3> QED BY <2>1, <3>1, <3>2, <3>3, <3>4, <3>8, <3>9, <3>10 DEF Receding
  <2> QED BY <2>2, <2>3
<1> QED BY <1>2, <1>3, <1>4 DEF AtPut

-----------------------------------------------------------------------------
(***************************************************************************)
(* The invariant behind ImplementsStore, and that every step keeps it.     *)
(***************************************************************************)
SInv == Steady /\ \A w \in Writers : Placed(w)

LEMMA PlacedFrame ==
  ASSUME NEW u \in Writers, Placed(u), UNCHANGED dir,
         \/ pc'[u] \notin WriteSteps \cup DeleteSteps
         \/ pc'[u] = pc[u] /\ req'[u] = req[u] /\ slot'[u] = slot[u] /\ ent'[u] = ent[u]
  PROVE  Placed(u)'
  BY DEF Placed, InPlace, Fresh, Target

LEMMA PlacedOn ==
  ASSUME NEW w \in Writers, Placed(w), UNCHANGED dir, slot'[w] = slot[w],
         pc[w] \in WriteSteps \cup DeleteSteps, pc'[w] \notin {"putWriting", "putDeleting"},
         pc[w] \in WriteSteps => pc'[w] \in WriteSteps \cup {"failed", "ok"}
  PROVE  Placed(w)'
<1>1. InPlace(w) => InPlace(w)'
  BY DEF InPlace
<1>2. Fresh(w) /\ pc'[w] \in WriteSteps => Fresh(w)'
  BY DEF Fresh
<1>3. {"failed", "ok"} \cap (WriteSteps \cup DeleteSteps) = {}
  BY DEF WriteSteps, DeleteSteps
<1> QED BY <1>1, <1>2, <1>3 DEF Placed, Fresh

LEMMA PutSteady ==
  ASSUME Strong, PInv, SInv, NEW w \in Writers,
         PutWriting(w) \/ PutDeleting(w) \/ PutActive(w) \/ ClearSlot(w)
  PROVE  Steady' /\ Placed(w)'
<1>1. /\ TypeOK /\ RegionSound /\ OneSlotEach /\ Steady /\ Placed(w)
      /\ slot'[w] = slot[w]
  BY DEF Strong, Typed, PInv, Promised, SInv, PutWriting, PutDeleting, PutActive, ClearSlot, PutSlot, locals
<1>2. AtPut(w) /\ ddir' = ddir
  BY <1>1, PutForms
<1>3. CASE dir' = dir /\ pc'[w] = "failed"
  BY <1>1, <1>2, <1>3, SteadyFrame, PlacedFrame DEF WriteSteps, DeleteSteps
<1>4. ASSUME NEW e, Leaves(w, e), dir' = [dir EXCEPT ![slot[w]] = e],
             \/ pc'[w] = "failed"
             \/ <<pc[w], pc'[w]>> \in {<<"putWriting", "syncWriting">>, <<"putActive", "syncActive">>,
                                       <<"putDeleting", "syncDeleting">>, <<"clear", "syncClear">>}
      PROVE  Steady' /\ Placed(w)'
  <2>1. Steady'
    BY <1>1, <1>2, <1>4, PutGhosts, PutMixed, PutReceding DEF Steady
  <2>2. /\ slot[w] \in Slots /\ dir'[slot[w]] = e
        /\ \A s \in Slots \ {slot[w]} : dir'[s] = dir[s]
        /\ pc[w] \in WriteSteps \cup DeleteSteps /\ pc'[w] \notin {"putWriting", "putDeleting"}
    BY <1>1, <1>2, <1>4 DEF AtPut, TypeOK, Puts, WriteSteps, DeleteSteps
  <2>3. CASE pc'[w] = "failed"
    BY <2>1, <2>3 DEF Placed, WriteSteps, DeleteSteps
  <2>4. CASE pc'[w] # "failed" /\ Fresh(w) /\ pc[w] \in {"putWriting", "putActive"}
    <3>1. pc'[w] \in WriteSteps
      BY <1>4, <2>4 DEF WriteSteps
    <3>2. Fresh(w)'
      BY <1>1, <2>2, <2>4, <3>1 DEF Fresh
    <3> QED BY <2>1, <3>2 DEF Placed
  <2>5. CASE InPlace(w) /\ (pc[w] # "clear" => WellFormed(dir[slot[w]]))
    <3>1. ASSUME WellFormed(e) PROVE slot[w] \in Usable(dir')
      <4>1. WellFormed(dir[slot[w]]) /\ slot[w] \in Usable(dir)
        BY <2>5, <3>1, <1>4 DEF Leaves, InPlace
      <4>2. SameClaim(dir[slot[w]], dir'[slot[w]])
        BY <1>2, <1>4, <2>2, <3>1, <4>1, OwnClaims DEF AtPut, Leaves
      <4>3. \A s \in Slots : s # slot[w] => SameClaim(dir[s], dir'[s])
        BY <2>2, SameClaimFacts
      <4> QED BY <2>2, <4>1, <4>2, <4>3, UsableAgree
    <3>2. InPlace(w)'
      BY <1>1, <2>2, <3>1 DEF InPlace
    <3> QED BY <2>1, <3>2 DEF Placed
  <2> QED BY <1>2, <2>1, <2>3, <2>4, <2>5 DEF AtPut
<1> QED BY <1>1, <1>3, <1>4, PutForms

LEMMA SyncSteady ==
  ASSUME Strong, SInv, NEW w \in Writers, Syncs(w)
  PROVE  Steady' /\ Placed(w)'
<1>1. /\ UNCHANGED <<dir, slot>> /\ ddir' \in {ddir, dir} /\ TypeOK /\ Steady /\ Placed(w)
      /\ \/ pc'[w] = "failed"
         \/ <<pc[w], pc'[w]>> \in {<<"syncWriting", "copy">>, <<"syncData", "putActive">>,
                                   <<"syncDeleting", "clear">>, <<"syncActive", "ok">>,
                                   <<"syncClear", "ok">>}
      /\ pc[w] \in WriteSteps \cup DeleteSteps
  BY DEF Syncs, SyncWriting, SyncData, SyncActive, SyncDeleting, SyncClear, Flush, Goto,
         Strong, Typed, TypeOK, disk, region, locals, SInv, WriteSteps, DeleteSteps
<1>2. Steady'
  BY <1>1, SteadySync DEF DiskFollows, TypeOK
<1>3. Placed(w)'
  BY <1>1, PlacedOn DEF WriteSteps, DeleteSteps
<1> QED BY <1>2, <1>3

LEMMA StepSteady ==
  ASSUME OneWriterPerProcess, Strong, PInv, SInv,
         NEW w \in Writers, Step(w) \/ Begin(w) \/ OpenFails(w)
  PROVE  SInv'
<1>1. TypeOK /\ ActiveSound /\ Steady /\ Asked(w) /\ \A u \in Writers : Placed(u)
  BY DEF Strong, Typed, RegionSound, SInv
<1>2. ASSUME UNCHANGED <<dir, ddir>>, pc'[w] \in {"idle", "lock", "plan", "failed"},
             \A u \in Writers : u # w =>
               /\ pc'[u] = pc[u] /\ req'[u] = req[u] /\ slot'[u] = slot[u] /\ ent'[u] = ent[u]
      PROVE  SInv'
  <2>1. \A u \in Writers : Placed(u)'
    BY <1>1, <1>2, PlacedFrame DEF WriteSteps, DeleteSteps
  <2> QED BY <1>1, <1>2, <2>1, SteadyFrame DEF SInv
<1>3. CASE Begin(w)
  <2>1. /\ UNCHANGED <<dir, ddir, slot, ent>>
        /\ pc' = [pc EXCEPT ![w] = "lock"] /\ \A u \in Writers : u # w => req'[u] = req[u]
    BY <1>1, <1>3 DEF Begin, BeginWrite, BeginDelete, region, disk, Goto, TypeOK
  <2> QED BY <1>1, <1>2, <2>1 DEF TypeOK
<1>4. CASE OpenFails(w) \/ Return(w)
  <2>1. UNCHANGED <<dir, ddir>> /\ Forget({w}) /\ pc' = [pc EXCEPT ![w] = "idle"]
    BY <1>4 DEF OpenFails, Return, region, disk, Goto
  <2>2. /\ pc'[w] = "idle"
        /\ \A u \in Writers : u # w =>
             pc'[u] = pc[u] /\ req'[u] = req[u] /\ slot'[u] = slot[u] /\ ent'[u] = ent[u]
    BY <1>1, <2>1 DEF Forget, TypeOK
  <2> QED BY <1>2, <2>1, <2>2
<1>5. CASE Lock(w) \/ PlanRefuse(w)
  <2>1. /\ UNCHANGED <<dir, ddir, req, slot, ent>>
        /\ pc' = [pc EXCEPT ![w] = "plan"] \/ pc' = [pc EXCEPT ![w] = "failed"]
    BY <1>5 DEF Lock, PlanRefuse, region, disk, locals, Goto
  <2> QED BY <1>1, <1>2, <2>1 DEF TypeOK
<1>6. CASE \/ PlanReplace(w) \/ PlanCreate(w) \/ PlanDelete(w)
           \/ PutWriting(w) \/ PutDeleting(w) \/ PutActive(w) \/ ClearSlot(w) \/ Syncs(w)
           \/ CopyChunk(w) \/ CopyFails(w) \/ CopyDone(w)
  <2>1. Inside(w) /\ \A u \in Writers : u # w => pc'[u] = pc[u]
    BY <1>1, <1>6
    DEF PlanReplace, PlanCreate, PlanDelete, Choose,
        PutWriting, PutDeleting, PutActive, ClearSlot, PutSlot, Syncs, SyncWriting, SyncData,
        SyncActive, SyncDeleting, SyncClear, Flush, CopyChunk, CopyFails, CopyDone,
        Goto, locals, Inside, TypeOK
  <2>2. Steady' /\ Placed(w)'
    <3>1. CASE PlanReplace(w) \/ PlanCreate(w) \/ PlanDelete(w)
      <4>1. UNCHANGED <<dir, ddir>>
        BY <3>1 DEF PlanReplace, PlanCreate, PlanDelete, region, disk
      <4>2. Placed(w)'
        BY <1>1, <3>1, PlanPlaced
      <4> QED BY <1>1, <4>1, <4>2, SteadyFrame
    <3>2. CASE CopyChunk(w) \/ CopyFails(w) \/ CopyDone(w)
      <4>1. /\ UNCHANGED <<dir, ddir, slot>>
            /\ pc[w] = "copy" /\ pc'[w] \in {"copy", "syncData", "failed"}
        BY <1>1, <3>2 DEF CopyChunk, CopyFails, CopyDone, Goto, TypeOK, region, disk, locals
      <4>2. Placed(w)'
        BY <1>1, <4>1, PlacedOn DEF WriteSteps, DeleteSteps
      <4> QED BY <1>1, <4>1, <4>2, SteadyFrame
    <3> QED BY <1>6, <3>1, <3>2, PutSteady, SyncSteady
  <2>3. ASSUME NEW u \in Writers, u # w PROVE Placed(u)'
    <3>1. pc'[u] \in {"idle", "lock"}
      BY <2>1, <2>3, AloneInside DEF Strong, Inside
    <3> QED BY <3>1 DEF Placed, WriteSteps, DeleteSteps
  <2> QED BY <2>2, <2>3 DEF SInv
<1> QED BY <1>3, <1>4, <1>5, <1>6 DEF Step, Syncs

LEMMA SteadyInductive ==
  ASSUME OneWriterPerProcess
  PROVE  Strong /\ PInv /\ SInv /\ [Next]_vars => SInv'
<1> SUFFICES ASSUME Strong, PInv, SInv, [Next]_vars PROVE SInv'
  OBVIOUS
<1>1. ASSUME UNCHANGED <<dir, ddir>>,
             \A u \in Writers : \/ pc'[u] = "idle"
                                \/ pc'[u] = pc[u] /\ req'[u] = req[u] /\ slot'[u] = slot[u] /\ ent'[u] = ent[u]
      PROVE  SInv'
  <2>1. \A u \in Writers : Placed(u)'
    BY <1>1, PlacedFrame DEF SInv, WriteSteps, DeleteSteps
  <2> QED BY <1>1, <2>1, SteadyFrame DEF SInv
<1>2. ASSUME NEW p \in Processes, Kill(p) PROVE SInv'
  <2> DEFINE W == {w \in Writers : ProcessOf[w] = p}
  <2>1. UNCHANGED <<dir, ddir>> /\ Stop(W)
    BY <1>2 DEF Kill, region, disk
  <2> HIDE DEF W
  <2>2. ASSUME NEW u \in Writers
        PROVE  \/ pc'[u] = "idle"
               \/ pc'[u] = pc[u] /\ req'[u] = req[u] /\ slot'[u] = slot[u] /\ ent'[u] = ent[u]
    BY <2>1 DEF Stop, Forget
  <2> QED BY <1>1, <2>1, <2>2
<1>3. CASE PowerLoss
  <2>1. ddir' = dir' /\ (\A u \in Writers : pc'[u] = "idle") /\ dir' \in [Slots -> Entry]
    BY <1>3, EnvironmentType DEF PowerLoss, Stop, Strong, Typed, TypeOK
  <2>2. \A u \in Writers : Placed(u)'
    BY <2>1 DEF Placed, WriteSteps, DeleteSteps
  <2> QED BY <2>1, <2>2, SteadyPowerLoss DEF SInv
<1>4. ASSUME NEW s \in Slots, WriteBackSlot(s) PROVE SInv'
  <2>1. UNCHANGED <<dir, pc, req, slot, ent>> /\ DiskFollows /\ ddir' \in [Slots -> Entry] /\ TypeOK
    BY <1>4 DEF WriteBackSlot, region, locals, DiskFollows, Strong, Typed, TypeOK
  <2>2. Steady'
    BY <2>1, SteadySync DEF SInv
  <2>3. \A u \in Writers : Placed(u)'
    BY <2>1, PlacedFrame DEF SInv
  <2> QED BY <2>2, <2>3 DEF SInv
<1>5. ASSUME NEW a \in Cells, WriteBackCell(a) PROVE SInv'
  BY <1>1, <1>5 DEF WriteBackCell, region, locals
<1>6. CASE UNCHANGED vars
  BY <1>1, <1>6 DEF vars
<1> QED BY <1>2, <1>3, <1>4, <1>5, <1>6, StepSteady DEF Next, Environment

-----------------------------------------------------------------------------
(***************************************************************************)
(* The refinement of MutableStore.                                         *)
(***************************************************************************)
\* A region whose ACTIVE entries are intact has at most one for the object.
Exact(d, c, o) ==
  /\ \A s \in Slots : ActiveOf(d[s], o) => Intact(c, d[s])
  /\ \A s, t \in Slots : ActiveOf(d[s], o) /\ ActiveOf(d[t], o) => s = t

LEMMA VisibleExact ==
  ASSUME NEW d, NEW c, NEW o, Exact(d, c, o)
  PROVE  /\ \A a \in Slots : ActiveOf(d[a], o) /\ a \in Usable(d) => Visible(d, c, o) = d[a].val
         /\ (\A a \in Slots : ActiveOf(d[a], o) => a \notin Usable(d)) => Visible(d, c, o) = NoVal
<1> DEFINE H == {s \in Holding(d, o) : Intact(c, d[s])}
<1>1. \A s \in H : s \in Slots /\ ActiveOf(d[s], o) /\ s \in Usable(d)
  <2>1. \A s \in Usable(d) : WellFormed(d[s])
    BY UsableWellFormed
  <2> QED BY <2>1 DEF Holding, ActiveOf, IsOf, WellFormed, Fits
<1>2. Visible(d, c, o) = IF H = {} THEN NoVal ELSE d[CHOOSE s \in H : TRUE].val
  BY DEF Visible
<1>3. \A a \in Slots : ActiveOf(d[a], o) /\ a \in Usable(d) => a \in H
  BY DEF Exact, Holding, ActiveOf, IsOf
<1> HIDE DEF H
<1>4. ASSUME NEW a \in Slots, ActiveOf(d[a], o), a \in Usable(d) PROVE Visible(d, c, o) = d[a].val
  <2>1. a \in H /\ (CHOOSE s \in H : TRUE) \in H
    BY <1>3, <1>4
  <2>2. (CHOOSE s \in H : TRUE) = a
    BY <1>1, <1>4, <2>1 DEF Exact
  <2> QED BY <1>2, <2>1, <2>2
<1>5. ASSUME \A a \in Slots : ActiveOf(d[a], o) => a \notin Usable(d) PROVE Visible(d, c, o) = NoVal
  <2>1. H = {}
    BY <1>1, <1>5
  <2> QED BY <1>2, <2>1
<1> QED BY <1>4, <1>5

LEMMA VisibleSame ==
  ASSUME NEW d1, NEW c1, NEW d2, NEW c2, NEW o, Exact(d1, c1, o), Exact(d2, c2, o),
         \A a \in Slots : ActiveOf(d1[a], o) \/ ActiveOf(d2[a], o) =>
           d1[a] = d2[a] /\ (a \in Usable(d1) <=> a \in Usable(d2))
  PROVE  Visible(d1, c1, o) = Visible(d2, c2, o)
<1>1. CASE \E a \in Slots : ActiveOf(d1[a], o) /\ a \in Usable(d1)
  <2>1. PICK a \in Slots : ActiveOf(d1[a], o) /\ a \in Usable(d1)
    BY <1>1
  <2>2. ActiveOf(d2[a], o) /\ a \in Usable(d2) /\ d1[a] = d2[a]
    BY <2>1
  <2>3. Visible(d1, c1, o) = d1[a].val
    BY <2>1, VisibleExact
  <2>4. Visible(d2, c2, o) = d2[a].val
    BY <2>2, VisibleExact
  <2> QED BY <2>2, <2>3, <2>4
<1>2. CASE \A a \in Slots : ActiveOf(d1[a], o) => a \notin Usable(d1)
  <2>1. \A a \in Slots : ActiveOf(d2[a], o) => a \notin Usable(d2)
    BY <1>2
  <2>2. Visible(d1, c1, o) = NoVal
    BY <1>2, VisibleExact
  <2>3. Visible(d2, c2, o) = NoVal
    BY <2>1, VisibleExact
  <2> QED BY <2>2, <2>3
<1> QED BY <1>1, <1>2

LEMMA RegionExact ==
  ASSUME RegionSound, OneSlotEach, NEW o \in Objects
  PROVE  Exact(dir, data, o) /\ Exact(ddir, ddata, o)
<1>1. \A s \in Slots : /\ ActiveOf(dir[s], o) => Intact(data, dir[s])
                       /\ ActiveOf(ddir[s], o) => Intact(ddata, ddir[s])
  BY DEF RegionSound, ActiveSound, ActiveOf, IntactTwice
<1>2. \A s, t \in Slots : /\ ActiveOf(dir[s], o) /\ ActiveOf(dir[t], o) => s = t
                          /\ ActiveOf(ddir[s], o) /\ ActiveOf(ddir[t], o) => s = t
  BY DEF OneSlotEach, Copies
<1> QED BY <1>1, <1>2 DEF Exact

LEMMA NextExact ==
  ASSUME RegionSound', OneSlotEach', NEW o \in Objects
  PROVE  Exact(dir', data', o) /\ Exact(ddir', ddata', o)
<1>1. \A s \in Slots : /\ ActiveOf(dir'[s], o) => Intact(data', dir'[s])
                       /\ ActiveOf(ddir'[s], o) => Intact(ddata', ddir'[s])
  BY DEF RegionSound, ActiveSound, ActiveOf, IntactTwice
<1>2. \A s, t \in Slots : /\ ActiveOf(dir'[s], o) /\ ActiveOf(dir'[t], o) => s = t
                          /\ ActiveOf(ddir'[s], o) /\ ActiveOf(ddir'[t], o) => s = t
  BY DEF OneSlotEach, Copies
<1> QED BY <1>1, <1>2 DEF Exact

\* A region between the disk and the cache serves what the disk serves, unless
\* that is not what the cache serves: then it may serve that, or nothing.
LEMMA DiskMoves ==
  ASSUME TypeOK, RegionSound, OneSlotEach, Steady, NEW o \in Objects,
         NEW d \in [Slots -> Entry], Between(d, ddir, dir), NEW c, Exact(d, c, o),
         Visible(d, c, o) # Visible(ddir, ddata, o)
  PROVE  /\ Visible(ddir, ddata, o) # Visible(dir, data, o)
         /\ Visible(d, c, o) \in {Visible(dir, data, o), NoVal}
         /\ Visible(d, c, o) = NoVal \/ \E s \in Slots : ActiveOf(d[s], o) /\ d[s] # ddir[s]
<1>1. Exact(dir, data, o) /\ Exact(ddir, ddata, o)
  BY RegionExact
<1>2. /\ \A s \in Slots : d[s] \in {ddir[s], dir[s]} \/ (d[s] = Torn /\ ddir[s] # dir[s])
      /\ ~ActiveOf(Torn, o)
      /\ dir \in [Slots -> Entry] /\ ddir \in [Slots -> Entry]
      /\ OneVersion /\ Mixed /\ Receding
  BY BlankFacts DEF Between, ActiveOf, TypeOK, Steady
<1>3. Between(ddir, ddir, dir) /\ Mix(ddir, ddir, dir)
  BY DEF Between, Mix
<1>4. \E a \in Slots : ActiveOf(dir[a], o) \/ ActiveOf(ddir[a], o)
  <2>1. SUFFICES ASSUME \A a \in Slots : ~ActiveOf(dir[a], o) /\ ~ActiveOf(ddir[a], o) PROVE FALSE
    OBVIOUS
  <2>2. \A a \in Slots : ~ActiveOf(d[a], o)
    BY <1>2, <2>1
  <2> QED BY <1>1, <2>1, <2>2, VisibleSame
<1>5. PICK a \in Slots : ActiveOf(dir[a], o) \/ ActiveOf(ddir[a], o)
  BY <1>4
<1>6. \A t \in Slots : t # a => ~ActiveOf(dir[t], o) /\ ~ActiveOf(ddir[t], o)
  BY <1>5 DEF OneSlotEach, Copies
<1>7. \A t \in Slots : t # a => ~ActiveOf(d[t], o)
  BY <1>2, <1>6
<1>8. CASE ActiveOf(dir[a], o) /\ ActiveOf(ddir[a], o)
  <2>1. dir[a] = ddir[a]
    BY <1>2, <1>8 DEF OneVersion, ActiveOf
  <2>2. d[a] = dir[a]
    BY <1>2, <2>1
  <2>3. (a \in Usable(d) <=> a \in Usable(dir)) /\ (a \in Usable(ddir) <=> a \in Usable(dir))
    BY <1>2, <1>3, <1>8, <2>1, <2>2 DEF Mixed, ActiveOf
  <2>4. Visible(d, c, o) = Visible(ddir, ddata, o)
    BY <1>1, <1>6, <1>7, <2>1, <2>2, <2>3, VisibleSame
  <2> QED BY <2>4
<1>9. CASE ActiveOf(dir[a], o) /\ ~ActiveOf(ddir[a], o)
  <2>1. Visible(ddir, ddata, o) = NoVal
    BY <1>1, <1>6, <1>9, VisibleExact
  <2>2. CASE d[a] = dir[a]
    <3>1. a \in Usable(d) <=> a \in Usable(dir)
      BY <1>2, <1>9, <2>2 DEF Mixed, ActiveOf
    <3>2. Visible(d, c, o) = Visible(dir, data, o)
      BY <1>1, <1>6, <1>7, <2>2, <3>1, VisibleSame
    <3> QED BY <1>9, <2>1, <2>2, <3>2
  <2>3. CASE d[a] # dir[a]
    <3>1. \A t \in Slots : ~ActiveOf(d[t], o)
      BY <1>2, <1>7, <1>9, <2>3
    <3> QED BY <2>1, <3>1, VisibleExact
  <2> QED BY <2>2, <2>3
<1>10. CASE ~ActiveOf(dir[a], o) /\ ActiveOf(ddir[a], o)
  <2>1. Visible(dir, data, o) = NoVal
    BY <1>1, <1>6, <1>10, VisibleExact
  <2>2. dir[a].state # "active"
    BY <1>10 DEF OneSlotEach, ActiveOf, EntryStates
  <2>3. CASE d[a] = ddir[a]
    <3>1. a \in Usable(d) => a \in Usable(ddir)
      <4>1. Between(d, ddir, dir) /\ ddir[a].state = "active"
        BY <1>10 DEF ActiveOf
      <4> QED BY <1>2, <1>3, <2>2, <2>3, <4>1 DEF Receding
    <3>2. CASE a \in Usable(d)
      BY <1>1, <1>6, <1>7, <2>3, <3>1, <3>2, VisibleSame
    <3>3. CASE a \notin Usable(d)
      <4>1. Visible(d, c, o) = NoVal
        BY <1>7, <3>3, VisibleExact
      <4> QED BY <2>1, <4>1
    <3> QED BY <3>2, <3>3
  <2>4. CASE d[a] # ddir[a]
    <3>1. \A t \in Slots : ~ActiveOf(d[t], o)
      BY <1>2, <1>7, <1>10, <2>4
    <3>2. Visible(d, c, o) = NoVal
      BY <3>1, VisibleExact
    <3> QED BY <2>1, <3>2
  <2> QED BY <2>3, <2>4
<1> QED BY <1>5, <1>8, <1>9, <1>10

LEMMA SameCalls ==
  ASSUME \A u \in Writers : req'[u] = req[u] /\ (pc[u] = "idle" <=> pc'[u] = "idle")
  PROVE  UnderWay' = UnderWay
  BY DEF UnderWay, Target

LEMMA SameRegion ==
  ASSUME UNCHANGED <<dir, data, ddir, ddata>>
  PROVE  Readable' = Readable /\ Recoverable' = Recoverable
  BY DEF Readable, Recoverable

LEMMA InitIsEmpty ==
  ASSUME Init
  PROVE  Store!StoreInit
<1>1. \A o, c : Exact(dir, c, o)
  BY BlankIsOfNone DEF Init, Exact, ActiveOf
<1>2. \A o, c : Visible(dir, c, o) = NoVal
  BY <1>1, VisibleExact, BlankIsOfNone DEF Init, ActiveOf
<1>3. Readable = [o \in Objects |-> NoVal] /\ Recoverable = Readable
  BY <1>2 DEF Init, Readable, Recoverable
<1>4. UnderWay = [w \in Writers |-> <<>>]
  BY DEF Init, UnderWay
<1> QED BY <1>3, <1>4 DEF Store!StoreInit, Store!None

LEMMA BeginIsStart ==
  ASSUME TypeOK, NEW w \in Writers, Begin(w)
  PROVE  Store!Start(w)
<1>1. /\ pc[w] = "idle" /\ pc' = [pc EXCEPT ![w] = "lock"] /\ UNCHANGED <<dir, data, ddir, ddata>>
      /\ \E r \in Request : req' = [req EXCEPT ![w] = r]
  BY RegionAssumption DEF Begin, BeginWrite, BeginDelete, Goto, region, disk, Request, Outcomes
<1>2. PICK r \in Request : req' = [req EXCEPT ![w] = r]
  BY <1>1
<1>3. pc'[w] = "lock" /\ req'[w] = r /\ \A u \in Writers : u # w => pc'[u] = pc[u] /\ req'[u] = req[u]
  BY <1>1, <1>2 DEF TypeOK
<1>4. UnderWay[w] = <<>>
  BY <1>1 DEF UnderWay
<1>5. UnderWay'[w] = <<Fold[r.key], r.val>> /\ r.val \in Outcomes /\ Fold[r.key] \in Objects
  BY <1>3, RequestFields, RegionAssumption DEF UnderWay, Target
<1>6. UnderWay' = [UnderWay EXCEPT ![w] = UnderWay'[w]]
  BY <1>3 DEF UnderWay, Target
<1>7. UnderWay'[w] \in Objects \X (Values \cup {NoVal})
  BY <1>5 DEF Outcomes
<1> QED BY <1>1, <1>4, <1>6, <1>7, SameRegion DEF Store!Start, Store!None, Store!Calls

\* A call that returns, fails to open or is killed.
LEMMA LeavingIsEnd ==
  ASSUME UNCHANGED <<dir, data, ddir, ddata>>,
         \A u \in Writers : pc'[u] = "idle" \/ (req'[u] = req[u] /\ (pc[u] = "idle" <=> pc'[u] = "idle"))
  PROVE  Store!End
<1>1. \A u \in Writers : UnderWay'[u] \in {UnderWay[u], <<>>}
  BY DEF UnderWay, Target
<1> QED BY <1>1, SameRegion DEF Store!End, Store!None

\* What a slot write makes of the region that readers see.
LEMMA PutVisible ==
  ASSUME TypeOK, RegionSound, PInv, SInv, NEW w \in Writers, AtPut(w), NEW e, Leaves(w, e),
         NEW d, d[slot[w]] = e, \A s \in Slots : s # slot[w] => d[s] = dir[s],
         NEW c, \A o \in Objects : Exact(d, c, o)
  PROVE  /\ \A o \in Objects : o # Target(w) => Visible(d, c, o) = Visible(dir, data, o)
         /\ \/ Visible(d, c, Target(w)) = NoVal
            \/ /\ Visible(d, c, Target(w)) = req[w].val
               /\ Visible(dir, data, Target(w)) = NoVal
               /\ Visible(ddir, ddata, Target(w)) = NoVal
<1> DEFINE x == slot[w]
<1>1. /\ x \in Slots /\ d[x] = e /\ (\A s \in Slots : s # x => d[s] = dir[s])
      /\ Target(w) \in Objects /\ Claims(w, dir[x]) /\ Claims(w, e) /\ OneSlotEach
      /\ (pc[w] \in {"putActive", "clear"} => ddir = dir /\ dir[x].state # "active")
      /\ (e.state = "active" => pc[w] = "putActive" /\ IsOf(e, Target(w)) /\ e.val = req[w].val)
      /\ (pc[w] = "clear" => ~WellFormed(e))
      /\ \A t \in Slots \ {x} : ~ActiveOf(dir[t], Target(w))
  BY DEF AtPut, Leaves, TypeOK, Puts, WriteSteps, DeleteSteps, Committing, PInv, Promised
<1>2. ASSUME NEW o \in Objects
      PROVE  Exact(dir, data, o) /\ Exact(ddir, ddata, o) /\ Exact(d, c, o)
  BY <1>1, RegionExact
<1>3. ASSUME NEW o \in Objects, o # Target(w) PROVE Visible(d, c, o) = Visible(dir, data, o)
  <2>1. ~ActiveOf(dir[x], o) /\ ~ActiveOf(d[x], o)
    <3>1. ActiveOf(dir[x], o) => WellFormed(dir[x])
      BY <1>1 DEF RegionSound, ActiveSound, ActiveOf
    <3> QED BY <1>1, <1>3, <3>1 DEF ActiveOf, IsOf, Claims
  <2>2. ASSUME NEW a \in Slots, ActiveOf(dir[a], o) \/ ActiveOf(d[a], o)
        PROVE  dir[a] = d[a] /\ (a \in Usable(dir) <=> a \in Usable(d))
    <3>1. a \in Slots \ {x} /\ dir[a] = d[a] /\ dir[a].state = "active"
      BY <1>1, <2>1, <2>2 DEF ActiveOf
    <3>2. \A s \in Slots \ {x} : d[s] = dir[s]
      BY <1>1
    <3> QED BY <1>1, <3>1, <3>2, Bystanders
  <2> QED BY <1>2, <2>2, VisibleSame
<1>4. CASE e.state # "active"
  <2>1. \A t \in Slots : ~ActiveOf(d[t], Target(w))
    BY <1>1, <1>4 DEF ActiveOf
  <2>2. Visible(d, c, Target(w)) = NoVal
    BY <1>1, <1>2, <2>1, VisibleExact
  <2> QED BY <1>3, <2>2
<1>5. CASE e.state = "active"
  <2>1. ddir = dir /\ \A t \in Slots : ~ActiveOf(dir[t], Target(w))
    BY <1>1, <1>5 DEF ActiveOf
  <2>2. Visible(dir, data, Target(w)) = NoVal /\ Visible(ddir, ddata, Target(w)) = NoVal
    BY <1>1, <1>2, <2>1, VisibleExact
  <2>3. Visible(d, c, Target(w)) \in {NoVal, req[w].val}
    <3>1. \A s \in Slots : ActiveOf(d[s], Target(w)) => d[s].val = req[w].val
      BY <1>1, <1>5, <2>1
    <3> QED BY <3>1, VisibleIsActive
  <2> QED BY <1>3, <2>2, <2>3
<1> QED BY <1>4, <1>5

\* A step that changes what readers get of one object, as the call on it allows.
LEMMA ServesItsObject ==
  ASSUME NEW w \in Writers, NEW o \in Objects, NEW v, UnderWay[w] = <<o, v>>,
         \A q \in Objects : q # o => Readable'[q] = Readable[q],
         \/ Readable'[o] = NoVal
         \/ Readable'[o] = v /\ Readable[o] = NoVal /\ Recoverable[o] = NoVal,
         Recoverable' = Recoverable, UnderWay' = UnderWay
  PROVE  Store!Serve
<1>1. Store!Change(w, o)
  BY DEF Store!Change, Store!None
<1> QED BY <1>1 DEF Store!Serve

\* A slot write serves its call's object, and no other.
LEMMA PutServes ==
  ASSUME TypeOK, RegionSound, PInv, SInv, RegionSound', OneSlotEach',
         NEW w \in Writers, AtPut(w), pc[w] # "idle", NEW e, Leaves(w, e),
         dir'[slot[w]] = e, \A s \in Slots : s # slot[w] => dir'[s] = dir[s],
         UNCHANGED <<ddir, ddata>>, UnderWay' = UnderWay
  PROVE  Store!Serve
<1>1. \A o \in Objects : Exact(dir', data', o)
  BY NextExact
<1>2. /\ \A o \in Objects : o # Target(w) => Visible(dir', data', o) = Visible(dir, data, o)
      /\ \/ Visible(dir', data', Target(w)) = NoVal
         \/ /\ Visible(dir', data', Target(w)) = req[w].val
            /\ Visible(dir, data, Target(w)) = NoVal
            /\ Visible(ddir, ddata, Target(w)) = NoVal
  BY <1>1, PutVisible
<1>3. Target(w) \in Objects /\ UnderWay[w] = <<Target(w), req[w].val>>
  BY DEF AtPut, UnderWay
<1>4. /\ \A o \in Objects : /\ Readable[o] = Visible(dir, data, o)
                            /\ Readable'[o] = Visible(dir', data', o)
                            /\ Recoverable[o] = Visible(ddir, ddata, o)
      /\ Recoverable' = Recoverable
  BY DEF Readable, Recoverable
<1>5. \A o \in Objects : o # Target(w) => Readable'[o] = Readable[o]
  BY <1>2, <1>4
<1>6. \/ Readable'[Target(w)] = NoVal
      \/ /\ Readable'[Target(w)] = req[w].val
         /\ Readable[Target(w)] = NoVal
         /\ Recoverable[Target(w)] = NoVal
  BY <1>2, <1>3, <1>4
<1> QED BY <1>3, <1>4, <1>5, <1>6, ServesItsObject

\* Copying the content changes nothing that a reader is given.
LEMMA CopyServes ==
  ASSUME RegionSound, PInv, RegionSound', OneSlotEach',
         UNCHANGED <<dir, ddir, ddata>>, UnderWay' = UnderWay
  PROVE  Store!Serve
<1>1. ASSUME NEW o \in Objects, NEW c, Exact(dir, c, o)
      PROVE  Visible(dir, c, o) = Visible(dir, data, o)
  <2>1. Exact(dir, data, o)
    BY <1>1, RegionExact DEF PInv, Promised
  <2> QED BY <1>1, <2>1, VisibleSame
<1>2. \A o \in Objects : Exact(dir, data', o)
  BY NextExact
<1>3. Readable' = Readable /\ Recoverable' = Recoverable
  BY <1>1, <1>2 DEF Readable, Recoverable
<1> QED BY <1>3 DEF Store!Serve

\* What is written back moves the disk towards the cache.
LEMMA WriteBackSettles ==
  ASSUME TypeOK, RegionSound, PInv, SInv, RegionSound', OneSlotEach', TypeOK',
         UNCHANGED <<dir, data>>, DiskFollows, UnderWay' = UnderWay
  PROVE  Store!Settle
<1>1. ASSUME NEW o \in Objects, Visible(ddir', ddata', o) # Visible(ddir, ddata, o)
      PROVE  /\ Visible(ddir, ddata, o) # Visible(dir, data, o)
             /\ Visible(ddir', ddata', o) \in {Visible(dir, data, o), NoVal}
  <2>2. Exact(ddir', ddata', o)
    BY NextExact
  <2>3. Between(ddir', ddir, dir) /\ ddir' \in [Slots -> Entry]
    BY DEF DiskFollows, Between, TypeOK
  <2> QED BY <1>1, <2>2, <2>3, DiskMoves DEF PInv, Promised, SInv
<1>2. Readable' = Readable
  BY DEF Readable
<1> QED BY <1>1, <1>2 DEF Store!Settle, Readable, Recoverable

LEMMA PowerLossIsCrash ==
  ASSUME TypeOK, RegionSound, PInv, SInv, RegionSound', OneSlotEach', TypeOK', PowerLoss
  PROVE  Store!Crash
<1>1. /\ ddir' = dir' /\ ddata' = data' /\ \A w \in Writers : pc'[w] = "idle"
      /\ \A s \in Slots : dir'[s] = ddir[s] \/ (dir'[s] = Torn /\ ddir[s] # dir[s])
  BY DEF PowerLoss, Stop
<1>2. ASSUME NEW o \in Objects, Visible(ddir', ddata', o) # Visible(ddir, ddata, o)
      PROVE  /\ Visible(ddir, ddata, o) # Visible(dir, data, o)
             /\ Visible(ddir', ddata', o) = NoVal
  <2>2. Exact(ddir', ddata', o)
    BY NextExact
  <2>3. Between(ddir', ddir, dir) /\ ddir' \in [Slots -> Entry]
    BY <1>1 DEF Between, TypeOK
  <2>4. \A s \in Slots : ActiveOf(ddir'[s], o) => ddir'[s] = ddir[s]
    BY <1>1, BlankIsOfNone DEF ActiveOf
  <2> QED BY <1>2, <2>2, <2>3, <2>4, DiskMoves DEF PInv, Promised, SInv
<1>3. Readable' = Recoverable'
  BY <1>1 DEF Readable, Recoverable
<1>4. \A w \in Writers : UnderWay'[w] = <<>>
  BY <1>1 DEF UnderWay
<1> QED BY <1>2, <1>3, <1>4 DEF Store!Crash, Store!None, Readable, Recoverable

\* Every step of a call is a step of the store.
LEMMA CallServes ==
  ASSUME Strong, PInv, SInv, Strong', PInv', NEW w \in Writers, Step(w) \/ Begin(w) \/ OpenFails(w)
  PROVE  Store!StoreNext
<1>1. /\ TypeOK /\ TypeOK' /\ RegionSound /\ RegionSound' /\ OneSlotEach' /\ Placed(w)
  BY DEF Strong, Typed, PInv, Promised, SInv
<1>2. CASE Begin(w)
  BY <1>1, <1>2, BeginIsStart DEF Store!StoreNext
<1>3. CASE OpenFails(w) \/ Return(w)
  <2>1. UNCHANGED <<dir, data, ddir, ddata>> /\ Forget({w}) /\ pc' = [pc EXCEPT ![w] = "idle"]
    BY <1>3 DEF OpenFails, Return, region, disk, Goto
  <2>2. pc'[w] = "idle" /\ \A u \in Writers : u # w => pc'[u] = pc[u] /\ req'[u] = req[u]
    BY <1>1, <2>1 DEF Forget, TypeOK
  <2>3. \A u \in Writers : pc'[u] = "idle" \/ (req'[u] = req[u] /\ (pc[u] = "idle" <=> pc'[u] = "idle"))
    BY <2>2
  <2> QED BY <2>1, <2>3, LeavingIsEnd DEF Store!StoreNext
<1>4. CASE \/ Lock(w) \/ PlanReplace(w) \/ PlanCreate(w) \/ PlanDelete(w) \/ PlanRefuse(w)
           \/ PutWriting(w) \/ PutDeleting(w) \/ PutActive(w) \/ ClearSlot(w) \/ Syncs(w)
           \/ CopyChunk(w) \/ CopyFails(w) \/ CopyDone(w)
  <2>1. req' = req /\ pc[w] # "idle"
    BY <1>4
    DEF Lock, PlanReplace, PlanCreate, PlanDelete, PlanRefuse, Choose,
        PutWriting, PutDeleting, PutActive, ClearSlot, PutSlot, Syncs, SyncWriting, SyncData,
        SyncActive, SyncDeleting, SyncClear, Flush, CopyChunk, CopyFails, CopyDone, locals
  <2>2. \E step \in Steps : pc' = [pc EXCEPT ![w] = step]
    <3>1. CASE Lock(w) \/ PlanReplace(w) \/ PlanCreate(w) \/ PlanDelete(w) \/ PlanRefuse(w)
      BY <3>1 DEF Lock, PlanReplace, PlanCreate, PlanDelete, PlanRefuse, Choose, Goto, Steps
    <3>2. CASE PutWriting(w) \/ PutDeleting(w) \/ PutActive(w) \/ ClearSlot(w)
      BY <3>2 DEF PutWriting, PutDeleting, PutActive, ClearSlot, PutSlot, Goto, Steps
    <3>3. CASE Syncs(w)
      BY <3>3 DEF Syncs, SyncWriting, SyncData, SyncActive, SyncDeleting, SyncClear, Flush, Goto, Steps
    <3>4. CASE CopyChunk(w)
      <4>1. pc' = pc /\ pc[w] = "copy"
        BY <3>4 DEF CopyChunk
      <4> QED BY <1>1, <4>1 DEF TypeOK, Steps
    <3>5. CASE CopyFails(w) \/ CopyDone(w)
      BY <3>5 DEF CopyFails, CopyDone, Goto, Steps
    <3> QED BY <1>4, <3>1, <3>2, <3>3, <3>4, <3>5
  <2>3. \A u \in Writers : req'[u] = req[u] /\ (pc[u] = "idle" <=> pc'[u] = "idle")
    BY <1>1, <2>1, <2>2 DEF TypeOK, Steps
  <2>4. UnderWay' = UnderWay
    BY <2>3, SameCalls
  <2>5. ASSUME UNCHANGED <<dir, data, ddir, ddata>> PROVE Store!StoreNext
    BY <2>3, <2>5, LeavingIsEnd DEF Store!StoreNext
  <2>6. CASE Lock(w) \/ PlanReplace(w) \/ PlanCreate(w) \/ PlanDelete(w) \/ PlanRefuse(w) \/ CopyDone(w)
    BY <2>5, <2>6 DEF Lock, PlanReplace, PlanCreate, PlanDelete, PlanRefuse, CopyDone, region, disk
  <2>7. CASE PutWriting(w) \/ PutDeleting(w) \/ PutActive(w) \/ ClearSlot(w)
    <3>1. data' = data /\ ddir' = ddir /\ ddata' = ddata
      BY <2>7 DEF PutWriting, PutDeleting, PutActive, ClearSlot, PutSlot, disk
    <3>2. AtPut(w) /\ (dir' = dir \/ \E e : Leaves(w, e) /\ dir' = [dir EXCEPT ![slot[w]] = e])
      BY <1>1, <2>7, PutForms
    <3>3. CASE dir' = dir
      BY <2>5, <3>1, <3>3
    <3>4. ASSUME NEW e, Leaves(w, e), dir' = [dir EXCEPT ![slot[w]] = e] PROVE Store!StoreNext
      <4>1. dir'[slot[w]] = e /\ \A s \in Slots : s # slot[w] => dir'[s] = dir[s]
        BY <1>1, <3>2, <3>4 DEF AtPut, TypeOK
      <4> QED BY <1>1, <2>1, <2>4, <3>1, <3>2, <3>4, <4>1, PutServes DEF Store!StoreNext
    <3> QED BY <3>2, <3>3, <3>4
  <2>8. CASE CopyChunk(w) \/ CopyFails(w)
    <3>1. UNCHANGED <<dir, ddir, ddata>>
      BY <2>8 DEF CopyChunk, CopyFails, disk
    <3> QED BY <1>1, <2>4, <3>1, CopyServes DEF Store!StoreNext
  <2>9. CASE Syncs(w)
    <3>1. UNCHANGED <<dir, data>> /\ (ddir' = dir \/ UNCHANGED <<ddir, ddata>>)
      BY <2>9 DEF Syncs, SyncWriting, SyncData, SyncActive, SyncDeleting, SyncClear, Flush, region, disk
    <3>2. CASE ddir' = dir
      <4>1. DiskFollows
        BY <3>2 DEF DiskFollows
      <4> QED BY <1>1, <2>4, <3>1, <4>1, WriteBackSettles DEF Store!StoreNext
    <3> QED BY <2>5, <3>1, <3>2
  <2> QED BY <1>4, <2>6, <2>7, <2>8, <2>9
<1> QED BY <1>2, <1>3, <1>4 DEF Step, Syncs

LEMMA StoreStep ==
  ASSUME Strong, PInv, SInv, Strong', PInv', [Next]_vars
  PROVE  [Store!StoreNext]_(Store!svars)
<1>1. TypeOK /\ TypeOK' /\ RegionSound /\ RegionSound' /\ OneSlotEach'
  BY DEF Strong, Typed, PInv, Promised
<1>2. ASSUME NEW p \in Processes, Kill(p) PROVE Store!StoreNext
  <2> DEFINE W == {w \in Writers : ProcessOf[w] = p}
  <2>1. UNCHANGED <<dir, data, ddir, ddata>> /\ Stop(W)
    BY <1>2 DEF Kill, region, disk
  <2> HIDE DEF W
  <2>2. \A u \in Writers : pc'[u] = "idle" \/ (pc'[u] = pc[u] /\ req'[u] = req[u])
    BY <2>1 DEF Stop, Forget
  <2>3. \A u \in Writers : pc'[u] = "idle" \/ (req'[u] = req[u] /\ (pc[u] = "idle" <=> pc'[u] = "idle"))
    BY <2>2
  <2> QED BY <2>1, <2>3, LeavingIsEnd DEF Store!StoreNext
<1>3. CASE PowerLoss
  BY <1>1, <1>3, PowerLossIsCrash DEF Store!StoreNext
<1>4. CASE (\E s \in Slots : WriteBackSlot(s)) \/ (\E a \in Cells : WriteBackCell(a))
  <2>1. /\ UNCHANGED <<dir, data>>
        /\ \A u \in Writers : req'[u] = req[u] /\ (pc[u] = "idle" <=> pc'[u] = "idle")
    BY <1>4 DEF WriteBackSlot, WriteBackCell, region, locals
  <2>2. DiskFollows
    BY <1>1, <1>4 DEF WriteBackSlot, WriteBackCell, DiskFollows, TypeOK
  <2>3. UnderWay' = UnderWay
    BY <2>1, SameCalls
  <2> QED BY <1>1, <2>1, <2>2, <2>3, WriteBackSettles DEF Store!StoreNext
<1>5. CASE UNCHANGED vars
  <2>1. UNCHANGED <<dir, data, ddir, ddata, pc, req>>
    BY <1>5 DEF vars
  <2>2. Readable' = Readable /\ Recoverable' = Recoverable /\ UnderWay' = UnderWay
    BY <2>1, SameRegion, SameCalls
  <2> QED BY <2>2 DEF Store!svars
<1> QED BY <1>2, <1>3, <1>4, <1>5, CallServes DEF Next, Environment

(***************************************************************************)
(* mutable_write.c implements the store of MutableStore: whatever calls    *)
(* are killed, fail or lose power at whatever step, what readers are given *)
(* for an object, and what they would be given after a power loss, changes *)
(* only as a call on it allows, and a content is withdrawn before another  *)
(* takes its place.                                                        *)
(***************************************************************************)
THEOREM CommitsImplementStore == OneWriterPerProcess => (Spec => ImplementsStore)
<1> SUFFICES ASSUME OneWriterPerProcess PROVE Spec => ImplementsStore
  OBVIOUS
<1>1. Init => Strong /\ PInv /\ SInv
  BY InitStrong, InitPromised, InitSteady DEF SInv, Strong, Typed
<1>2. Strong /\ PInv /\ SInv /\ [Next]_vars => Strong' /\ PInv' /\ SInv'
  BY StrongInductive, PromisedInductive, SteadyInductive
<1>3. Init => Store!StoreInit
  BY InitIsEmpty
<1>4. Strong /\ PInv /\ SInv /\ Strong' /\ PInv' /\ [Next]_vars => [Store!StoreNext]_(Store!svars)
  BY StoreStep
<1> QED BY <1>1, <1>2, <1>3, <1>4, PTL DEF Spec, ImplementsStore, Store!StoreSpec

-----------------------------------------------------------------------------
(***************************************************************************)
(* The inductive invariant behind RegularLookup: what a reader that keeps  *)
(* slots of different moments can rely on.                                 *)
(***************************************************************************)
\* What a lookup may return now, it may return as long as the reader is open.
Watched ==
  rpc # "closed" => \A o \in Objects : AllowedNow(o) \subseteq seen[o]

\* What was ACTIVE when it was read was allowed then.
Scanned ==
  \A s \in Slots, o \in Objects : s < next /\ ActiveOf(view[s], o) => view[s].val \in seen[o]

\* An object that was there the whole time stands in one slot, as the reader
\* read it, clear of everything the reader read elsewhere.
Standing(o, s) ==
  /\ ActiveOf(dir[s], o)
  /\ s < next => view[s] = dir[s]
  /\ \A t \in Slots : t < next /\ t # s /\ WellFormed(view[t]) => ~Conflict(view[t], dir[s])

Stands ==
  rpc # "closed" =>
    \A o \in Objects : NoVal \notin seen[o] => \E s \in Slots : Standing(o, s)

\* How far the reader is, and what it has found.
Looking ==
  /\ next \in Nat
  /\ rpc = "closed" => next = 0
  /\ rpc \notin {"closed", "scan"} => next = NumSlots
  /\ rpc \in {"closed", "scan", "ready"} => rpos = 0 /\ exact
  /\ rpc \notin {"closed", "scan", "ready"} => target \in Objects
  /\ rpc = "absent" => NoVal \in seen[target]
  /\ rpc \in {"validate", "read", "delivered"} =>
       /\ rslot \in Holding(view, target)
       /\ rpos \in Nat
       /\ rpos % 64 = 0
       /\ exact \/ NoVal \in seen[target]

LInv ==
  /\ view \in [Slots -> Entry]
  /\ DOMAIN seen = Objects
  /\ Watched
  /\ Scanned
  /\ Stands
  /\ Looking

LEMMA InitLooking == Init /\ ReaderInit => LInv
<1> SUFFICES ASSUME Init, ReaderInit PROVE LInv
  OBVIOUS
<1>1. /\ rpc = "closed" /\ view = [s \in Slots |-> Free] /\ next = 0 /\ rpos = 0 /\ exact
      /\ seen = [o \in Objects |-> {}]
  BY DEF ReaderInit
<1>2. Free \in Entry /\ Slots \subseteq Nat
  BY BlankTypes, RegionAssumption DEF Slots
<1>3. Watched /\ Stands
  BY <1>1 DEF Watched, Stands
<1>4. Scanned
  <2>1. \A s \in Slots : ~(s < next)
    BY <1>1, <1>2
  <2> QED BY <2>1 DEF Scanned
<1>5. Looking
  BY <1>1 DEF Looking
<1> QED BY <1>1, <1>2, <1>3, <1>4, <1>5 DEF LInv

-----------------------------------------------------------------------------
\* While an object must be found, its entry conflicts with no other ...
LEMMA ClearOfOthers ==
  ASSUME Strong, PInv, NEW o \in Objects, NEW s \in Slots, ActiveOf(dir[s], o),
         NoVal \notin AllowedNow(o), NEW t \in Slots \ {s}, WellFormed(dir[t])
  PROVE  ~Conflict(dir[t], dir[s])
<1>1. TypeOK /\ CopiesApart /\ OneSlotEach
  BY DEF Strong, Typed, RegionSound, PInv, Promised
<1>2. ~Overlap(dir[s], dir[t])
  BY <1>1 DEF CopiesApart, Copies, ActiveOf
<1>3. ~IsOf(dir[t], o)
  <2>1. SUFFICES ASSUME IsOf(dir[t], o) PROVE FALSE
    OBVIOUS
  <2>2. dir[t].state # "active"
    BY <1>1, <2>1 DEF OneSlotEach, Copies, ActiveOf
  <2>3. LeftOver(o)
    BY <2>1, <2>2 DEF LeftOver, WellFormed, EntryStates, IsOf
  <2> QED BY <2>3 DEF AllowedNow
<1>4. Fold[dir[t].key] # o /\ Fold[dir[s].key] = o
  BY <1>3 DEF IsOf, ActiveOf, WellFormed, Fits
<1> QED BY <1>2, <1>4 DEF Conflict, Overlap

\* ... and no call is at work on it.
LEMMA NoneAtWork ==
  ASSUME Strong, PInv, NEW o \in Objects, NEW s \in Slots, ActiveOf(dir[s], o),
         NoVal \notin AllowedNow(o), NEW w \in Writers, pc[w] \in WriteSteps \cup DeleteSteps
  PROVE  slot[w] # s
<1>1. TypeOK /\ Committing(w) /\ pc[w] # "idle"
  BY DEF Strong, Typed, PInv, Call, WriteSteps, DeleteSteps
<1> SUFFICES ASSUME slot[w] = s PROVE FALSE
  OBVIOUS
<1>2. Target(w) = o
  BY <1>1 DEF Committing, ActiveOf
<1>3. CASE pc[w] \in {"putWriting", "putDeleting"}
  BY <1>2, <1>3 DEF AllowedNow, Touched
<1>4. CASE pc[w] \notin {"putWriting", "putDeleting"}
  BY <1>1, <1>2, <1>4 DEF AllowedNow, Committing
<1> QED BY <1>3, <1>4

LEMMA EntryKept ==
  ASSUME Strong, PInv, NEW o \in Objects, NEW s \in Slots, ActiveOf(dir[s], o),
         NoVal \notin AllowedNow(o), NEW w \in Writers, Step(w) \/ Begin(w) \/ OpenFails(w)
  PROVE  dir'[s] = dir[s]
<1>1. TypeOK
  BY DEF Strong, Typed
<1>2. CASE PutWriting(w) \/ PutDeleting(w) \/ PutActive(w) \/ ClearSlot(w)
  <2>1. /\ pc[w] \in {"putWriting", "putDeleting", "putActive", "clear"}
        /\ dir' = dir \/ \E e : dir' = [dir EXCEPT ![slot[w]] = e]
    BY <1>2 DEF PutWriting, PutDeleting, PutActive, ClearSlot, PutSlot
  <2>2. slot[w] # s
    BY <2>1, NoneAtWork DEF WriteSteps, DeleteSteps
  <2> QED BY <1>1, <2>1, <2>2 DEF TypeOK
<1>3. CASE Begin(w) \/ OpenFails(w) \/ Return(w)
  BY <1>3 DEF Begin, BeginWrite, BeginDelete, OpenFails, Return, region
<1>4. CASE \/ Lock(w) \/ PlanReplace(w) \/ PlanCreate(w) \/ PlanDelete(w) \/ PlanRefuse(w) \/ Syncs(w)
           \/ CopyChunk(w) \/ CopyFails(w) \/ CopyDone(w)
  BY <1>4 DEF Lock, PlanReplace, PlanCreate, PlanDelete, PlanRefuse, Syncs, SyncWriting, SyncData,
              SyncActive, SyncDeleting, SyncClear, Flush, CopyChunk, CopyFails, CopyDone, region
<1> QED BY <1>2, <1>3, <1>4 DEF Step, Syncs

\* What a reader gets of the slot and of the cells is what is there.
LEMMA ReadsTheEntry ==
  ASSUME Strong, PInv, NEW o \in Objects, NEW s \in Slots, ActiveOf(dir[s], o), NoVal \notin AllowedNow(o)
  PROVE  /\ ~SlotBeingWritten(s)
         /\ \A p \in Nat : p % 64 = 0 /\ p < Size[dir[s].val] =>
              CellReads(dir[s].off + p) = {CellOf(dir[s].val, p)}
<1>1. TypeOK /\ WellFormed(dir[s]) /\ Intact(data, dir[s])
  BY DEF Strong, Typed, RegionSound, ActiveSound, ActiveOf, IntactTwice
<1>2. ~SlotBeingWritten(s)
  BY NoneAtWork DEF SlotBeingWritten, WriteSteps, DeleteSteps
<1>3. ASSUME NEW p \in Nat, p % 64 = 0, p < Size[dir[s].val]
      PROVE  CellReads(dir[s].off + p) = {CellOf(dir[s].val, p)}
  <2>1. /\ dir[s].off \in Nat /\ dir[s].cap \in Nat /\ Size[dir[s].val] \in Nat
        /\ Size[dir[s].val] <= dir[s].cap
    BY <1>1, RegionAssumption DEF TypeOK, Entry, WellFormed, Fits
  <2>2. data[dir[s].off + p] = CellOf(dir[s].val, p)
    BY <1>1, <1>3, <2>1 DEF Intact
  <2>3. ASSUME NEW w \in Writers, pc[w] = "copy", pos[w] < Size[ent[w].val],
               ent[w].off + pos[w] = dir[s].off + p
        PROVE  FALSE
    <3>1. slot[w] # s
      BY <2>3, NoneAtWork DEF WriteSteps
    <3>2. Planned(w) /\ Fits(ent[w]) /\ ent[w] \in Entry /\ pos[w] \in Nat /\ ~Overlap(ent[w], dir[s])
      BY <1>1, <2>3, <3>1 DEF Strong, Apart, Planned, WriteSteps, TypeOK
    <3>3. /\ ent[w].off \in Nat /\ ent[w].cap \in Nat /\ Size[ent[w].val] \in Nat
          /\ Size[ent[w].val] <= ent[w].cap
      BY <3>2, RegionAssumption DEF Entry, Fits
    <3>4. ent[w].off < dir[s].off + dir[s].cap /\ dir[s].off < ent[w].off + ent[w].cap
      BY <1>3, <2>1, <2>3, <3>2, <3>3
    <3> QED BY <3>2, <3>4 DEF Overlap
  <2> QED BY <2>2, <2>3 DEF CellReads, CellBeingWritten
<1> QED BY <1>2, <1>3

-----------------------------------------------------------------------------
(***************************************************************************)
(* The reader's steps.                                                     *)
(***************************************************************************)
LEMMA SameWriters ==
  ASSUME UNCHANGED vars
  PROVE  /\ \A o \in Objects : AllowedNow(o)' = AllowedNow(o)
         /\ dir' = dir
  BY DEF vars, region, disk, locals, AllowedNow, LeftOver, Touched, Target

\* A step that only looks into what was read.
LEMMA LookingOn ==
  ASSUME LInv, UNCHANGED <<vars, view, next, seen>>, rpc # "closed", Looking'
  PROVE  LInv'
<1>1. /\ \A o \in Objects : AllowedNow(o)' = AllowedNow(o)
      /\ dir' = dir
  BY SameWriters
<1>2. Watched'
  BY <1>1 DEF LInv, Watched
<1>3. Scanned'
  BY DEF LInv, Scanned
<1>4. Stands'
  BY <1>1 DEF LInv, Stands, Standing
<1> QED BY <1>2, <1>3, <1>4 DEF LInv

LEMMA OpenLooking ==
  ASSUME Strong, PInv, LInv, Open
  PROVE  LInv'
<1>1. /\ rpc = "closed" /\ rpc' = "scan" /\ seen' = [o \in Objects |-> AllowedNow(o)]
      /\ UNCHANGED <<vars, view, next, target, rslot, rpos, exact>>
  BY DEF Open
<1>2. /\ \A o \in Objects : AllowedNow(o)' = AllowedNow(o)
      /\ dir' = dir
  BY <1>1, SameWriters
<1>3. next = 0 /\ \A s \in Slots : ~(s < next)
  BY <1>1, RegionAssumption DEF LInv, Looking, Slots
<1>4. Watched'
  BY <1>1, <1>2 DEF Watched
<1>5. Scanned'
  BY <1>1, <1>3 DEF Scanned
<1>6. Stands'
  <2> SUFFICES ASSUME NEW o \in Objects, NoVal \notin AllowedNow(o)
               PROVE  \E s \in Slots : Standing(o, s)'
    BY <1>1 DEF Stands
  <2>1. PICK s \in Slots : ActiveOf(dir[s], o)
    BY DEF PInv, Promised, Settled, AllowedNow
  <2> QED BY <1>1, <1>2, <1>3, <2>1 DEF Standing
<1>7. Looking'
  BY <1>1 DEF LInv, Looking
<1> QED BY <1>1, <1>4, <1>5, <1>6, <1>7 DEF LInv

LEMMA ScanLooking ==
  ASSUME Strong, PInv, LInv, ScanSlot
  PROVE  LInv'
<1>1. /\ rpc = "scan" /\ rpc' \in {"scan", "ready"} /\ next' = next + 1
      /\ rpc' = "ready" => next' = NumSlots
      /\ UNCHANGED <<vars, target, rslot, rpos, exact, seen>>
  BY DEF ScanSlot, session
<1>2. PICK e \in SlotReads(next) : view' = [view EXCEPT ![next] = e]
  BY DEF ScanSlot
<1>3. /\ \A o \in Objects : AllowedNow(o)' = AllowedNow(o)
      /\ dir' = dir
  BY <1>1, SameWriters
<1>4. /\ next \in Nat /\ next' \in Nat /\ Slots \subseteq Nat
      /\ \A s \in Slots : s < next' <=> s < next \/ s = next
  BY <1>1, RegionAssumption DEF LInv, Looking, Slots
<1>5. \A s \in Slots : view'[s] = IF s = next THEN e ELSE view[s]
  BY <1>2 DEF LInv
<1>6. e = dir[next] \/ (e = Torn /\ SlotBeingWritten(next))
  BY DEF SlotReads
<1>7. TypeOK /\ ActiveAllowed /\ ~WellFormed(Torn) /\ \A o : ~ActiveOf(Torn, o)
  BY BlankFacts, BlankIsOfNone DEF Strong, Typed, PInv, Promised, ActiveOf
<1>8. view' \in [Slots -> Entry]
  <2>1. next \in Slots => e \in Entry
    <3>1. Torn \in Entry
      BY BlankTypes
    <3> QED BY <1>6, <1>7, <3>1 DEF TypeOK
  <2> QED BY <1>2, <2>1 DEF LInv
<1>9. Watched'
  BY <1>1, <1>3 DEF LInv, Watched
<1>10. Scanned'
  <2> SUFFICES ASSUME NEW s \in Slots, NEW o \in Objects, s < next', ActiveOf(view'[s], o)
               PROVE  view'[s].val \in seen[o]
    BY <1>1 DEF Scanned
  <2>1. CASE s = next
    <3>1. view'[s] = dir[s] /\ ActiveOf(dir[s], o)
      BY <1>5, <1>6, <1>7, <2>1
    <3>2. dir[s].val \in allowed[o]
      BY <1>7, <3>1 DEF ActiveAllowed, Copies
    <3>3. AllowedNow(o) \subseteq seen[o]
      BY <1>1 DEF LInv, Watched
    <3> QED BY <3>1, <3>2, <3>3 DEF AllowedNow
  <2>2. CASE s # next
    BY <1>4, <1>5, <2>2 DEF LInv, Scanned
  <2> QED BY <2>1, <2>2
<1>11. Stands'
  <2> SUFFICES ASSUME NEW o \in Objects, NoVal \notin seen[o]
               PROVE  \E s \in Slots : Standing(o, s)'
    BY <1>1 DEF Stands
  <2>1. PICK s \in Slots : Standing(o, s)
    BY <1>1 DEF LInv, Stands
  <2>2. NoVal \notin AllowedNow(o) /\ ActiveOf(dir[s], o)
    BY <1>1, <2>1 DEF LInv, Watched, Standing
  <2>3. s < next' => view'[s] = dir[s]
    BY <1>4, <1>5, <1>6, <2>1, <2>2, ReadsTheEntry DEF Standing
  <2>4. ASSUME NEW t \in Slots, t < next', t # s, WellFormed(view'[t])
        PROVE  ~Conflict(view'[t], dir[s])
    <3>1. CASE t = next
      <4>1. view'[t] = dir[t] /\ WellFormed(dir[t])
        BY <1>5, <1>6, <1>7, <2>4, <3>1
      <4> QED BY <2>2, <2>4, <4>1, ClearOfOthers
    <3>2. CASE t # next
      BY <1>4, <1>5, <2>1, <2>4, <3>2 DEF Standing
    <3> QED BY <3>1, <3>2
  <2> QED BY <1>3, <2>2, <2>3, <2>4 DEF Standing
<1>12. Looking'
  BY <1>1, <1>4 DEF LInv, Looking
<1> QED BY <1>1, <1>8, <1>9, <1>10, <1>11, <1>12 DEF LInv

\* An object that was there the whole time is found, in the slot it stands in,
\* and there alone.
LEMMA FindsTheEntry ==
  ASSUME Strong, PInv, LInv, rpc # "closed", next = NumSlots, NEW o \in Objects, NoVal \notin seen[o]
  PROVE  \E s \in Slots : /\ ActiveOf(dir[s], o) /\ view[s] = dir[s] /\ NoVal \notin AllowedNow(o)
                          /\ Holding(view, o) = {s}
<1>1. PICK s \in Slots : Standing(o, s)
  BY DEF LInv, Stands
<1>2. NoVal \notin AllowedNow(o)
  BY DEF LInv, Watched
<1>3. \A t \in Slots : t < next
  BY RegionAssumption DEF Slots
<1>4. /\ ActiveOf(dir[s], o) /\ view[s] = dir[s]
      /\ \A t \in Slots : t # s /\ WellFormed(view[t]) => ~Conflict(view[t], view[s])
  BY <1>1, <1>3 DEF Standing
<1>5. WellFormed(view[s])
  BY <1>4 DEF Strong, RegionSound, ActiveSound, ActiveOf
<1>6. s \in Usable(view)
  <2>1. \A t \in Slots : t # s /\ WellFormed(view[t]) => ~Conflict(view[s], view[t])
    BY <1>4, ConflictFacts
  <2> QED BY <1>4, <1>5, <2>1, UsableAlone
<1>7. s \in Holding(view, o)
  BY <1>4, <1>6 DEF Holding, ActiveOf, IsOf
<1>8. ASSUME NEW t \in Holding(view, o), t # s PROVE FALSE
  <2>1. t \in Slots /\ Fold[view[t].key] = o /\ WellFormed(view[t])
    BY <1>8, UsableWellFormed DEF Holding
  <2>2. Conflict(view[t], view[s])
    BY <1>4, <2>1 DEF Conflict, ActiveOf, IsOf
  <2> QED BY <1>4, <1>8, <2>1, <2>2
<1> QED BY <1>2, <1>4, <1>7, <1>8

LEMMA FindLooking ==
  ASSUME Strong, PInv, LInv, NEW o \in Objects, Find(o)
  PROVE  LInv'
<1>1. /\ rpc = "ready" /\ target' = o
      /\ UNCHANGED <<vars, view, next, rpos, exact, seen>>
      /\ \/ rpc' = "absent" /\ Holding(view, o) = {}
         \/ rpc' = "validate" /\ rslot' \in Holding(view, o)
  BY DEF Find, session
<1>2. next = NumSlots /\ next \in Nat /\ rpos = 0 /\ exact
  BY <1>1 DEF LInv, Looking
<1>3. Holding(view, o) = {} => NoVal \in seen[o]
  BY <1>1, <1>2, FindsTheEntry
<1>4. Looking'
  BY <1>1, <1>2, <1>3 DEF Looking
<1> QED BY <1>1, <1>4, LookingOn

LEMMA ReadCellLooking ==
  ASSUME Strong, PInv, LInv, ReadCell
  PROVE  LInv'
<1>1. /\ rpc \in {"validate", "read"} /\ rpos < Size[Wanted.val] /\ rpos' = rpos + 64
      /\ UNCHANGED <<vars, rpc, view, next, target, rslot, seen>>
      /\ \E c \in CellReads(Wanted.off + rpos) : exact' = (exact /\ c = CellOf(Wanted.val, rpos))
  BY DEF ReadCell, session
<1>2. /\ next = NumSlots /\ next \in Nat /\ target \in Objects /\ rslot \in Holding(view, target)
      /\ rpos \in Nat /\ rpos % 64 = 0 /\ (exact \/ NoVal \in seen[target])
  BY <1>1 DEF LInv, Looking
<1>3. ASSUME NoVal \notin seen[target] PROVE exact'
  <2>1. PICK s \in Slots : /\ ActiveOf(dir[s], target) /\ view[s] = dir[s]
                           /\ NoVal \notin AllowedNow(target) /\ Holding(view, target) = {s}
    BY <1>1, <1>2, <1>3, FindsTheEntry
  <2>2. Wanted = dir[s]
    BY <1>2, <2>1 DEF Wanted
  <2>3. CellReads(Wanted.off + rpos) = {CellOf(Wanted.val, rpos)}
    BY <1>1, <1>2, <2>1, <2>2, ReadsTheEntry
  <2> QED BY <1>1, <1>2, <1>3, <2>3
<1>4. rpos' \in Nat /\ rpos' % 64 = 0
  BY <1>1, <1>2
<1>5. Looking'
  BY <1>1, <1>2, <1>3, <1>4 DEF Looking
<1> QED BY <1>1, <1>5, LookingOn

LEMMA LookupLooking ==
  ASSUME Strong, PInv, LInv, Validated \/ Delivered \/ LookAgain
  PROVE  LInv'
<1>1. CASE Validated
  BY <1>1, LookingOn DEF Validated, session, LInv, Looking
<1>2. CASE Delivered
  BY <1>2, LookingOn DEF Delivered, session, LInv, Looking
<1>3. CASE LookAgain
  BY <1>3, LookingOn DEF LookAgain, session, LInv, Looking
<1> QED BY <1>1, <1>2, <1>3

LEMMA CloseLooking ==
  ASSUME LInv, Close
  PROVE  LInv'
<1>1. /\ rpc' = "closed" /\ view' = [s \in Slots |-> Free] /\ next' = 0 /\ rpos' = 0 /\ exact'
      /\ seen' = [o \in Objects |-> {}]
  BY DEF Close, Closed
<1>2. Free \in Entry /\ \A s \in Slots : ~(s < 0)
  BY BlankTypes, RegionAssumption DEF Slots
<1>3. Scanned'
  BY <1>1, <1>2 DEF Scanned
<1>4. Watched' /\ Stands' /\ Looking'
  BY <1>1 DEF Watched, Stands, Looking
<1> QED BY <1>1, <1>2, <1>3, <1>4 DEF LInv

-----------------------------------------------------------------------------
(***************************************************************************)
(* The writers' steps.                                                     *)
(***************************************************************************)
LEMMA WriterLooking ==
  ASSUME Strong, PInv, LInv, WriterStep
  PROVE  LInv'
<1>1. /\ UNCHANGED <<rpc, view, next, target, rslot, rpos, exact>>
      /\ seen' = [o \in Objects |-> IF rpc = "closed" THEN {} ELSE seen[o] \cup AllowedNow(o)']
      /\ \/ \E w \in Writers : Step(w) \/ Begin(w) \/ OpenFails(w)
         \/ \E p \in Processes : Kill(p)
  BY DEF WriterStep, reader
<1>2. rpc # "closed" => \A o \in Objects : seen[o] \subseteq seen'[o] /\ AllowedNow(o)' \subseteq seen'[o]
  BY <1>1
<1>3. Watched'
  BY <1>1, <1>2 DEF Watched
<1>4. Scanned'
  <2>1. rpc = "closed" => \A s \in Slots : ~(s < next)
    BY RegionAssumption DEF LInv, Looking, Slots
  <2> QED BY <1>1, <1>2, <2>1 DEF LInv, Scanned
<1>5. Stands'
  <2> SUFFICES ASSUME rpc # "closed", NEW o \in Objects, NoVal \notin seen'[o]
               PROVE  \E s \in Slots : Standing(o, s)'
    BY <1>1 DEF Stands
  <2>1. NoVal \notin seen[o] /\ NoVal \notin AllowedNow(o)
    BY <1>2 DEF LInv, Watched
  <2>2. PICK s \in Slots : Standing(o, s)
    BY <2>1 DEF LInv, Stands
  <2>3. ActiveOf(dir[s], o)
    BY <2>2 DEF Standing
  <2>4. dir'[s] = dir[s]
    <3>1. CASE \E p \in Processes : Kill(p)
      BY <3>1 DEF Kill, region
    <3> QED BY <1>1, <2>1, <2>3, <3>1, EntryKept
  <2> QED BY <1>1, <2>2, <2>4 DEF Standing
<1>6. Looking'
  BY <1>1, <1>2 DEF LInv, Looking
<1> QED BY <1>1, <1>3, <1>4, <1>5, <1>6 DEF LInv

\* A lock belongs to the process of a writer, or to nobody: never to the reader's.
LockNotReaders == lock # ReaderProcess

LEMMA LockOfWriters ==
  ASSUME ReaderApart, LockNotReaders, [Next]_vars
  PROVE  LockNotReaders'
<1> USE DEF LockNotReaders
<1>1. NoProcess # ReaderProcess /\ \A w \in Writers : ProcessOf[w] # ReaderProcess
  BY CommitAssumption, ReaderAssumption DEF ReaderApart
<1>2. ASSUME NEW w \in Writers, Step(w) PROVE LockNotReaders'
  BY <1>1, <1>2
  DEF Step, Lock, PlanReplace, PlanCreate, PlanDelete, PlanRefuse, PutWriting, SyncWriting,
      CopyChunk, CopyDone, CopyFails, SyncData, PutActive, SyncActive, PutDeleting, SyncDeleting,
      ClearSlot, SyncClear, Return, PutSlot, Flush, Unlock
<1>3. ASSUME NEW w \in Writers, Begin(w) PROVE LockNotReaders'
  BY <1>3 DEF Begin, BeginWrite, BeginDelete
<1>4. CASE Environment
  BY <1>1, <1>4 DEF Environment, OpenFails, Unlock, Kill, WriteBackSlot, WriteBackCell, PowerLoss
<1>5. CASE UNCHANGED vars
  BY <1>5 DEF vars
<1> QED BY <1>2, <1>3, <1>4, <1>5 DEF Next

\* Apart from the writers, the reader takes no part in the commit protocol.
LEMMA ReaderLeavesCommits ==
  ASSUME ReaderApart, LockNotReaders, [ReaderNext]_rvars
  PROVE  [Next]_vars
<1>1. Close => UNCHANGED vars
  BY DEF Close, LockNotReaders, vars, region, disk, locals
<1>2. ReaderStep => UNCHANGED vars
  BY <1>1 DEF ReaderStep, Open, ScanSlot, Find, ReadCell, Validated, Delivered, LookAgain
<1>3. WriterStep => Next
  BY DEF WriterStep, Next, Environment
<1>4. UNCHANGED rvars => UNCHANGED vars
  BY DEF rvars
<1> QED BY <1>2, <1>3, <1>4 DEF ReaderNext

LEMMA LookingInductive ==
  ASSUME OneWriterPerProcess, Strong, PInv, LInv, [ReaderNext]_rvars
  PROVE  LInv'
<1>1. CASE ReaderStep
  BY <1>1, OpenLooking, ScanLooking, FindLooking, ReadCellLooking, LookupLooking, CloseLooking
  DEF ReaderStep
<1>2. CASE UNCHANGED rvars
  <2>1. UNCHANGED <<vars, rpc, view, next, target, rslot, rpos, exact, seen>>
    BY <1>2 DEF rvars, reader, session
  <2>2. /\ \A o \in Objects : AllowedNow(o)' = AllowedNow(o)
        /\ dir' = dir
    BY <2>1, SameWriters
  <2>3. Watched' /\ Scanned' /\ Looking'
    BY <2>1, <2>2 DEF LInv, Watched, Scanned, Looking
  <2>4. Stands'
    BY <2>1, <2>2 DEF LInv, Stands, Standing
  <2> QED BY <2>1, <2>3, <2>4 DEF LInv
<1> QED BY <1>1, <1>2, WriterLooking DEF ReaderNext

LEMMA ReaderSoundness ==
  OneWriterPerProcess /\ ReaderApart => (ReaderSpec => [](Strong /\ PInv /\ LInv))
<1> SUFFICES ASSUME OneWriterPerProcess, ReaderApart
             PROVE  ReaderSpec => [](Strong /\ PInv /\ LInv)
  OBVIOUS
<1>1. Init /\ ReaderInit => Strong /\ PInv /\ LInv
  BY InitStrong, InitPromised, InitLooking
<1>2. Init => LockNotReaders
  BY CommitAssumption, ReaderAssumption DEF Init, LockNotReaders
<1>3. Strong /\ PInv /\ LInv /\ LockNotReaders /\ [ReaderNext]_rvars
        => Strong' /\ PInv' /\ LInv' /\ LockNotReaders'
  BY ReaderLeavesCommits, LockOfWriters, LookingInductive, StrongInductive, PromisedInductive
<1> QED BY <1>1, <1>2, <1>3, PTL DEF ReaderSpec

\* What a lookup in mutable.c returns, the content of the object or none, is
\* what the calls of some moment since the reader opened allowed: the reader
\* takes no lock, and may combine slots of different moments.
THEOREM LookupsAreRegular ==
  OneWriterPerProcess /\ ReaderApart => (ReaderSpec => []RegularLookup)
<1> SUFFICES ASSUME OneWriterPerProcess, ReaderApart PROVE ReaderSpec => []RegularLookup
  OBVIOUS
<1>1. LInv => RegularLookup
  <2> SUFFICES ASSUME LInv, rpc \in {"absent", "read", "delivered"} PROVE Result \in seen[target]
    BY DEF RegularLookup
  <2>1. CASE rpc = "absent"
    BY <2>1 DEF LInv, Looking, Result
  <2>2. CASE rpc # "absent"
    <3>1. rslot \in Holding(view, target) /\ target \in Objects /\ next = NumSlots
      BY <2>2 DEF LInv, Looking
    <3>2. rslot \in Slots /\ rslot < next /\ ActiveOf(view[rslot], target)
      BY <3>1, UsableWellFormed, RegionAssumption DEF Holding, ActiveOf, IsOf, WellFormed, Fits, Slots
    <3> QED BY <2>2, <3>1, <3>2 DEF LInv, Scanned, Result, Wanted
  <2> QED BY <2>1, <2>2
<1> QED BY <1>1, ReaderSoundness, PTL

\* A cursor of mutable.c, which checks nothing after the object was found,
\* delivers other bytes only if a call changed the object since the reader opened.
THEOREM CursorsAreExact ==
  OneWriterPerProcess /\ ReaderApart => (ReaderSpec => []CursorExactUnlessChanged)
<1> SUFFICES ASSUME OneWriterPerProcess, ReaderApart PROVE ReaderSpec => []CursorExactUnlessChanged
  OBVIOUS
<1>1. LInv => CursorExactUnlessChanged
  <2> SUFFICES ASSUME LInv, rpc = "delivered", ~exact PROVE seen[target] # {Wanted.val}
    BY DEF CursorExactUnlessChanged
  <2>1. rslot \in Holding(view, target) /\ NoVal \in seen[target]
    BY DEF LInv, Looking
  <2>2. Wanted.val \in Values
    BY <2>1, UsableWellFormed DEF Holding, Wanted, WellFormed, Fits
  <2> QED BY <2>1, <2>2, RegionAssumption
<1> QED BY <1>1, ReaderSoundness, PTL
=============================================================================
