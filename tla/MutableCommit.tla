---------------------------- MODULE MutableCommit ----------------------------
(***************************************************************************)
(* Commits to the mutable region (src/src/mutable_write.c): writers in     *)
(* several processes run romx_mutable_write_io_path and                    *)
(* romx_mutable_delete_path against one container, under the file lock,    *)
(* over a page cache that the operating system writes back when it likes.  *)
(* Any call may fail, a process may be killed at any step, and a power     *)
(* loss leaves what the disk holds.                                        *)
(***************************************************************************)
EXTENDS MutableRegion

CONSTANTS
  Writers,    \* threads that call the writing functions, one call at a time
  Processes,  \* operating system processes
  ProcessOf,  \* the process a thread belongs to
  NoProcess,  \* owner of a lock nobody holds
  Capacities  \* values of options.data_capacity, 0 when not given

ASSUME CommitAssumption ==
  /\ ProcessOf \in [Writers -> Processes]
  /\ NoProcess \notin Processes
  /\ Capacities \subseteq Nat

VARIABLES
  dir, data,      \* the region in the page cache: what every process reads
  ddir, ddata,    \* the region on the disk: what a power loss leaves
  lock,           \* the process that owns the write lock on the file
  pc, req,        \* per writer: its next step, the call's arguments
  slot, ent,      \* per writer: slot_index and the entry being committed
  pos, same,      \* per writer: bytes copied, and whether they are the content
                  \*   the first pass over the source computed the CRC32 of
  allowed         \* history: the results a reader of an object may be given

region == <<dir, data>>
disk   == <<ddir, ddata>>
locals == <<req, slot, ent, pos, same>>
vars   == <<dir, data, ddir, ddata, lock, pc, req, slot, ent, pos, same, allowed>>

Outcomes == Values \cup {NoVal}

Request == [kind : {"write", "delete"}, key : Keys, val : Outcomes, cap : Capacities \cup {0}]
NoRequest == [kind |-> "none", key |-> NoKey, val |-> NoVal, cap |-> 0]

Steps == {"lock", "plan",
          "putWriting", "syncWriting", "copy", "syncData", "putActive", "syncActive",
          "putDeleting", "syncDeleting", "clear", "syncClear",
          "ok", "failed"}

\* The steps between taking the lock and returning.
Inside(w) == pc[w] \notin {"idle", "lock"}

Target(w) == Fold[req[w].key]

-----------------------------------------------------------------------------
Init ==
  /\ dir  = [s \in Slots |-> Free]
  /\ data = [a \in Cells |-> Junk]
  /\ ddir = dir
  /\ ddata = data
  /\ lock = NoProcess
  /\ pc   = [w \in Writers |-> "idle"]
  /\ req  = [w \in Writers |-> NoRequest]
  /\ slot = [w \in Writers |-> 0]
  /\ ent  = [w \in Writers |-> Free]
  /\ pos  = [w \in Writers |-> 0]
  /\ same = [w \in Writers |-> TRUE]
  /\ allowed = [o \in Objects |-> {NoVal}]

\* Locals of the writers in W as they are between two calls.
Forget(W) ==
  /\ req'  = [w \in Writers |-> IF w \in W THEN NoRequest ELSE req[w]]
  /\ slot' = [w \in Writers |-> IF w \in W THEN 0 ELSE slot[w]]
  /\ ent'  = [w \in Writers |-> IF w \in W THEN Free ELSE ent[w]]
  /\ pos'  = [w \in Writers |-> IF w \in W THEN 0 ELSE pos[w]]
  /\ same' = [w \in Writers |-> IF w \in W THEN TRUE ELSE same[w]]

Goto(w, step) == pc' = [pc EXCEPT ![w] = step]

-----------------------------------------------------------------------------
\* A write: its arguments, and the first pass over the source (source_crc).
BeginWrite(w, k, v, c) ==
  /\ pc[w] = "idle"
  /\ Goto(w, "lock")
  /\ req' = [req EXCEPT ![w] = [kind |-> "write", key |-> k, val |-> v, cap |-> c]]
  /\ UNCHANGED <<region, disk, lock, slot, ent, pos, same, allowed>>

BeginDelete(w, k) ==
  /\ pc[w] = "idle"
  /\ Goto(w, "lock")
  /\ req' = [req EXCEPT ![w] = [kind |-> "delete", key |-> k, val |-> NoVal, cap |-> 0]]
  /\ UNCHANGED <<region, disk, lock, slot, ent, pos, same, allowed>>

\* Mutant: the lock is taken without waiting for its owner.
LockAnyway(w) ==
  /\ pc[w] = "lock"
  /\ lock' = ProcessOf[w]
  /\ Goto(w, "plan")
  /\ UNCHANGED <<region, disk, locals, allowed>>

\* fcntl(F_SETLKW): waits for other processes, never for the caller's own.
Lock(w) ==
  /\ pc[w] = "lock"
  /\ lock \in {NoProcess, ProcessOf[w]}
  /\ lock' = ProcessOf[w]
  /\ Goto(w, "plan")
  /\ UNCHANGED <<region, disk, locals, allowed>>

\* Mutant: the descriptor stays open.
KeepLock(w) == UNCHANGED lock

\* Closing any descriptor of the file drops every lock the process has on it.
Unlock(w) == lock' = IF lock = ProcessOf[w] THEN NoProcess ELSE lock

\* The file cannot be opened, locked or read, or there is no memory to parse it
\* or to search it for an extent: the call returns an error.
OpenFails(w) ==
  /\ pc[w] \in {"lock", "plan"}
  /\ Goto(w, "idle")
  /\ Unlock(w)
  /\ Forget({w})
  /\ UNCHANGED <<region, disk, allowed>>

-----------------------------------------------------------------------------
(***************************************************************************)
(* The plan, made from the region parsed under the lock.                   *)
(***************************************************************************)
\* Mutant: the name is compared letter by letter.
FoundExact(w) == {s \in Holding(dir, Target(w)) : dir[s].key = req[w].key}

Found(w) == Holding(dir, Target(w))
Current(w) == CHOOSE s \in Found(w) : TRUE

NewEntry(w, state, off, cap, gen) ==
  [state |-> state, key |-> req[w].key, off |-> off, cap |-> cap,
   val |-> req[w].val, gen |-> gen]

\* A generation is a word of 64 bits.
NextGen(g) == IF g = GenMax THEN 0 ELSE g + 1

\* Mutant: an object is rewritten past the largest generation.
MayReplaceAtLimit(w) ==
  /\ Found(w) # {}
  /\ Size[req[w].val] <= dir[Current(w)].cap
  /\ req[w].cap \in {0, dir[Current(w)].cap}

MayReplace(w) ==
  /\ Found(w) # {}
  /\ dir[Current(w)].gen # GenMax
  /\ Size[req[w].val] <= dir[Current(w)].cap
  /\ req[w].cap \in {0, dir[Current(w)].cap}

FreeSlots == {s \in Slots : dir[s] = Free}
FirstFree == CHOOSE s \in FreeSlots : \A t \in FreeSlots : s <= t

\* The capacity of a new object, as the code rounds it.
NewCapacity(w) ==
  IF req[w].cap # 0 THEN Align64(req[w].cap)
  ELSE IF Size[req[w].val] = 0 THEN 64 ELSE Align64(Size[req[w].val])

\* Mutant: a degraded region is written to like a valid one.
MayCreateDegraded(w) ==
  /\ Found(w) = {}
  /\ FreeSlots # {}
  /\ Size[req[w].val] <= NewCapacity(w)
  /\ FreeOffsets(dir, NewCapacity(w)) # {}

MayCreate(w) ==
  /\ Found(w) = {}
  /\ ~Degraded(dir)
  /\ FreeSlots # {}
  /\ Size[req[w].val] <= NewCapacity(w)
  /\ FreeOffsets(dir, NewCapacity(w)) # {}

Choose(w, s, e, step) ==
  /\ slot' = [slot EXCEPT ![w] = s]
  /\ ent' = [ent EXCEPT ![w] = e]
  /\ Goto(w, step)

\* The object exists: same slot, extent and capacity, next generation.
PlanReplace(w) ==
  /\ pc[w] = "plan"
  /\ req[w].kind = "write"
  /\ MayReplace(w)
  /\ LET old == dir[Current(w)]
     IN  Choose(w, Current(w), NewEntry(w, "writing", old.off, old.cap, NextGen(old.gen)),
                "putWriting")
  /\ UNCHANGED <<region, disk, lock, req, pos, same, allowed>>

\* It does not: the first zeroed slot and the first extent that fits.
PlanCreate(w) ==
  /\ pc[w] = "plan"
  /\ req[w].kind = "write"
  /\ MayCreate(w)
  /\ Choose(w, FirstFree,
            NewEntry(w, "writing", FirstFit(dir, NewCapacity(w)), NewCapacity(w), 1), "putWriting")
  /\ UNCHANGED <<region, disk, lock, req, pos, same, allowed>>

\* A deletion commits the entry again as DELETING; its generation is counted up
\* without a check.
PlanDelete(w) ==
  /\ pc[w] = "plan"
  /\ req[w].kind = "delete"
  /\ Found(w) # {}
  /\ LET old == dir[Current(w)]
     IN  Choose(w, Current(w),
                [old EXCEPT !.state = "deleting", !.key = req[w].key,
                            !.gen = NextGen(old.gen)],
                "putDeleting")
  /\ UNCHANGED <<region, disk, lock, req, pos, same, allowed>>

PlanRefuse(w) ==
  /\ pc[w] = "plan"
  /\ IF req[w].kind = "write" THEN ~MayReplace(w) /\ ~MayCreate(w) ELSE Found(w) = {}
  /\ Goto(w, "failed")
  /\ UNCHANGED <<region, disk, lock, locals, allowed>>

-----------------------------------------------------------------------------
(***************************************************************************)
(* The three stages of a write and the two of a deletion.                  *)
(***************************************************************************)
\* disk_write of one directory slot; a failure may leave part of it written.
PutSlot(w, e, next) ==
  /\ data' = data
  /\ \/ /\ dir' = [dir EXCEPT ![slot[w]] = e]
        /\ Goto(w, next)
     \/ /\ dir' \in {dir, [dir EXCEPT ![slot[w]] = Torn]}
        /\ Goto(w, "failed")
  /\ UNCHANGED <<disk, lock, locals>>

\* From here on a reader may be given the old content, the new one or none.
Expose(w) ==
  allowed' = [allowed EXCEPT ![Target(w)] = @ \cup {NoVal, req[w].val}]

PutWriting(w) ==
  /\ pc[w] = "putWriting"
  /\ PutSlot(w, ent[w], "syncWriting")
  /\ Expose(w)

PutActive(w) ==
  /\ pc[w] = "putActive"
  /\ PutSlot(w, [ent[w] EXCEPT !.state = "active"], "syncActive")
  /\ UNCHANGED allowed

PutDeleting(w) ==
  /\ pc[w] = "putDeleting"
  /\ PutSlot(w, ent[w], "syncDeleting")
  /\ Expose(w)

ClearSlot(w) ==
  /\ pc[w] = "clear"
  /\ PutSlot(w, Free, "syncClear")
  /\ UNCHANGED allowed

\* fsync: the whole file reaches the disk, or the call fails.
Flush(w, from, to) ==
  /\ pc[w] = from
  /\ \/ /\ ddir' = dir
        /\ ddata' = data
        /\ Goto(w, to)
     \/ /\ UNCHANGED disk
        /\ Goto(w, "failed")
  /\ UNCHANGED <<region, lock, locals, allowed>>

\* Mutants: a stage goes on, or the call returns, without its flush.
SkipSync(w, from, to) == pc[w] = from /\ Goto(w, to) /\ UNCHANGED <<region, disk, lock, locals, allowed>>
SkipSyncWriting(w) == SkipSync(w, "syncWriting", "copy")
SkipSyncData(w) == SkipSync(w, "syncData", "putActive")
SkipSyncActive(w) == SkipSync(w, "syncActive", "ok")

SyncWriting(w)  == Flush(w, "syncWriting", "copy")
SyncData(w)     == Flush(w, "syncData", "putActive")
SyncActive(w)   == Flush(w, "syncActive", "ok")
SyncDeleting(w) == Flush(w, "syncDeleting", "clear")
SyncClear(w)    == Flush(w, "syncClear", "ok")

\* One chunk of source_write.  The second pass over the source may read other
\* bytes than the first one did.
CopyChunk(w) ==
  /\ pc[w] = "copy"
  /\ pos[w] < Size[ent[w].val]
  /\ \E chunk \in {CellOf(ent[w].val, pos[w]), Junk} :
       /\ data' = [data EXCEPT ![ent[w].off + pos[w]] = chunk]
       /\ same' = [same EXCEPT ![w] = @ /\ chunk # Junk]
  /\ pos' = [pos EXCEPT ![w] = @ + 64]
  /\ UNCHANGED <<dir, disk, lock, pc, req, slot, ent, allowed>>

CopyDone(w) ==
  /\ pc[w] = "copy"
  /\ pos[w] >= Size[ent[w].val]
  /\ Goto(w, IF same[w] THEN "syncData" ELSE "failed")
  /\ UNCHANGED <<region, disk, lock, locals, allowed>>

\* The source cannot be read, ends early, or the extent cannot be written.
CopyFails(w) ==
  /\ pc[w] = "copy"
  /\ pos[w] < Size[ent[w].val]
  /\ data' \in {data, [data EXCEPT ![ent[w].off + pos[w]] = Junk]}
  /\ Goto(w, "failed")
  /\ UNCHANGED <<dir, disk, lock, locals, allowed>>

\* Close the reader and the file, and return.
Return(w) ==
  /\ pc[w] \in {"ok", "failed"}
  /\ allowed' = IF pc[w] = "ok" THEN [allowed EXCEPT ![Target(w)] = {req[w].val}] ELSE allowed
  /\ Goto(w, "idle")
  /\ Unlock(w)
  /\ Forget({w})
  /\ UNCHANGED <<region, disk>>

-----------------------------------------------------------------------------
(***************************************************************************)
(* The environment.                                                        *)
(***************************************************************************)
Stop(W) ==
  /\ pc' = [w \in Writers |-> IF w \in W THEN "idle" ELSE pc[w]]
  /\ Forget(W)

Kill(p) ==
  LET W == {w \in Writers : ProcessOf[w] = p}
  IN  /\ \E w \in W : pc[w] # "idle"
      /\ Stop(W)
      /\ lock' = IF lock = p THEN NoProcess ELSE lock
      /\ UNCHANGED <<region, disk, allowed>>

WriteBackSlot(s) ==
  /\ ddir[s] # dir[s]
  /\ ddir' = [ddir EXCEPT ![s] = dir[s]]
  /\ UNCHANGED <<region, ddata, lock, pc, locals, allowed>>

WriteBackCell(a) ==
  /\ ddata[a] # data[a]
  /\ ddata' = [ddata EXCEPT ![a] = data[a]]
  /\ UNCHANGED <<region, ddir, lock, pc, locals, allowed>>

\* Slots and cells on their way to the disk may be left half written.
PowerLoss ==
  \E S \in SUBSET {s \in Slots : ddir[s] # dir[s]},
     A \in SUBSET {a \in Cells : ddata[a] # data[a]} :
    /\ dir' = [s \in Slots |-> IF s \in S THEN Torn ELSE ddir[s]]
    /\ data' = [a \in Cells |-> IF a \in A THEN Junk ELSE ddata[a]]
    /\ ddir' = dir'
    /\ ddata' = data'
    /\ lock' = NoProcess
    /\ Stop(Writers)
    /\ UNCHANGED allowed

-----------------------------------------------------------------------------
Step(w) ==
  \/ Lock(w)
  \/ PlanReplace(w) \/ PlanCreate(w) \/ PlanDelete(w) \/ PlanRefuse(w)
  \/ PutWriting(w) \/ SyncWriting(w)
  \/ CopyChunk(w) \/ CopyDone(w) \/ CopyFails(w) \/ SyncData(w)
  \/ PutActive(w) \/ SyncActive(w)
  \/ PutDeleting(w) \/ SyncDeleting(w) \/ ClearSlot(w) \/ SyncClear(w)
  \/ Return(w)

Begin(w) ==
  \/ \E k \in Keys, v \in Values, c \in Capacities \cup {0} : BeginWrite(w, k, v, c)
  \/ \E k \in Keys : BeginDelete(w, k)

Environment ==
  \/ \E w \in Writers : OpenFails(w)
  \/ \E p \in Processes : Kill(p)
  \/ \E s \in Slots : WriteBackSlot(s)
  \/ \E a \in Cells : WriteBackCell(a)
  \/ PowerLoss

Next == Environment \/ \E w \in Writers : Begin(w) \/ Step(w)

Spec == Init /\ [][Next]_vars

(***************************************************************************)
(* A writer that is scheduled makes its next step, and the kernel grants a *)
(* contended record lock to its waiters in turn.  Nothing is assumed about *)
(* new calls, failures, kills, write-backs or power losses.                *)
(***************************************************************************)
FairSpec ==
  /\ Spec
  /\ \A w \in Writers : WF_vars(Step(w)) /\ SF_vars(Lock(w))

-----------------------------------------------------------------------------
(***************************************************************************)
(* Properties.                                                             *)
(***************************************************************************)
\* Every variable has its type.
TypeOK ==
  /\ dir \in [Slots -> Entry]
  /\ data \in [Cells -> [val : Outcomes, pos : Nat]]
  /\ ddir \in [Slots -> Entry]
  /\ ddata \in [Cells -> [val : Outcomes, pos : Nat]]
  /\ lock \in Processes \cup {NoProcess}
  /\ pc \in [Writers -> Steps \cup {"idle"}]
  /\ req \in [Writers -> Request \cup {NoRequest}]
  /\ slot \in [Writers -> Nat]
  /\ ent \in [Writers -> Entry]
  /\ pos \in [Writers -> Nat]
  /\ same \in [Writers -> BOOLEAN]
  /\ allowed \in [Objects -> SUBSET Outcomes]

\* The commit protocol's point: wherever an ACTIVE entry stands, in the page
\* cache or on the disk, the extent beside it holds the content whose CRC32 the
\* entry carries, whatever step a kill, an error or a power loss interrupted.
ActiveIntact ==
  \A s \in Slots :
    /\ dir[s].state = "active" => Intact(data, dir[s])
    /\ ddir[s].state = "active" => Intact(ddata, ddir[s])

\* No object borrows another one's capacity: the extent of an ACTIVE entry
\* overlaps no extent that another readable entry claims, even one that an
\* interrupted call left behind.
ActiveApart ==
  \A s, t \in Slots :
    s # t =>
      /\ dir[s].state = "active" /\ WellFormed(dir[t]) => ~Overlap(dir[s], dir[t])
      /\ ddir[s].state = "active" /\ WellFormed(ddir[t]) => ~Overlap(ddir[s], ddir[t])

\* The parser takes for damaged no entry that a call has written whole, but that
\* of a deletion whose generation wrapped around to zero.  Such a slot degrades
\* the region, yet it never stands for an object that a call has promised since.
DamageIsDeletion ==
  \A s \in Slots : \A e \in {dir[s], ddir[s]} :
    e \notin {Free, Torn} /\ ~WellFormed(e) =>
      e.state = "deleting" /\ NoVal \in allowed[Fold[e.key]]

-----------------------------------------------------------------------------
(***************************************************************************)
(* The inductive invariant behind ActiveIntact and ActiveApart.            *)
(***************************************************************************)
Copies(s) == {dir[s], ddir[s]}

IntactTwice(e) == Intact(data, e) /\ Intact(ddata, e)

SameExtent(e, f) == e.off = f.off /\ e.cap = f.cap

\* What is ACTIVE on the disk is still claimed in the page cache, so that its
\* extent is not given away; both copies of its content are good.
ActiveSound ==
  \A s \in Slots :
    /\ dir[s].state = "active" => WellFormed(dir[s]) /\ IntactTwice(dir[s])
    /\ ddir[s].state = "active" =>
         /\ WellFormed(ddir[s])
         /\ IntactTwice(ddir[s])
         /\ dir[s] # Free
         /\ WellFormed(dir[s]) => SameExtent(dir[s], ddir[s])

\* No copy of an ACTIVE entry overlaps any copy of another entry.
CopiesApart ==
  \A s, t \in Slots :
    s # t => \A e \in Copies(s), f \in Copies(t) :
               e.state = "active" /\ WellFormed(f) => ~Overlap(e, f)

LockHeld == \A w \in Writers : Inside(w) => lock = ProcessOf[w]

Asked(w) ==
  pc[w] # "idle" => /\ req[w] \in Request
                    /\ req[w].kind = "write" => req[w].val \in Values

WriteSteps == {"putWriting", "syncWriting", "copy", "syncData", "putActive", "syncActive"}
DeleteSteps == {"putDeleting", "syncDeleting", "clear", "syncClear"}

\* The entry a writer commits keeps to an extent of its own ...
Planned(w) ==
  pc[w] \in WriteSteps \cup DeleteSteps =>
    /\ slot[w] \in Slots
    /\ Fits(ent[w])
    /\ \A e \in Copies(slot[w]) : e.state = "active" => SameExtent(e, ent[w])
    /\ \A t \in Slots \ {slot[w]} :
         /\ WellFormed(dir[t]) => ~Overlap(ent[w], dir[t])
         /\ ddir[t].state = "active" => ~Overlap(ent[w], ddir[t])

\* ... and what each step has written so far is in place before the next.
Progress(w) ==
  /\ pc[w] \in WriteSteps => ent[w].state = "writing" /\ ent[w].gen > 0
  /\ pc[w] \in DeleteSteps => ent[w].state = "deleting"
  /\ pc[w] \in {"syncWriting", "copy", "syncData", "putActive", "syncDeleting", "clear"} =>
       dir[slot[w]] = ent[w]
  /\ pc[w] \in {"copy", "syncData", "putActive", "clear"} => ddir = dir
  /\ pc[w] \in {"idle", "lock", "plan", "putWriting", "syncWriting"} => pos[w] = 0
  /\ pc[w] = "copy" =>
       /\ pos[w] % 64 = 0
       /\ same[w] => \A p \in 0 .. Size[ent[w].val] - 1 :
                       p % 64 = 0 /\ p < pos[w] => data[ent[w].off + p] = CellOf(ent[w].val, p)
  /\ pc[w] = "syncData" => Intact(data, ent[w])
  /\ pc[w] = "putActive" => IntactTwice(ent[w])

\* What keeps every ACTIVE entry sound at each step of a call: it is inductive.
IInv ==
  /\ TypeOK
  /\ ActiveSound
  /\ CopiesApart
  /\ LockHeld
  /\ \A w \in Writers : Asked(w) /\ Planned(w) /\ Progress(w)

\* No two writers share a process, whose lock would not keep them apart.
OneWriterPerProcess ==
  \A v, w \in Writers : ProcessOf[v] = ProcessOf[w] => v = w

-----------------------------------------------------------------------------
\* An interrupted call on the object left its entry in the directory.
LeftOver(o) ==
  \E s \in Slots : dir[s].state \in {"writing", "deleting"} /\ Fold[dir[s].key] = o

Served(o) == {Visible(dir, data, o), Visible(ddir, ddata, o)}

\* A reader, now or after a power loss, is given what the calls so far allow:
\* after a call that returned ROMX_OK its content and nothing else; while a call
\* is under way, or after one that failed, the old content, the new one or none.
\* An object with a leftover entry may be missing.
KeepsPromises ==
  \A o \in Objects : Served(o) \subseteq allowed[o] \cup {x \in {NoVal} : LeftOver(o)}

\* docs/WRITER.md: "The third step is the commit point."  A call that returned
\* ROMX_OK is visible, whatever happened to the calls before it.
CommitPoint == \A o \in Objects : Served(o) \subseteq allowed[o]

\* Every call returns: waiting for the lock ends, and so does each loop.
EveryCallReturns == \A w \in Writers : pc[w] # "idle" ~> pc[w] = "idle"

\* What readers get now, what they would get after a power loss, and the calls.
Readable == [o \in Objects |-> Visible(dir, data, o)]
Recoverable == [o \in Objects |-> Visible(ddir, ddata, o)]
UnderWay == [w \in Writers |-> IF pc[w] = "idle" THEN <<>> ELSE <<Target(w), req[w].val>>]

\* The region implements the store its users are promised.
Store == INSTANCE MutableStore WITH
  visible <- Readable, stable <- Recoverable, call <- UnderWay

ImplementsStore == Store!StoreSpec
=============================================================================
