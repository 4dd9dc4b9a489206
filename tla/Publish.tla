------------------------------- MODULE Publish -------------------------------
(***************************************************************************)
(* How an output file reaches its name: romx_writer_write_io_entries       *)
(* (src/src/writer.c) and the extraction functions (src/src/extract.c)     *)
(* write a temporary file beside the destination and rename or link it     *)
(* there.  Several calls, in any processes, publish to one destination     *)
(* without any lock; the directory and the files are in a page cache that  *)
(* is written back in any order, and a power loss leaves the disk.         *)
(***************************************************************************)
CONSTANTS
  Callers,   \* threads that publish, one call at a time
  Contents,  \* contents of complete output files
  Temps,     \* names mkstemp can make
  Dest,      \* the destination's name
  Inodes,    \* files
  Requests,  \* what the calls ask for
  None

Request == [by : {"writer", "extract"}, val : Contents, replace : BOOLEAN, durable : BOOLEAN]
NoRequest == [by |-> "nobody"]

\* What a call puts at the destination.
Product(r) == [val |-> r.val, durable |-> r.durable]
NoFile == [val |-> "none", durable |-> FALSE]
Damaged == [val |-> "partial", durable |-> FALSE]

ASSUME PublishAssumption ==
  /\ Dest \notin Temps
  /\ None \notin Inodes \cup Temps \cup Contents
  /\ NoFile.val \notin Contents
  /\ Requests \subseteq Request

Names == Temps \cup {Dest}

VARIABLES
  dir, cont,    \* name to file, and file to content, in the page cache
  ddir, dcont,  \* the same on the disk
  pc, req,      \* per caller: its next step, its arguments
  temp, file,   \* per caller: its temporary's name and file
  made,         \* history: the content and durability a file was made with
  placed,       \* history: callers whose file was placed at the destination
  stray         \* history: temporary names whose owner could not remove them

cache  == <<dir, cont>>
disk   == <<ddir, dcont>>
ghosts == <<made, placed, stray>>
vars   == <<dir, cont, ddir, dcont, pc, req, temp, file, made, placed, stray>>

\* A file is partial until its last byte is written.
Partial == None

Steps == {"create", "fill", "sync", "publish", "unlink", "withdraw", "discard", "ok", "failed"}

Init ==
  /\ dir = [n \in Names |-> None]
  /\ cont = [i \in Inodes |-> Partial]
  /\ ddir = dir
  /\ dcont = cont
  /\ pc = [c \in Callers |-> "idle"]
  /\ req = [c \in Callers |-> NoRequest]
  /\ temp = [c \in Callers |-> None]
  /\ file = [c \in Callers |-> None]
  /\ made = [i \in Inodes |-> NoFile]
  /\ placed = {}
  /\ stray = {}

Goto(c, step) == pc' = [pc EXCEPT ![c] = step]

-----------------------------------------------------------------------------
Begin(c, r) ==
  /\ pc[c] = "idle"
  /\ Goto(c, "create")
  /\ req' = [req EXCEPT ![c] = r]
  /\ UNCHANGED <<cache, disk, temp, file, ghosts>>

\* Files no name and no open descriptor holds.
Unused == {i \in Inodes : (\A n \in Names : i # dir[n] /\ i # ddir[n]) /\ (\A c \in Callers : file[c] # i)}

\* Mutant: a name in use is opened like a new one.
CreateNotExclusive(c) ==
  /\ pc[c] = "create"
  /\ \E t \in Temps, i \in Unused :
       /\ dir' = [dir EXCEPT ![t] = i]
       /\ cont' = [cont EXCEPT ![i] = Partial]
       /\ dcont' = [dcont EXCEPT ![i] = Partial]
       /\ temp' = [temp EXCEPT ![c] = t]
       /\ file' = [file EXCEPT ![c] = i]
       /\ made' = [made EXCEPT ![i] = Product(req[c])]
       /\ stray' = stray \ {t}
  /\ Goto(c, "fill")
  /\ UNCHANGED <<ddir, req, placed>>

(***************************************************************************)
(* mkstemp: a name that does not exist, created exclusively.  That one of  *)
(* its 62^6 names is drawn again while the call that drew it before has    *)
(* not returned is left out.                                               *)
(***************************************************************************)
Create(c) ==
  /\ pc[c] = "create"
  /\ \E t \in Temps, i \in Unused :
       /\ dir[t] = None
       /\ \A d \in Callers : temp[d] # t
       /\ dir' = [dir EXCEPT ![t] = i]
       /\ cont' = [cont EXCEPT ![i] = Partial]
       /\ dcont' = [dcont EXCEPT ![i] = Partial]
       /\ temp' = [temp EXCEPT ![c] = t]
       /\ file' = [file EXCEPT ![c] = i]
       /\ made' = [made EXCEPT ![i] = Product(req[c])]
       /\ stray' = stray \ {t}
  /\ Goto(c, "fill")
  /\ UNCHANGED <<ddir, req, placed>>

\* Whatever fails before the temporary exists.
CreateFails(c) ==
  /\ pc[c] = "create"
  /\ Goto(c, "failed")
  /\ UNCHANGED <<cache, disk, req, temp, file, ghosts>>

\* Every byte up to the footer, or up to the end of the region extracted.
Fill(c) ==
  /\ pc[c] = "fill"
  /\ cont' = [cont EXCEPT ![file[c]] = req[c].val]
  /\ Goto(c, IF req[c].durable THEN "sync" ELSE "publish")
  /\ UNCHANGED <<dir, disk, req, temp, file, ghosts>>

\* Mutant: a write error is noticed after the file has been published.
FillFailsLate(c) ==
  /\ pc[c] = "fill"
  /\ Goto(c, "publish")
  /\ UNCHANGED <<cache, disk, req, temp, file, ghosts>>

\* A source that cannot be read or has changed, a write error, an error of close.
FillFails(c) ==
  /\ pc[c] = "fill"
  /\ Goto(c, "discard")
  /\ UNCHANGED <<cache, disk, req, temp, file, ghosts>>

\* Mutant: nothing is flushed.
SyncNothing(c) ==
  /\ pc[c] = "sync"
  /\ Goto(c, "publish")
  /\ UNCHANGED <<cache, disk, req, temp, file, ghosts>>

\* fsync of the file, not of its directory, and close; either may fail.
Sync(c) ==
  /\ pc[c] = "sync"
  /\ \/ /\ dcont' = [dcont EXCEPT ![file[c]] = cont[file[c]]]
        /\ Goto(c, "publish")
     \/ /\ UNCHANGED dcont
        /\ Goto(c, "discard")
  /\ UNCHANGED <<cache, ddir, req, temp, file, ghosts>>

-----------------------------------------------------------------------------
(***************************************************************************)
(* publish_temporary and publish_temp.                                     *)
(***************************************************************************)
\* Mutant: the name is taken whether or not the destination exists.
RenameAlways(c) ==
  /\ pc[c] = "publish"
  /\ dir[temp[c]] # None
  /\ dir' = [dir EXCEPT ![Dest] = dir[temp[c]], ![temp[c]] = None]
  /\ placed' = placed \cup {c}
  /\ Goto(c, "ok")
  /\ UNCHANGED <<cont, disk, req, temp, file, made, stray>>

Rename(c) ==
  /\ pc[c] = "publish"
  /\ req[c].replace
  /\ dir[temp[c]] # None
  /\ dir' = [dir EXCEPT ![Dest] = dir[temp[c]], ![temp[c]] = None]
  /\ placed' = placed \cup {c}
  /\ Goto(c, "ok")
  /\ UNCHANGED <<cont, disk, req, temp, file, made, stray>>

\* link fails when the destination exists.
Link(c) ==
  /\ pc[c] = "publish"
  /\ ~req[c].replace
  /\ dir[Dest] = None
  /\ dir[temp[c]] # None
  /\ dir' = [dir EXCEPT ![Dest] = dir[temp[c]]]
  /\ placed' = placed \cup {c}
  /\ Goto(c, "unlink")
  /\ UNCHANGED <<cont, disk, req, temp, file, made, stray>>

\* rename or link fails, for EEXIST or any other reason.
PublishFails(c) ==
  /\ pc[c] = "publish"
  /\ Goto(c, "withdraw")
  /\ UNCHANGED <<cache, disk, req, temp, file, ghosts>>

\* unlink of the temporary's name; it may fail, and nobody looks.
Unlink(c, step) ==
  /\ \/ dir' = [dir EXCEPT ![temp[c]] = None] /\ stray' = stray
     \/ dir' = dir /\ stray' = stray \cup {temp[c]}
  /\ Goto(c, step)
  /\ UNCHANGED <<cont, disk, req, temp, file, made, placed>>

\* Mutant: the call fails when its temporary cannot be removed.
UnlinkLinkedOrFail(c) ==
  /\ pc[c] = "unlink"
  /\ \/ dir' = [dir EXCEPT ![temp[c]] = None] /\ stray' = stray /\ Goto(c, "ok")
     \/ dir' = dir /\ stray' = stray \cup {temp[c]} /\ Goto(c, "failed")
  /\ UNCHANGED <<cont, disk, req, temp, file, made, placed>>

UnlinkLinked(c) == pc[c] = "unlink" /\ Unlink(c, "ok")

\* The writer's failure path removes the temporary once more.
Withdraw(c) ==
  pc[c] = "withdraw" /\ Unlink(c, IF req[c].by = "writer" THEN "discard" ELSE "failed")

\* Mutant: the failure path forgets the temporary.
KeepTemporary(c) ==
  /\ pc[c] = "discard"
  /\ Goto(c, "failed")
  /\ UNCHANGED <<cache, disk, req, temp, file, ghosts>>

Discard(c) == pc[c] = "discard" /\ Unlink(c, "failed")

Forget(C) ==
  /\ req'  = [c \in Callers |-> IF c \in C THEN NoRequest ELSE req[c]]
  /\ temp' = [c \in Callers |-> IF c \in C THEN None ELSE temp[c]]
  /\ file' = [c \in Callers |-> IF c \in C THEN None ELSE file[c]]
  /\ pc'   = [c \in Callers |-> IF c \in C THEN "idle" ELSE pc[c]]
  /\ placed' = placed \ C

Return(c) ==
  /\ pc[c] \in {"ok", "failed"}
  /\ Forget({c})
  /\ UNCHANGED <<cache, disk, made, stray>>

-----------------------------------------------------------------------------
(***************************************************************************)
(* The environment.                                                        *)
(***************************************************************************)
Kill(c) ==
  /\ pc[c] # "idle"
  /\ stray' = stray \cup {t \in Temps : temp[c] = t /\ dir[t] # None}
  /\ Forget({c})
  /\ UNCHANGED <<cache, disk, made>>

WriteBackName(n) ==
  /\ ddir[n] # dir[n]
  /\ ddir' = [ddir EXCEPT ![n] = dir[n]]
  /\ UNCHANGED <<cache, dcont, pc, req, temp, file, ghosts>>

WriteBackFile(i) ==
  /\ i \notin Unused
  /\ dcont[i] # cont[i]
  /\ dcont' = [dcont EXCEPT ![i] = cont[i]]
  /\ UNCHANGED <<cache, ddir, pc, req, temp, file, ghosts>>

PowerLoss ==
  /\ dir' = ddir
  /\ cont' = dcont
  /\ stray' = {t \in Temps : ddir[t] # None}
  /\ Forget(Callers)
  /\ UNCHANGED <<disk, made>>

-----------------------------------------------------------------------------
Step(c) ==
  \/ Create(c) \/ CreateFails(c) \/ Fill(c) \/ FillFails(c) \/ Sync(c)
  \/ Rename(c) \/ Link(c) \/ PublishFails(c)
  \/ UnlinkLinked(c) \/ Withdraw(c) \/ Discard(c) \/ Return(c)

Environment ==
  \/ \E c \in Callers : Kill(c)
  \/ \E n \in Names : WriteBackName(n)
  \/ \E i \in Inodes : WriteBackFile(i)
  \/ PowerLoss

Next == Environment \/ \E c \in Callers : Step(c) \/ \E r \in Requests : Begin(c, r)

Spec == Init /\ [][Next]_vars

-----------------------------------------------------------------------------
\* Every variable has its type.
TypeOK ==
  /\ dir \in [Names -> Inodes \cup {None}]
  /\ cont \in [Inodes -> Contents \cup {Partial}]
  /\ ddir \in [Names -> Inodes \cup {None}]
  /\ dcont \in [Inodes -> Contents \cup {Partial}]
  /\ pc \in [Callers -> Steps \cup {"idle"}]
  /\ req \in [Callers -> Request \cup {NoRequest}]
  /\ temp \in [Callers -> Temps \cup {None}]
  /\ file \in [Callers -> Inodes \cup {None}]
  /\ made \in [Inodes -> {Product(r) : r \in Request} \cup {NoFile}]
  /\ placed \in SUBSET Callers
  /\ stray \in SUBSET Temps

Whole(c, i) == c[i] # Partial /\ c[i] = made[i].val

\* WRITER.md: DURABLE "flushes the completed temporary file before publish".
\* What a DURABLE call placed at the destination is complete in the page cache
\* and on the disk, however little of the rest was written back.
DurableIsWhole ==
  \A i \in {dir[Dest], ddir[Dest]} \ {None} :
    made[i].durable => Whole(cont, i) /\ Whole(dcont, i)

\* No temporary outlives its call, but for the ones whose owner was killed or
\* could not remove them: names are never abandoned to pile up silently.
TempsAreOwned ==
  \A t \in Temps :
    dir[t] # None => t \in stray \/ \E c \in Callers : temp[c] = t /\ pc[c] \notin {"ok", "failed"}

\* An answer tells the truth about the destination.
AnswersAreTrue == \A c \in Callers : pc[c] \in {"ok", "failed"} => (pc[c] = "ok" <=> c \in placed)

-----------------------------------------------------------------------------
(***************************************************************************)
(* The inductive invariant behind the three properties above.              *)
(***************************************************************************)
Making == {"fill", "sync", "publish"}

\* Each call has a name and a file of its own.
Own ==
  \A c \in Callers :
    /\ pc[c] \in {"idle", "create"} => temp[c] = None /\ file[c] = None
    /\ pc[c] \in {"unlink", "withdraw", "discard"} \cup Making => temp[c] # None /\ file[c] # None
    /\ \A d \in Callers \ {c} :
         /\ temp[c] # None => temp[c] # temp[d]
         /\ file[c] # None => file[c] # file[d]

\* A file in the making is at its temporary name and not at the destination,
\* and is whole when its call comes to publish it.
MadeApart ==
  \A c \in Callers :
    /\ pc[c] # "idle" => req[c] \in Request
    /\ pc[c] \in Making =>
         /\ dir[temp[c]] = file[c]
         /\ file[c] \notin {dir[Dest], ddir[Dest]}
         /\ made[file[c]] = Product(req[c])
    /\ pc[c] = "sync" => Whole(cont, file[c]) /\ req[c].durable
    /\ pc[c] = "publish" => Whole(cont, file[c]) /\ (req[c].durable => Whole(dcont, file[c]))

PlacedExactly == \A c \in Callers : c \in placed <=> pc[c] \in {"unlink", "ok"}

\* What keeps the destination whole at every step of every call: it is inductive.
IInv == TypeOK /\ Own /\ MadeApart /\ PlacedExactly /\ DurableIsWhole /\ TempsAreOwned

-----------------------------------------------------------------------------
FileAt(i) == IF i = None THEN NoFile ELSE IF Whole(cont, i) THEN made[i] ELSE Damaged

Atomic == INSTANCE AtomicFile WITH
  dest <- FileAt(dir[Dest]),
  stable <- FileAt(ddir[Dest]),
  call <- [c \in Callers |-> IF pc[c] \in Steps THEN req[c] ELSE NoRequest],
  answer <- [c \in Callers |-> IF pc[c] \in {"ok", "failed"} THEN pc[c] ELSE "none"]

\* WRITER.md: "The completed temporary file is published atomically."
ImplementsAtomicFile == Atomic!AtomicSpec
=============================================================================
