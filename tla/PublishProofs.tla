---------------------------- MODULE PublishProofs ----------------------------
(***************************************************************************)
(* Proofs about Publish, for any number of callers, names, files and       *)
(* contents: what each step of the temporary-file protocol leaves true.    *)
(***************************************************************************)
EXTENDS Publish, TLAPS

LEMMA InitInv ==
  ASSUME Init
  PROVE  IInv
<1> USE DEF Init
<1>1. TypeOK
  BY PublishAssumption DEF TypeOK, Names, Partial, Steps
<1>2. Own
  BY DEF Own, Making
<1>3. MadeApart
  BY DEF MadeApart, Making
<1>4. PlacedExactly
  BY DEF PlacedExactly
<1>5. DurableIsWhole
  BY DEF DurableIsWhole, Names
<1>6. TempsAreOwned
  BY DEF TempsAreOwned, Names
<1> QED BY <1>1, <1>2, <1>3, <1>4, <1>5, <1>6 DEF IInv
-----------------------------------------------------------------------------
(***************************************************************************)
(* Calls begin, fail and return: nothing but a caller's own state changes. *)
(***************************************************************************)
LEMMA BeginInv ==
  ASSUME IInv, NEW c \in Callers, NEW r \in Requests, Begin(c, r)
  PROVE  IInv'
<1> USE DEF Begin, IInv, cache, disk, ghosts, Goto
<1>0. r \in Request
  BY PublishAssumption
<1>1. TypeOK'
  BY <1>0 DEF TypeOK, Steps
<1>2. Own'
  BY DEF Own, Making, TypeOK
<1>3. MadeApart'
  BY <1>0 DEF MadeApart, Making, TypeOK, Whole
<1>4. PlacedExactly'
  BY DEF PlacedExactly, TypeOK
<1>5. DurableIsWhole'
  BY DEF DurableIsWhole, Whole
<1>6. TempsAreOwned'
  BY DEF TempsAreOwned, TypeOK
<1> QED BY <1>1, <1>2, <1>3, <1>4, <1>5, <1>6

LEMMA FailInv ==
  ASSUME IInv, NEW c \in Callers, CreateFails(c) \/ FillFails(c) \/ PublishFails(c)
  PROVE  IInv'
<1> USE DEF CreateFails, FillFails, PublishFails, IInv, cache, disk, ghosts, Goto
<1>1. TypeOK'
  BY DEF TypeOK, Steps
<1>2. Own'
  BY DEF Own, Making, TypeOK
<1>3. MadeApart'
  BY DEF MadeApart, Making, TypeOK, Whole
<1>4. PlacedExactly'
  BY DEF PlacedExactly, TypeOK
<1>5. DurableIsWhole'
  BY DEF DurableIsWhole, Whole
<1>6. TempsAreOwned'
  BY PublishAssumption DEF TempsAreOwned, TypeOK, Own
<1> QED BY <1>1, <1>2, <1>3, <1>4, <1>5, <1>6

LEMMA ReturnInv ==
  ASSUME IInv, NEW c \in Callers, Return(c)
  PROVE  IInv'
<1> USE DEF Return, Forget, IInv, cache, disk
<1>1. TypeOK'
  BY DEF TypeOK
<1>2. Own'
  BY DEF Own, Making, TypeOK
<1>3. MadeApart'
  BY DEF MadeApart, Making, TypeOK, Whole
<1>4. PlacedExactly'
  BY DEF PlacedExactly, TypeOK
<1>5. DurableIsWhole'
  BY DEF DurableIsWhole, Whole
<1>6. TempsAreOwned'
  BY DEF TempsAreOwned, TypeOK
<1> QED BY <1>1, <1>2, <1>3, <1>4, <1>5, <1>6

-----------------------------------------------------------------------------
(***************************************************************************)
(* The temporary is created, filled and flushed.                           *)
(***************************************************************************)
LEMMA CreateInv ==
  ASSUME IInv, NEW c \in Callers, Create(c)
  PROVE  IInv'
<1> PICK t \in Temps, i \in Unused :
       /\ dir[t] = None
       /\ \A d \in Callers : temp[d] # t
       /\ dir' = [dir EXCEPT ![t] = i]
       /\ cont' = [cont EXCEPT ![i] = Partial]
       /\ dcont' = [dcont EXCEPT ![i] = Partial]
       /\ temp' = [temp EXCEPT ![c] = t]
       /\ file' = [file EXCEPT ![c] = i]
       /\ made' = [made EXCEPT ![i] = Product(req[c])]
       /\ stray' = stray \ {t}
  BY DEF Create
<1>0. /\ pc[c] = "create"
      /\ pc' = [pc EXCEPT ![c] = "fill"]
      /\ UNCHANGED <<ddir, req, placed>>
  BY DEF Create, Goto
<1>n. /\ i \in Inodes /\ i # None /\ t # None /\ t # Dest /\ t \in Names /\ Dest \in Names
      /\ i # dir[Dest] /\ i # ddir[Dest]
      /\ \A d \in Callers : file[d] # i
      /\ req[c] \in Request
  BY <1>0, PublishAssumption DEF Unused, Names, IInv, MadeApart, TypeOK
<1> USE DEF IInv
<1>1. TypeOK'
  BY <1>0, <1>n DEF TypeOK, Steps, Partial
<1>2. Own'
  BY <1>0, <1>n DEF Own, Making, TypeOK
<1>3. MadeApart'
  BY <1>0, <1>n DEF MadeApart, Making, TypeOK, Whole, Own
<1>4. PlacedExactly'
  BY <1>0 DEF PlacedExactly, TypeOK
<1>5. DurableIsWhole'
  BY <1>0, <1>n DEF DurableIsWhole, Whole, TypeOK
<1>6. TempsAreOwned'
  <2> SUFFICES ASSUME NEW u \in Temps, dir'[u] # None
               PROVE  u \in stray' \/ \E d \in Callers : temp'[d] = u /\ pc'[d] \notin {"ok", "failed"}
    BY DEF TempsAreOwned
  <2>1. CASE u = t
    BY <2>1, <1>0 DEF TypeOK
  <2>2. CASE u # t
    <3>1. dir[u] # None
      BY <2>2 DEF TypeOK, Names
    <3>2. CASE u \in stray
      BY <2>2, <3>2
    <3>3. ASSUME NEW d \in Callers, temp[d] = u, pc[d] \notin {"ok", "failed"}
          PROVE  temp'[d] = u /\ pc'[d] \notin {"ok", "failed"}
      <4>1. temp[c] = None
        BY <1>0 DEF Own
      <4>2. d # c
        BY <4>1, <3>3, PublishAssumption
      <4> QED BY <4>2, <3>3, <1>0 DEF TypeOK
    <3> QED BY <3>1, <3>2, <3>3 DEF TempsAreOwned
  <2> QED BY <2>1, <2>2
<1> QED BY <1>1, <1>2, <1>3, <1>4, <1>5, <1>6

LEMMA FillInv ==
  ASSUME IInv, NEW c \in Callers, Fill(c)
  PROVE  IInv'
<1> USE DEF Fill, IInv, disk, ghosts, Goto
<1>0. file[c] \in Inodes /\ req[c] \in Request /\ file[c] \notin {dir[Dest], ddir[Dest]}
  BY DEF Own, Making, TypeOK, MadeApart
<1>1. TypeOK'
  BY <1>0 DEF TypeOK, Steps, Request
<1>2. Own'
  BY DEF Own, Making, TypeOK
<1>3. MadeApart'
  BY <1>0, PublishAssumption DEF MadeApart, Making, TypeOK, Whole, Own, Product, Partial, Request
<1>4. PlacedExactly'
  BY DEF PlacedExactly, TypeOK
<1>5. DurableIsWhole'
  BY <1>0 DEF DurableIsWhole, Whole, TypeOK
<1>6. TempsAreOwned'
  BY DEF TempsAreOwned, TypeOK
<1> QED BY <1>1, <1>2, <1>3, <1>4, <1>5, <1>6

LEMMA SyncInv ==
  ASSUME IInv, NEW c \in Callers, Sync(c)
  PROVE  IInv'
<1> USE DEF Sync, IInv, cache, ghosts, Goto
<1>0. file[c] \in Inodes /\ file[c] \notin {dir[Dest], ddir[Dest]}
  BY DEF Own, Making, TypeOK, MadeApart
<1>1. TypeOK'
  BY <1>0 DEF TypeOK, Steps
<1>2. Own'
  BY DEF Own, Making, TypeOK
<1>3. MadeApart'
  BY <1>0 DEF MadeApart, Making, TypeOK, Whole, Own
<1>4. PlacedExactly'
  BY DEF PlacedExactly, TypeOK
<1>5. DurableIsWhole'
  <2> SUFFICES ASSUME NEW i \in {dir[Dest], ddir[Dest]} \ {None}, made[i].durable
               PROVE  Whole(cont, i) /\ Whole(dcont', i)
    BY DEF DurableIsWhole, Whole
  <2>1. Whole(cont, i) /\ Whole(dcont, i)
    BY DEF DurableIsWhole
  <2>2. i \in Inodes /\ i # file[c]
    BY <1>0, PublishAssumption DEF TypeOK, Names
  <2>3. dcont' = [dcont EXCEPT ![file[c]] = cont[file[c]]] \/ dcont' = dcont
    OBVIOUS
  <2>4. dcont'[i] = dcont[i]
    BY <2>2, <2>3, dcont \in [Inodes -> Contents \cup {Partial}] DEF TypeOK
  <2> QED BY <2>1, <2>4 DEF Whole
<1>6. TempsAreOwned'
  BY DEF TempsAreOwned, TypeOK
<1> QED BY <1>1, <1>2, <1>3, <1>4, <1>5, <1>6

-----------------------------------------------------------------------------
(***************************************************************************)
(* It is published, or removed.                                            *)
(***************************************************************************)
LEMMA PlaceInv ==
  ASSUME IInv, NEW c \in Callers, Rename(c) \/ Link(c)
  PROVE  IInv'
<1> USE DEF IInv
<1>0. /\ pc[c] = "publish"
      /\ dir[temp[c]] = file[c]
      /\ temp[c] \in Temps /\ temp[c] # Dest /\ temp[c] \in Names /\ Dest \in Names
      /\ file[c] \in Inodes
      /\ made[file[c]] = Product(req[c])
      /\ Whole(cont, file[c])
      /\ req[c].durable => Whole(dcont, file[c])
  BY PublishAssumption DEF Rename, Link, Own, MadeApart, Making, TypeOK, Names
<1>1. /\ \/ dir' = [dir EXCEPT ![Dest] = file[c], ![temp[c]] = None] /\ pc' = [pc EXCEPT ![c] = "ok"]
         \/ dir' = [dir EXCEPT ![Dest] = file[c]] /\ pc' = [pc EXCEPT ![c] = "unlink"]
      /\ placed' = placed \cup {c}
      /\ UNCHANGED <<cont, ddir, dcont, req, temp, file, made, stray>>
  BY <1>0 DEF Rename, Link, Goto, disk
<1>2. TypeOK'
  BY <1>0, <1>1 DEF TypeOK, Steps
<1>3. Own'
  BY <1>0, <1>1 DEF Own, Making, TypeOK
<1>4. MadeApart'
  <2> SUFFICES ASSUME NEW d \in Callers
               PROVE  /\ pc'[d] # "idle" => req[d] \in Request
                      /\ pc'[d] \in Making =>
                           /\ dir'[temp[d]] = file[d]
                           /\ file[d] \notin {dir'[Dest], ddir[Dest]}
                           /\ made[file[d]] = Product(req[d])
                      /\ pc'[d] = "sync" => Whole(cont, file[d]) /\ req[d].durable
                      /\ pc'[d] = "publish" =>
                           Whole(cont, file[d]) /\ (req[d].durable => Whole(dcont, file[d]))
    BY <1>1 DEF MadeApart, Whole
  <2>1. CASE d = c
    BY <2>1, <1>0, <1>1 DEF MadeApart, Making, TypeOK
  <2>2. CASE d # c
    <3>1. pc'[d] = pc[d]
      BY <2>2, <1>1 DEF TypeOK
    <3>2. pc[d] \in Making => temp[d] \in Temps /\ temp[d] # temp[c] /\ temp[d] # Dest /\ file[d] # file[c]
      BY <2>2, <1>0, PublishAssumption DEF Own, TypeOK
    <3>3. pc[d] \in Making => dir'[temp[d]] = dir[temp[d]] /\ dir'[Dest] \in {dir[Dest], file[c]}
      BY <3>2, <1>0, <1>1 DEF TypeOK, Names
    <3> QED BY <3>1, <3>2, <3>3 DEF MadeApart, Making
  <2> QED BY <2>1, <2>2
<1>5. PlacedExactly'
  BY <1>0, <1>1 DEF PlacedExactly, TypeOK
<1>6. DurableIsWhole'
  BY <1>0, <1>1 DEF DurableIsWhole, Whole, TypeOK, Product
<1>7. TempsAreOwned'
  <2> SUFFICES ASSUME NEW u \in Temps, dir'[u] # None
               PROVE  u \in stray' \/ \E d \in Callers : temp[d] = u /\ pc'[d] \notin {"ok", "failed"}
    BY <1>1 DEF TempsAreOwned
  <2>1. CASE u = temp[c]
    BY <2>1, <1>0, <1>1 DEF TypeOK, Names
  <2>2. CASE u # temp[c]
    <3>1. dir[u] # None
      BY <2>2, <1>0, <1>1, PublishAssumption DEF TypeOK, Names
    <3>2. \A d \in Callers : temp[d] = u => pc'[d] = pc[d]
      BY <2>2, <1>1 DEF TypeOK
    <3> QED BY <3>1, <3>2, <1>1 DEF TempsAreOwned
  <2> QED BY <2>1, <2>2
<1> QED BY <1>2, <1>3, <1>4, <1>5, <1>6, <1>7

LEMMA UnlinkInv ==
  ASSUME IInv, NEW c \in Callers, UnlinkLinked(c) \/ Withdraw(c) \/ Discard(c)
  PROVE  IInv'
<1> USE DEF IInv
<1>0. /\ pc[c] \in {"unlink", "withdraw", "discard"}
      /\ temp[c] \in Temps /\ temp[c] # Dest /\ temp[c] \in Names /\ Dest \in Names
  BY PublishAssumption DEF UnlinkLinked, Withdraw, Discard, Own, Making, TypeOK, Names
<1>1. PICK step : Unlink(c, step) /\ IF pc[c] = "unlink" THEN step = "ok" ELSE step \in {"discard", "failed"}
  BY <1>0 DEF UnlinkLinked, Withdraw, Discard
<1>2. /\ \/ dir' = [dir EXCEPT ![temp[c]] = None] /\ stray' = stray
         \/ dir' = dir /\ stray' = stray \cup {temp[c]}
      /\ pc' = [pc EXCEPT ![c] = step]
      /\ UNCHANGED <<cont, ddir, dcont, req, temp, file, made, placed>>
  BY <1>1 DEF Unlink, Goto, disk
<1>3. pc[c] = "withdraw" \/ step \in {"ok", "failed"}
  BY <1>0, <1>2 DEF UnlinkLinked, Withdraw, Discard, Unlink, Goto, TypeOK
<1>4. TypeOK'
  BY <1>0, <1>1, <1>2 DEF TypeOK, Steps
<1>5. Own'
  BY <1>0, <1>1, <1>2 DEF Own, Making, TypeOK
<1>6. MadeApart'
  <2> SUFFICES ASSUME NEW d \in Callers
               PROVE  /\ pc'[d] # "idle" => req[d] \in Request
                      /\ pc'[d] \in Making =>
                           /\ dir'[temp[d]] = file[d]
                           /\ file[d] \notin {dir'[Dest], ddir[Dest]}
                           /\ made[file[d]] = Product(req[d])
                      /\ pc'[d] = "sync" => Whole(cont, file[d]) /\ req[d].durable
                      /\ pc'[d] = "publish" =>
                           Whole(cont, file[d]) /\ (req[d].durable => Whole(dcont, file[d]))
    BY <1>2 DEF MadeApart, Whole
  <2>1. CASE d = c
    BY <2>1, <1>0, <1>1, <1>2 DEF MadeApart, Making, TypeOK
  <2>2. CASE d # c
    <3>1. pc'[d] = pc[d]
      BY <2>2, <1>2 DEF TypeOK
    <3>2. pc[d] \in Making => temp[d] \in Temps /\ temp[d] # temp[c] /\ temp[d] # Dest /\ file[d] # file[c]
      BY <2>2, <1>0, PublishAssumption DEF Own, TypeOK
    <3>3. pc[d] \in Making => dir'[temp[d]] = dir[temp[d]] /\ dir'[Dest] \in {dir[Dest], file[c]}
      BY <3>2, <1>0, <1>2 DEF TypeOK, Names
    <3> QED BY <3>1, <3>2, <3>3 DEF MadeApart, Making
  <2> QED BY <2>1, <2>2
<1>7. PlacedExactly'
  BY <1>0, <1>1, <1>2 DEF PlacedExactly, TypeOK
<1>8. DurableIsWhole'
  BY <1>0, <1>2 DEF DurableIsWhole, Whole, TypeOK
<1>9. TempsAreOwned'
  <2> SUFFICES ASSUME NEW u \in Temps, dir'[u] # None
               PROVE  u \in stray' \/ \E d \in Callers : temp[d] = u /\ pc'[d] \notin {"ok", "failed"}
    BY <1>2 DEF TempsAreOwned
  <2>1. CASE u = temp[c]
    BY <2>1, <1>0, <1>1, <1>2 DEF TypeOK, Names
  <2>2. CASE u # temp[c]
    <3>1. dir[u] # None
      BY <2>2, <1>0, <1>2, PublishAssumption DEF TypeOK, Names
    <3>2. \A d \in Callers : temp[d] = u => pc'[d] = pc[d]
      BY <2>2, <1>2 DEF TypeOK
    <3> QED BY <3>1, <3>2, <1>2 DEF TempsAreOwned
  <2> QED BY <2>1, <2>2
<1> QED BY <1>4, <1>5, <1>6, <1>7, <1>8, <1>9

-----------------------------------------------------------------------------
(***************************************************************************)
(* The environment.                                                        *)
(***************************************************************************)
LEMMA KillInv ==
  ASSUME IInv, NEW c \in Callers, Kill(c)
  PROVE  IInv'
<1> USE DEF Kill, Forget, IInv, cache, disk
<1>1. TypeOK'
  BY DEF TypeOK
<1>2. Own'
  BY DEF Own, Making, TypeOK
<1>3. MadeApart'
  BY DEF MadeApart, Making, TypeOK, Whole
<1>4. PlacedExactly'
  BY DEF PlacedExactly, TypeOK
<1>5. DurableIsWhole'
  BY DEF DurableIsWhole, Whole
<1>6. TempsAreOwned'
  BY DEF TempsAreOwned, TypeOK
<1> QED BY <1>1, <1>2, <1>3, <1>4, <1>5, <1>6

LEMMA WriteBackInv ==
  ASSUME IInv, (\E n \in Names : WriteBackName(n)) \/ (\E i \in Inodes : WriteBackFile(i))
  PROVE  IInv'
<1> USE DEF WriteBackName, WriteBackFile, IInv, cache, ghosts
<1>1. TypeOK'
  BY DEF TypeOK
<1>2. Own'
  BY DEF Own, Making, TypeOK
<1>3. MadeApart'
  <2>1. UNCHANGED <<dir, cont, pc, req, temp, file, made>>
    OBVIOUS
  <2>2. ddir'[Dest] \in {dir[Dest], ddir[Dest]}
    BY DEF TypeOK, Names
  <2>3. \A i \in Inodes : dcont'[i] \in {dcont[i], cont[i]}
    BY DEF TypeOK
  <2>4. \A d \in Callers : pc[d] = "publish" => file[d] \in Inodes
    BY DEF Own, Making, TypeOK
  <2> HIDE DEF WriteBackName, WriteBackFile
  <2> QED BY <2>1, <2>2, <2>3, <2>4 DEF MadeApart, Making, Whole
<1>4. PlacedExactly'
  BY DEF PlacedExactly, TypeOK
<1>5. DurableIsWhole'
  BY DEF DurableIsWhole, Whole, TypeOK, Names
<1>6. TempsAreOwned'
  BY DEF TempsAreOwned, TypeOK
<1> QED BY <1>1, <1>2, <1>3, <1>4, <1>5, <1>6

LEMMA PowerLossInv ==
  ASSUME IInv, PowerLoss
  PROVE  IInv'
<1> USE DEF PowerLoss, Forget, IInv, disk
<1>1. TypeOK'
  BY DEF TypeOK
<1>2. Own'
  BY DEF Own, Making, TypeOK
<1>3. MadeApart'
  BY DEF MadeApart, Making, TypeOK, Whole
<1>4. PlacedExactly'
  BY DEF PlacedExactly, TypeOK
<1>5. DurableIsWhole'
  BY DEF DurableIsWhole, Whole
<1>6. TempsAreOwned'
  BY DEF TempsAreOwned, TypeOK
<1> QED BY <1>1, <1>2, <1>3, <1>4, <1>5, <1>6

-----------------------------------------------------------------------------
LEMMA NextInv ==
  ASSUME IInv, [Next]_vars
  PROVE  IInv'
<1>1. CASE UNCHANGED vars
  BY <1>1 DEF vars, IInv, TypeOK, Own, MadeApart, PlacedExactly, DurableIsWhole, TempsAreOwned, Whole
<1>2. CASE Environment
  BY <1>2, KillInv, WriteBackInv, PowerLossInv DEF Environment
<1>3. ASSUME NEW c \in Callers, Step(c) \/ \E r \in Requests : Begin(c, r)
      PROVE  IInv'
  BY <1>3, BeginInv, FailInv, ReturnInv, CreateInv, FillInv, SyncInv, PlaceInv, UnlinkInv DEF Step
<1> QED BY <1>1, <1>2, <1>3 DEF Next

\* The protocol's invariant holds of every behaviour, whatever is killed, fails
\* or is lost, and in whatever order the disk is written.
THEOREM Inductive == Spec => []IInv
  BY InitInv, NextInv, PTL DEF Spec

\* A file published by a DURABLE call is complete, in the page cache and on the
\* disk: no power loss leaves a destination that such a call made damaged.
THEOREM DurableFilesAreWhole == Spec => []DurableIsWhole
<1>1. IInv => DurableIsWhole
  BY DEF IInv
<1> QED BY <1>1, Inductive, PTL

\* No temporary is abandoned by a call that was not killed and could remove it.
THEOREM NoTemporaryIsAbandoned == Spec => []TempsAreOwned
<1>1. IInv => TempsAreOwned
  BY DEF IInv
<1> QED BY <1>1, Inductive, PTL

\* A call answers ROMX_OK exactly when its file was placed at the destination.
THEOREM AnswersTellTheTruth == Spec => []AnswersAreTrue
<1>1. IInv => AnswersAreTrue
  BY DEF IInv, PlacedExactly, AnswersAreTrue
<1> QED BY <1>1, Inductive, PTL

-----------------------------------------------------------------------------
(***************************************************************************)
(* Publish implements AtomicFile.  Beyond IInv the refinement needs to     *)
(* know that a name is only ever given to a file that some call made, and  *)
(* that a file's bytes reach the disk once: what is there is what the page *)
(* cache holds, or is still partial.                                       *)
(***************************************************************************)
Products == {Product(r) : r \in Request}

FilesSound ==
  /\ \A i \in {dir[Dest], ddir[Dest]} \ {None} : made[i] \in Products
  /\ \A i \in Inodes : dcont[i] # Partial => cont[i] = dcont[i]
  /\ \A c \in Callers : pc[c] = "fill" => cont[file[c]] = Partial

LEMMA InitFiles ==
  ASSUME Init
  PROVE  FilesSound
  BY DEF Init, FilesSound, Names

LEMMA NextFiles ==
  ASSUME IInv, FilesSound, [Next]_vars
  PROVE  FilesSound'
<1> USE DEF IInv, FilesSound, cache, disk, ghosts
<1>1. ASSUME NEW c \in Callers, Create(c)
      PROVE  FilesSound'
  <2> PICK t \in Temps, i \in Unused :
         /\ dir' = [dir EXCEPT ![t] = i]
         /\ cont' = [cont EXCEPT ![i] = Partial]
         /\ dcont' = [dcont EXCEPT ![i] = Partial]
         /\ file' = [file EXCEPT ![c] = i]
         /\ made' = [made EXCEPT ![i] = Product(req[c])]
    BY <1>1 DEF Create
  <2>1. /\ pc' = [pc EXCEPT ![c] = "fill"]
        /\ ddir' = ddir
    BY <1>1 DEF Create, Goto
  <2>2. /\ i \in Inodes /\ t # Dest /\ Dest \in Names /\ t \in Names
        /\ i # dir[Dest] /\ i # ddir[Dest]
        /\ \A d \in Callers : file[d] # i
    BY PublishAssumption DEF Unused, Names
  <2>3. dir'[Dest] = dir[Dest]
    BY <2>2 DEF TypeOK
  <2>4. \A j \in {dir[Dest], ddir[Dest]} \ {None} : made'[j] = made[j]
    BY <2>2 DEF TypeOK, Names
  <2>5. \A j \in Inodes : dcont'[j] # Partial => cont'[j] = dcont'[j]
    BY DEF TypeOK
  <2>6. \A d \in Callers : pc'[d] = "fill" => cont'[file'[d]] = Partial
    BY <2>1, <2>2 DEF TypeOK, Own, Making
  <2> QED BY <2>1, <2>3, <2>4, <2>5, <2>6
<1>2. ASSUME NEW c \in Callers, Fill(c)
      PROVE  FilesSound'
  <2>1. file[c] \in Inodes /\ cont[file[c]] = Partial /\ dcont[file[c]] = Partial
    BY <1>2 DEF Fill, Own, Making, TypeOK
  <2>2. \A d \in Callers \ {c} : pc[d] = "fill" => file[d] # file[c]
    BY <1>2 DEF Fill, Own, Making
  <2>3. \A d \in Callers : pc'[d] = "fill" => d # c /\ pc[d] = "fill"
    BY <1>2 DEF Fill, Goto, TypeOK
  <2>4. \A d \in Callers : pc'[d] = "fill" => cont'[file'[d]] = Partial
    BY <1>2, <2>1, <2>2, <2>3 DEF Fill, TypeOK, Own, Making
  <2>5. \A j \in Inodes : dcont'[j] # Partial => cont'[j] = dcont'[j]
    BY <1>2, <2>1 DEF Fill, TypeOK
  <2> QED BY <1>2, <2>4, <2>5 DEF Fill
<1>3. ASSUME NEW c \in Callers, Rename(c) \/ Link(c)
      PROVE  FilesSound'
  <2>1. /\ dir[temp[c]] = file[c] /\ temp[c] # Dest /\ Dest \in Names
        /\ made[file[c]] \in Products
    BY <1>3, PublishAssumption DEF Rename, Link, MadeApart, Making, Own, TypeOK, Products, Names
  <2>2. dir'[Dest] = file[c]
    BY <1>3, <2>1 DEF Rename, Link, TypeOK
  <2>3. \A d \in Callers : pc'[d] = "fill" => pc[d] = "fill"
    BY <1>3 DEF Rename, Link, Goto, TypeOK
  <2> QED BY <1>3, <2>1, <2>2, <2>3 DEF Rename, Link
<1>4. ASSUME NEW c \in Callers,
             \/ CreateFails(c) \/ FillFails(c) \/ Sync(c) \/ PublishFails(c)
             \/ UnlinkLinked(c) \/ Withdraw(c) \/ Discard(c)
      PROVE  FilesSound'
  <2>1. /\ dir'[Dest] = dir[Dest]
        /\ UNCHANGED <<ddir, cont, file, made>>
    BY <1>4, PublishAssumption DEF CreateFails, FillFails, Sync, PublishFails, UnlinkLinked, Withdraw, Discard,
       Unlink, TypeOK, Names, Own
  <2>2. \A d \in Callers : pc'[d] = "fill" => pc[d] = "fill"
    BY <1>4 DEF CreateFails, FillFails, Sync, PublishFails, UnlinkLinked, Withdraw, Discard, Unlink, Goto, TypeOK
  <2>3. \A j \in Inodes : dcont'[j] \in {dcont[j], cont[j]}
    BY <1>4 DEF CreateFails, FillFails, Sync, PublishFails, UnlinkLinked, Withdraw, Discard, Unlink, TypeOK
  <2> QED BY <2>1, <2>2, <2>3
<1>5. ASSUME NEW c \in Callers, Return(c) \/ Kill(c) \/ \E r \in Requests : Begin(c, r)
      PROVE  FilesSound'
  BY <1>5 DEF Return, Kill, Forget, Begin, Goto, TypeOK
<1>6. ASSUME NEW n \in Names, WriteBackName(n)
      PROVE  FilesSound'
  BY <1>6 DEF WriteBackName, TypeOK, Names
<1>7. ASSUME NEW i \in Inodes, WriteBackFile(i)
      PROVE  FilesSound'
  BY <1>7 DEF WriteBackFile, TypeOK
<1>8. CASE PowerLoss
  BY <1>8 DEF PowerLoss, Forget
<1>9. CASE UNCHANGED vars
  BY <1>9 DEF vars
<1> QED BY <1>1, <1>2, <1>3, <1>4, <1>5, <1>6, <1>7, <1>8, <1>9 DEF Next, Environment, Step

-----------------------------------------------------------------------------
(***************************************************************************)
(* The mapping: what the atomic destination sees of each step.             *)
(***************************************************************************)
Seen     == FileAt(dir[Dest])
Kept     == FileAt(ddir[Dest])
Calls    == [c \in Callers |-> IF pc[c] \in Steps THEN req[c] ELSE NoRequest]
Answers  == [c \in Callers |-> IF pc[c] \in {"ok", "failed"} THEN pc[c] ELSE "none"]

\* What a call makes is neither nothing nor damaged.
LEMMA ProductsAreFiles ==
  ASSUME NEW r \in Request
  PROVE  Product(r) # NoFile /\ r # NoRequest
<1>1. r.val \in Contents /\ r.by \in {"writer", "extract"}
  BY DEF Request
<1>2. Product(r).val = r.val /\ NoRequest.by = "nobody"
  BY DEF Product, NoRequest
<1> QED BY <1>1, <1>2, PublishAssumption

\* The files at the destination stay what they are.
LEMMA FilesStay ==
  ASSUME IInv, UNCHANGED ddir, dir'[Dest] = dir[Dest],
         \A i \in {dir[Dest], ddir[Dest]} \ {None} : cont'[i] = cont[i] /\ made'[i] = made[i]
  PROVE  Seen' = Seen /\ Kept' = Kept
  BY DEF Seen, Kept, FileAt, Whole

LEMMA BeginIsStart ==
  ASSUME IInv, NEW c \in Callers, NEW r \in Requests, Begin(c, r)
  PROVE  Atomic!Start(c)
<1>1. Seen' = Seen /\ Kept' = Kept
  BY FilesStay DEF Begin, cache, disk, ghosts
<1>2. Calls[c] = NoRequest /\ Calls' = [Calls EXCEPT ![c] = r]
  BY DEF Begin, Goto, Calls, Steps, IInv, TypeOK
<1>3. placed' = placed /\ Answers' = Answers
  BY DEF Begin, Goto, Answers, ghosts, IInv, TypeOK
<1> QED BY <1>1, <1>2, <1>3 DEF Atomic!Start, Seen, Kept, Calls, Answers

\* Steps of a call that only it can see.
LEMMA InwardStutters ==
  ASSUME IInv, NEW c \in Callers,
         Create(c) \/ Fill(c) \/ FillFails(c) \/ Sync(c) \/ PublishFails(c)
  PROVE  UNCHANGED Atomic!avars
<1>1. Seen' = Seen /\ Kept' = Kept
  <2>1. CASE Create(c)
    <3> PICK t \in Temps, i \in Unused :
           /\ dir' = [dir EXCEPT ![t] = i]
           /\ cont' = [cont EXCEPT ![i] = Partial]
           /\ made' = [made EXCEPT ![i] = Product(req[c])]
      BY <2>1 DEF Create
    <3>1. t # Dest /\ i \notin {dir[Dest], ddir[Dest]}
      BY PublishAssumption DEF Unused, Names
    <3>2. dir'[Dest] = dir[Dest]
      BY <3>1 DEF IInv, TypeOK, Names
    <3>3. \A j \in {dir[Dest], ddir[Dest]} \ {None} : cont'[j] = cont[j] /\ made'[j] = made[j]
      BY <3>1 DEF IInv, TypeOK, Names
    <3>4. UNCHANGED ddir
      BY <2>1 DEF Create
    <3> QED BY <3>2, <3>3, <3>4, FilesStay
  <2>2. CASE Fill(c)
    <3>1. file[c] \notin {dir[Dest], ddir[Dest]}
      BY <2>2 DEF Fill, IInv, MadeApart, Making
    <3>2. \A j \in {dir[Dest], ddir[Dest]} \ {None} : cont'[j] = cont[j]
      BY <2>2, <3>1 DEF Fill, IInv, TypeOK, Names
    <3> QED BY <2>2, <3>2, FilesStay DEF Fill, disk, ghosts
  <2>3. CASE FillFails(c) \/ Sync(c) \/ PublishFails(c)
    BY <2>3, FilesStay DEF FillFails, Sync, PublishFails, cache, disk, ghosts
  <2> QED BY <2>1, <2>2, <2>3
<1>2. /\ pc[c] \in Steps \ {"ok", "failed"}
      /\ \E s \in Steps \ {"ok", "failed"} : pc' = [pc EXCEPT ![c] = s]
      /\ UNCHANGED <<req, placed>>
  BY DEF Create, Fill, FillFails, Sync, PublishFails, Goto, Steps, cache, disk, ghosts
<1>3. Calls' = Calls /\ placed' = placed /\ Answers' = Answers
  BY <1>2 DEF Calls, Answers, IInv, TypeOK
<1> QED BY <1>1, <1>3 DEF Atomic!avars, Seen, Kept, Calls, Answers

LEMMA PlaceIsPlace ==
  ASSUME IInv, NEW c \in Callers, Rename(c) \/ Link(c)
  PROVE  Atomic!Place(c)
<1>1. /\ pc[c] = "publish" /\ req[c] \in Request /\ c \notin placed
      /\ dir[temp[c]] = file[c] /\ temp[c] # Dest /\ Dest \in Names
      /\ file[c] \in Inodes /\ file[c] # None
      /\ made[file[c]] = Product(req[c]) /\ Whole(cont, file[c])
  BY PublishAssumption DEF Rename, Link, IInv, MadeApart, Making, Own, TypeOK, PlacedExactly, Names
<1>2. /\ dir'[Dest] = file[c]
      /\ placed' = placed \cup {c}
      /\ UNCHANGED <<cont, ddir, made, req>>
  BY <1>1 DEF Rename, Link, disk, IInv, TypeOK
<1>3. Seen' = Product(req[c]) /\ Kept' = Kept
  BY <1>1, <1>2 DEF Seen, Kept, FileAt, Whole
<1>4. Seen = NoFile \/ req[c].replace
  BY DEF Rename, Link, Seen, FileAt
<1>5. Calls' = Calls /\ Calls[c] = req[c]
  BY <1>1, <1>2 DEF Rename, Link, Goto, Calls, Steps, IInv, TypeOK
<1>6. Answers[c] = "none" /\ Answers' \in {Answers, [Answers EXCEPT ![c] = "ok"]}
  BY <1>1 DEF Rename, Link, Goto, Answers, IInv, TypeOK
<1>7. Calls[c] # NoRequest
  BY <1>1, <1>5, ProductsAreFiles
<1> QED BY <1>1, <1>2, <1>3, <1>4, <1>5, <1>6, <1>7 DEF Atomic!Place, Seen, Kept, Calls, Answers

\* A call that is through with its temporary says how it went.
LEMMA EndingAnswers ==
  ASSUME IInv, NEW c \in Callers,
         CreateFails(c) \/ UnlinkLinked(c) \/ Withdraw(c) \/ Discard(c)
  PROVE  Atomic!Answer(c) \/ UNCHANGED Atomic!avars
<1>1. Seen' = Seen /\ Kept' = Kept
  <2>1. CASE CreateFails(c)
    BY <2>1, FilesStay DEF CreateFails, cache, disk, ghosts
  <2>2. CASE UnlinkLinked(c) \/ Withdraw(c) \/ Discard(c)
    <3>1. temp[c] # Dest
      BY <2>2, PublishAssumption DEF UnlinkLinked, Withdraw, Discard, IInv, Own, TypeOK
    <3>2. /\ dir' = dir \/ dir' = [dir EXCEPT ![temp[c]] = None]
          /\ UNCHANGED <<cont, ddir, made>>
      BY <2>2 DEF UnlinkLinked, Withdraw, Discard, Unlink, disk
    <3>3. dir'[Dest] = dir[Dest]
      BY <3>1, <3>2 DEF IInv, TypeOK, Names
    <3> QED BY <3>2, <3>3, FilesStay
  <2> QED BY <2>1, <2>2
<1>2. PICK s \in {"ok", "failed", "discard"} :
        /\ pc' = [pc EXCEPT ![c] = s]
        /\ UNCHANGED <<req, placed>>
        /\ s = "ok" => c \in placed
        /\ s # "ok" => c \notin placed
  BY DEF CreateFails, UnlinkLinked, Withdraw, Discard, Unlink, Goto, ghosts, IInv, PlacedExactly
<1>3. pc[c] \in Steps \ {"ok", "failed"} /\ req[c] \in Request
  BY DEF CreateFails, UnlinkLinked, Withdraw, Discard, Steps, IInv, MadeApart
<1>4. Calls' = Calls /\ Calls[c] # NoRequest /\ placed' = placed /\ Answers[c] = "none"
  BY <1>2, <1>3, ProductsAreFiles DEF Calls, Answers, IInv, TypeOK, Steps
<1>5. CASE s = "discard"
  <2>1. Answers' = Answers
    BY <1>2, <1>3, <1>5 DEF Answers, IInv, TypeOK
  <2> QED BY <1>1, <1>4, <2>1 DEF Atomic!avars, Seen, Kept, Calls, Answers
<1>6. CASE s # "discard"
  <2>1. Answers' = [Answers EXCEPT ![c] = IF c \in placed THEN "ok" ELSE "failed"]
    BY <1>2, <1>3, <1>6 DEF Answers, IInv, TypeOK
  <2> QED BY <1>1, <1>4, <2>1 DEF Atomic!Answer, Seen, Kept, Calls, Answers
<1> QED BY <1>5, <1>6

LEMMA LeavingIsEnd ==
  ASSUME IInv, NEW c \in Callers, Return(c) \/ Kill(c)
  PROVE  Atomic!End(c)
<1>1. Forget({c}) /\ UNCHANGED <<cache, disk, made>>
  BY DEF Return, Kill
<1>2. Seen' = Seen /\ Kept' = Kept
  BY <1>1, FilesStay DEF cache, disk
<1>3. Calls' = [Calls EXCEPT ![c] = NoRequest]
  BY <1>1 DEF Forget, Calls, Steps
<1>4. placed' = placed \ {c}
  BY <1>1 DEF Forget
<1>5. Answers' = [Answers EXCEPT ![c] = "none"]
  BY <1>1 DEF Forget, Answers
<1> QED BY <1>2, <1>3, <1>4, <1>5 DEF Atomic!End, Seen, Kept, Calls, Answers

LEMMA WriteBackSettles ==
  ASSUME IInv, (\E n \in Names : WriteBackName(n)) \/ (\E i \in Inodes : WriteBackFile(i))
  PROVE  Atomic!Settle \/ UNCHANGED Atomic!avars
<1>1. UNCHANGED <<dir, cont, made, pc, req, placed>> /\ ddir'[Dest] \in {ddir[Dest], dir[Dest]}
  BY DEF WriteBackName, WriteBackFile, cache, ghosts, IInv, TypeOK, Names
<1>2. Seen' = Seen /\ Kept' \in {Kept, Seen}
  BY <1>1 DEF Seen, Kept, FileAt, Whole
<1>3. Calls' = Calls /\ placed' = placed /\ Answers' = Answers
  BY <1>1 DEF Calls, Answers
<1> QED BY <1>2, <1>3 DEF Atomic!Settle, Atomic!avars, Seen, Kept, Calls, Answers

LEMMA PowerLossIsCrash ==
  ASSUME IInv, FilesSound, PowerLoss
  PROVE  Atomic!Crash
<1>1. /\ dir' = ddir /\ cont' = dcont /\ Forget(Callers)
      /\ UNCHANGED <<ddir, made>>
  BY DEF PowerLoss, disk
<1>2. Seen' = Kept'
  BY <1>1 DEF Seen, Kept
<1>3. Kept' = Kept \/ (Kept # NoFile /\ ~Kept.durable /\ Kept' = Damaged)
  <2> DEFINE i == ddir[Dest]
  <2>1. CASE i = None
    BY <2>1, <1>1 DEF Kept, FileAt
  <2>2. CASE i # None
    <3>1. i \in Inodes /\ made[i] \in Products
      BY <2>2 DEF FilesSound, IInv, TypeOK, Names
    <3>2. Kept' = IF Whole(dcont, i) THEN made[i] ELSE Damaged
      BY <2>2, <1>1 DEF Kept, FileAt, Whole
    <3>3. Kept = IF Whole(cont, i) THEN made[i] ELSE Damaged
      BY <2>2 DEF Kept, FileAt
    <3>4. Whole(dcont, i) => Whole(cont, i)
      BY <3>1 DEF FilesSound, Whole
    <3>5. CASE ~Whole(cont, i) \/ Whole(dcont, i)
      BY <3>2, <3>3, <3>4, <3>5
    <3>6. CASE Whole(cont, i) /\ ~Whole(dcont, i)
      <4>1. ~made[i].durable
        BY <3>6, <2>2 DEF IInv, DurableIsWhole
      <4>2. made[i] # NoFile
        BY <3>1, ProductsAreFiles DEF Products
      <4> QED BY <3>2, <3>3, <3>6, <4>1, <4>2
    <3> QED BY <3>5, <3>6
  <2> QED BY <2>1, <2>2
<1>4. Calls' = [c \in Callers |-> NoRequest] /\ Answers' = [c \in Callers |-> "none"]
  BY <1>1 DEF Forget, Calls, Answers, Steps
<1>5. placed' = {}
  BY <1>1 DEF Forget, IInv, TypeOK
<1> QED BY <1>2, <1>3, <1>4, <1>5 DEF Atomic!Crash, Seen, Kept, Calls, Answers

LEMMA InitIsInit ==
  ASSUME Init
  PROVE  Atomic!AtomicInit
<1>1. Seen = NoFile /\ Kept = NoFile
  BY DEF Init, Seen, Kept, FileAt, Names
<1>2. Calls = [c \in Callers |-> NoRequest] /\ Answers = [c \in Callers |-> "none"]
  BY DEF Init, Calls, Answers, Steps
<1> QED BY <1>1, <1>2 DEF Init, Atomic!AtomicInit, Seen, Kept, Calls, Answers

LEMMA NextIsNext ==
  ASSUME IInv, FilesSound, [Next]_vars
  PROVE  [Atomic!AtomicNext]_(Atomic!avars)
<1>1. CASE UNCHANGED vars
  <2>1. Seen' = Seen /\ Kept' = Kept /\ Calls' = Calls /\ placed' = placed /\ Answers' = Answers
    BY <1>1 DEF vars, Seen, Kept, FileAt, Whole, Calls, Answers
  <2> QED BY <2>1 DEF Atomic!avars, Seen, Kept, Calls, Answers
<1>2. CASE Environment
  BY <1>2, LeavingIsEnd, WriteBackSettles, PowerLossIsCrash DEF Environment, Atomic!AtomicNext
<1>3. ASSUME NEW c \in Callers, Step(c) \/ \E r \in Requests : Begin(c, r)
      PROVE  [Atomic!AtomicNext]_(Atomic!avars)
  BY <1>3, BeginIsStart, InwardStutters, PlaceIsPlace, EndingAnswers, LeavingIsEnd DEF Step, Atomic!AtomicNext
<1> QED BY <1>1, <1>2, <1>3 DEF Next

\* WRITER.md: "The completed temporary file is published atomically."  Seen from
\* outside, the protocol of temporaries, renames and links is a destination that
\* changes in one step to a whole file, also across kills and power losses.
THEOREM PublishingIsAtomic == Spec => ImplementsAtomicFile
<1>1. Init => Atomic!AtomicInit /\ FilesSound
  BY InitIsInit, InitFiles
<1>2. IInv /\ FilesSound /\ [Next]_vars => FilesSound' /\ [Atomic!AtomicNext]_(Atomic!avars)
  BY NextFiles, NextIsNext
<1> QED BY <1>1, <1>2, Inductive, PTL DEF Spec, ImplementsAtomicFile, Atomic!AtomicSpec
=============================================================================
