---------------------------- MODULE MutableStore ----------------------------
(***************************************************************************)
(* What the mutable region promises its users, without slots, extents,     *)
(* checksums or a page cache: a map from objects to contents that readers  *)
(* see, and the map a power loss falls back to.  Only a call on an object  *)
(* changes what readers get for it, and a content never turns into         *)
(* another directly: it is withdrawn first, for readers and on the disk.   *)
(***************************************************************************)
CONSTANTS Writers, Objects, Values, NoVal

VARIABLES
  visible,  \* the content a reader gets for an object now
  stable,   \* the content a reader would get after a power loss
  call      \* per writer: the object and content of its call, or None

svars == <<visible, stable, call>>

None == <<>>
Calls == Objects \X (Values \cup {NoVal})   \* NoVal: a deletion

StoreInit ==
  /\ visible = [o \in Objects |-> NoVal]
  /\ stable = visible
  /\ call = [w \in Writers |-> None]

Start(w) ==
  /\ call[w] = None
  /\ call'[w] \in Calls
  /\ call' = [call EXCEPT ![w] = call'[w]]
  /\ UNCHANGED <<visible, stable>>

\* Calls end, by returning or because their process is killed.
End ==
  /\ \A w \in Writers : call'[w] \in {call[w], None}
  /\ UNCHANGED <<visible, stable>>

\* The object of a call is withdrawn, or given the call's content once neither
\* readers nor the disk have an older one.
Change(w, o) ==
  /\ call[w] # None
  /\ call[w][1] = o
  /\ \/ visible'[o] = NoVal
     \/ /\ visible'[o] = call[w][2]
        /\ visible[o] = NoVal
        /\ stable[o] = NoVal

Serve ==
  /\ \A o \in Objects : visible'[o] # visible[o] => \E w \in Writers : Change(w, o)
  /\ \A o, q \in Objects : visible'[o] # visible[o] /\ visible'[q] # visible[q] => o = q
  /\ UNCHANGED <<stable, call>>

\* The disk follows what readers see, perhaps through a state that has neither.
Settle ==
  /\ \A o \in Objects :
       stable'[o] # stable[o] => stable[o] # visible[o] /\ stable'[o] \in {visible[o], NoVal}
  /\ UNCHANGED <<visible, call>>

\* A power loss takes away an object that had not settled, or brings it back.
Crash ==
  /\ \A o \in Objects :
       stable'[o] # stable[o] => stable[o] # visible[o] /\ stable'[o] = NoVal
  /\ visible' = stable'
  /\ \A w \in Writers : call'[w] = None

StoreNext == (\E w \in Writers : Start(w)) \/ End \/ Serve \/ Settle \/ Crash

StoreSpec == StoreInit /\ [][StoreNext]_svars
=============================================================================
