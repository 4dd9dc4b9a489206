----------------------------- MODULE AtomicFile ------------------------------
(***************************************************************************)
(* What publishing a file promises, without temporary names, inodes or a   *)
(* page cache: the destination is empty or one call's complete file, it    *)
(* changes in one step, and a call that says it failed has not changed it. *)
(***************************************************************************)
CONSTANTS Callers, Requests, NoRequest, Product(_), NoFile, Damaged

VARIABLES
  dest,    \* the product of the call the destination holds, NoFile or Damaged
  stable,  \* what a power loss falls back to
  call,    \* per caller: its request, NoRequest between calls
  placed,  \* the callers whose file was placed at the destination
  answer   \* per caller: "none", "ok" or "failed"

avars == <<dest, stable, call, placed, answer>>

AtomicInit ==
  /\ dest = NoFile
  /\ stable = NoFile
  /\ call = [c \in Callers |-> NoRequest]
  /\ placed = {}
  /\ answer = [c \in Callers |-> "none"]

Start(c) ==
  /\ call[c] = NoRequest
  /\ \E r \in Requests : call' = [call EXCEPT ![c] = r]
  /\ UNCHANGED <<dest, stable, placed, answer>>

\* Only a call that may replace it changes a file that is there.
Place(c) ==
  /\ call[c] # NoRequest
  /\ c \notin placed
  /\ answer[c] = "none"
  /\ dest = NoFile \/ call[c].replace
  /\ dest' = Product(call[c])
  /\ placed' = placed \cup {c}
  /\ answer' \in {answer, [answer EXCEPT ![c] = "ok"]}
  /\ UNCHANGED <<stable, call>>

\* The answer says what happened.
Answer(c) ==
  /\ call[c] # NoRequest
  /\ answer[c] = "none"
  /\ answer' = [answer EXCEPT ![c] = IF c \in placed THEN "ok" ELSE "failed"]
  /\ UNCHANGED <<dest, stable, call, placed>>

\* Calls end, by returning or because their process is killed.
End(c) ==
  /\ call' = [call EXCEPT ![c] = NoRequest]
  /\ placed' = placed \ {c}
  /\ answer' = [answer EXCEPT ![c] = "none"]
  /\ UNCHANGED <<dest, stable>>

Settle ==
  /\ stable' = dest
  /\ UNCHANGED <<dest, call, placed, answer>>

\* A file placed by a call that asked for durability is whole after a power loss.
Crash ==
  /\ \/ dest' = stable
     \/ /\ stable # NoFile
        /\ ~stable.durable
        /\ dest' = Damaged
  /\ stable' = dest'
  /\ call' = [c \in Callers |-> NoRequest]
  /\ placed' = {}
  /\ answer' = [c \in Callers |-> "none"]

AtomicNext ==
  \/ \E c \in Callers : Start(c) \/ Place(c) \/ Answer(c) \/ End(c)
  \/ Settle
  \/ Crash

AtomicSpec == AtomicInit /\ [][AtomicNext]_avars
=============================================================================
