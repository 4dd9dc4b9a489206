-------------------------- MODULE ExtractCacheProofs --------------------------
(***************************************************************************)
(* What the extraction cache promises, for any number of calls, payloads   *)
(* of any length, and any number of changes to container and entries.      *)
(***************************************************************************)
EXTENDS ExtractCache, SequenceTheorems, TLAPS

Steps == Passes \cup {"idle", "match", "publish", "again", "ok", "mismatch", "failed"}

\* Steps of a call that has its name, and of one that is past validation.
Decided == {"match", "copy", "publish", "again", "ok", "mismatch"}
Checked == Decided \cup {"hash"}

SharedSound ==
  /\ payload \in Contents
  /\ footer \in {None, Original}
  /\ entry \in [Contents -> Contents \cup {None, Spoilt}]
  /\ pc \in [Callers -> Steps]
  /\ seen \in [Callers -> Seq(Bytes)]
  /\ want \in [Callers -> Contents \cup {None}]
  /\ EntriesHoldTheirHash

CallSound(d) ==
  /\ Len(seen[d]) <= Length
  /\ pc[d] \in Decided => want[d] \in Contents
  /\ pc[d] = "publish" => seen[d] = want[d]
  /\ pc[d] \in {"again", "ok", "mismatch"} => entry[want[d]] = want[d] \/ d \in touched
  /\ d \notin changed /\ pc[d] \in Passes => \A i \in 1 .. Len(seen[d]) : seen[d][i] = payload[i]
  /\ d \notin changed /\ footer # None /\ pc[d] \in Checked => payload = footer
  /\ d \notin changed /\ footer # None /\ pc[d] \in Decided => want[d] = footer

Sound == SharedSound /\ \A d \in Callers : CallSound(d)

-----------------------------------------------------------------------------
\* A pass that has come to its end has seen a payload.
LEMMA PassIsContent ==
  ASSUME SharedSound, NEW c \in Callers, Read(c)
  PROVE  seen[c] \in Contents
<1>1. seen[c] \in Seq(Bytes) /\ Len(seen[c]) = Length
  BY DEF SharedSound, Read
<1> QED BY <1>1 DEF Contents

\* A call is not disturbed by what leaves its own state alone, unless it takes
\* its entry away.
LEMMA Undisturbed ==
  ASSUME NEW d \in Callers, CallSound(d), UNCHANGED <<payload, footer>>,
         pc'[d] = pc[d], seen'[d] = seen[d], want'[d] = want[d],
         d \in touched => d \in touched', d \in changed => d \in changed',
         entry'[want[d]] \in {entry[want[d]], want[d]} \/ d \in touched'
  PROVE  CallSound(d)'
  BY DEF CallSound

\* A step of a call that leaves container and entries alone.
LEMMA Alone ==
  ASSUME Sound, NEW c \in Callers, NEW step \in Steps,
         Goto(c, step), UNCHANGED <<payload, footer, entry, foreign>>,
         want' \in [Callers -> Contents \cup {None}],
         \A d \in Callers \ {c} : want'[d] = want[d],
         touched' \in {touched, touched \ {c}}, changed' \in {changed, changed \ {c}},
         CallSound(c)'
  PROVE  Sound'
<1>1. \A d \in Callers \ {c} : pc'[d] = pc[d] /\ seen'[d] = seen[d]
  BY DEF Sound, SharedSound, Goto
<1>2. \A d \in Callers \ {c} : CallSound(d)'
  BY <1>1, Undisturbed DEF Sound
<1>3. pc' \in [Callers -> Steps]
  BY DEF Sound, SharedSound, Goto
<1>4. seen' \in [Callers -> Seq(Bytes)]
  <2>1. <<>> \in Seq(Bytes)
    OBVIOUS
  <2> QED BY <2>1 DEF Sound, SharedSound, Goto
<1>5. SharedSound'
  BY <1>3, <1>4 DEF Sound, SharedSound, EntriesHoldTheirHash
<1> QED BY <1>2, <1>5 DEF Sound

\* What Goto does to the call that takes it.
LEMMA Went ==
  ASSUME Sound, NEW c \in Callers, NEW step \in Steps, Goto(c, step)
  PROVE  /\ pc'[c] = step
         /\ seen'[c] = IF step = "publish" THEN seen[c] ELSE <<>>
  BY DEF Sound, SharedSound, Goto

-----------------------------------------------------------------------------
LEMMA InitSound == Init => Sound
<1> SUFFICES ASSUME Init PROVE Sound
  OBVIOUS
<1>1. SharedSound
  <2>1. <<>> \in Seq(Bytes)
    OBVIOUS
  <2> QED BY <2>1, ExtractCacheAssumption DEF Init, SharedSound, Steps, EntriesHoldTheirHash
<1>2. ASSUME NEW d \in Callers PROVE CallSound(d)
  <2>1. pc[d] = "idle" /\ seen[d] = <<>> /\ Len(seen[d]) = 0
    BY DEF Init
  <2> QED BY <2>1, ExtractCacheAssumption DEF CallSound, Passes, Decided, Checked
<1> QED BY <1>1, <1>2 DEF Sound

LEMMA StepSound ==
  ASSUME Sound, NEW c \in Callers, Step(c)
  PROVE  Sound'
<1>0. SharedSound /\ CallSound(c) /\ Length \in Nat
  BY ExtractCacheAssumption DEF Sound
<1> USE DEF Steps, Passes, Decided, Checked
<1>1. CASE Begin(c)
  <2>1. PICK step \in {"hash", "validate"} :
          /\ Goto(c, step) /\ (step = "hash" => footer = None)
          /\ UNCHANGED <<payload, footer, entry, want, foreign>>
          /\ touched' = touched \ {c} /\ changed' = changed \ {c}
    BY <1>1 DEF Begin
  <2>2. pc'[c] = step /\ seen'[c] = <<>>
    BY <2>1, Went
  <2>3. CallSound(c)'
    BY <1>0, <2>1, <2>2 DEF CallSound
  <2> QED BY <1>0, <2>1, <2>3, Alone DEF SharedSound
<1>2. CASE ReadChunk(c)
  <2>1. /\ seen[c] \in Seq(Bytes) /\ Len(seen[c]) \in Nat /\ Len(seen[c]) < Length
        /\ pc[c] \in Passes /\ UNCHANGED <<payload, footer, entry, pc, want, changes, ghosts>>
    BY <1>0, <1>2 DEF ReadChunk, SharedSound
  <2> DEFINE x == payload[Len(seen[c]) + 1]
  <2>2. x \in Bytes
    BY <1>0, <2>1 DEF SharedSound, Contents
  <2>3. seen' = [seen EXCEPT ![c] = Append(seen[c], x)]
    BY <1>2 DEF ReadChunk
  <2>4. /\ Append(seen[c], x) \in Seq(Bytes) /\ Len(Append(seen[c], x)) = Len(seen[c]) + 1
        /\ \A i \in 1 .. Len(seen[c]) + 1 :
             Append(seen[c], x)[i] = IF i = Len(seen[c]) + 1 THEN x ELSE seen[c][i]
    BY <2>1, <2>2, AppendProperties
  <2>5. seen'[c] = Append(seen[c], x) /\ seen' \in [Callers -> Seq(Bytes)]
    BY <1>0, <2>3, <2>4 DEF SharedSound
  <2>6. CallSound(c)'
    <3>1. Len(seen'[c]) <= Length
      BY <1>0, <2>1, <2>4, <2>5
    <3>2. ASSUME c \notin changed PROVE \A i \in 1 .. Len(seen'[c]) : seen'[c][i] = payload[i]
      <4>1. \A i \in 1 .. Len(seen[c]) : seen[c][i] = payload[i]
        BY <1>0, <2>1, <3>2 DEF CallSound
      <4> QED BY <2>1, <2>4, <2>5, <4>1
    <3> QED BY <1>0, <2>1, <3>1, <3>2 DEF CallSound, ghosts
  <2>7. \A d \in Callers \ {c} : CallSound(d)'
    BY <2>1, <2>3, Undisturbed DEF Sound, SharedSound, ghosts
  <2>8. SharedSound'
    BY <1>0, <2>1, <2>5 DEF SharedSound, EntriesHoldTheirHash, ghosts
  <2> QED BY <2>6, <2>7, <2>8 DEF Sound
<1>3. CASE Validated(c)
  <2>1. PICK step \in {"hash", "failed"} :
          /\ Goto(c, step) /\ (step = "hash" => seen[c] = footer)
          /\ pc[c] = "validate" /\ Read(c)
          /\ UNCHANGED <<payload, footer, entry, want, changes, ghosts>>
    BY <1>3 DEF Validated
  <2>2. pc'[c] = step /\ seen'[c] = <<>>
    BY <2>1, Went
  <2>3. ASSUME c \notin changed PROVE seen[c] = payload
    <3>1. \A i \in 1 .. Length : seen[c][i] = payload[i]
      BY <1>0, <2>1, <2>3 DEF CallSound, Read
    <3>2. seen[c] \in Contents
      BY <1>0, <2>1, PassIsContent
    <3> QED BY <1>0, <3>1, <3>2 DEF SharedSound, Contents
  <2>4. CallSound(c)'
    BY <1>0, <2>1, <2>2, <2>3 DEF CallSound, ghosts
  <2> QED BY <1>0, <2>1, <2>4, Alone DEF SharedSound, ghosts
<1>4. CASE Named(c)
  <2>1. /\ Goto(c, "match") /\ pc[c] = "hash" /\ Read(c)
        /\ want' = [want EXCEPT ![c] = seen[c]]
        /\ UNCHANGED <<payload, footer, entry, changes, ghosts>>
    BY <1>4 DEF Named
  <2>2. pc'[c] = "match" /\ seen'[c] = <<>>
    BY <2>1, Went
  <2>3. seen[c] \in Contents
    BY <1>0, <2>1, PassIsContent
  <2>4. want'[c] = seen[c] /\ want' \in [Callers -> Contents \cup {None}]
    BY <1>0, <2>1, <2>3 DEF SharedSound
  <2>5. ASSUME c \notin changed, footer # None PROVE seen[c] = footer
    <3>1. \A i \in 1 .. Length : seen[c][i] = payload[i]
      BY <1>0, <2>1, <2>5 DEF CallSound, Read
    <3>2. seen[c] = payload
      BY <1>0, <2>3, <3>1 DEF SharedSound, Contents
    <3> QED BY <1>0, <2>1, <2>5, <3>2 DEF CallSound
  <2>6. CallSound(c)'
    BY <1>0, <2>1, <2>2, <2>3, <2>4, <2>5 DEF CallSound, ghosts
  <2> QED BY <1>0, <2>1, <2>4, <2>6, Alone DEF SharedSound, ghosts
<1>5. CASE Match(c)
  <2>1. PICK step \in {"ok", "copy"} :
          /\ Goto(c, step) /\ (step = "ok" => entry[want[c]] = want[c]) /\ pc[c] = "match"
          /\ touched' = touched \ {c}
          /\ UNCHANGED <<payload, footer, entry, want, changes, foreign, changed>>
    BY <1>5 DEF Match, Matches
  <2>2. pc'[c] = step /\ seen'[c] = <<>>
    BY <2>1, Went
  <2>3. CallSound(c)'
    BY <1>0, <2>1, <2>2 DEF CallSound
  <2> QED BY <1>0, <2>1, <2>3, Alone DEF SharedSound
<1>6. CASE Copied(c)
  <2>1. PICK step \in {"publish", "failed"} :
          /\ Goto(c, step) /\ (step = "publish" => seen[c] = want[c]) /\ pc[c] = "copy"
          /\ UNCHANGED <<payload, footer, entry, want, changes, ghosts>>
    BY <1>6 DEF Copied
  <2>2. pc'[c] = step /\ seen'[c] = IF step = "publish" THEN seen[c] ELSE <<>>
    BY <2>1, Went
  <2>3. CallSound(c)'
    BY <1>0, <2>1, <2>2 DEF CallSound, ghosts
  <2> QED BY <1>0, <2>1, <2>3, Alone DEF SharedSound, ghosts
<1>7. CASE Place(c)
  <2>1. /\ Goto(c, "again") /\ pc[c] = "publish"
        /\ entry' = [entry EXCEPT ![want[c]] = seen[c]]
        /\ foreign' = foreign \ {want[c]}
        /\ UNCHANGED <<payload, footer, want, changes, changed, touched>>
    BY <1>7 DEF Place
  <2>2. want[c] \in Contents /\ seen[c] = want[c]
    BY <1>0, <2>1 DEF CallSound
  <2>3. entry' = [entry EXCEPT ![want[c]] = want[c]]
    BY <2>1, <2>2
  <2>4. pc'[c] = "again" /\ seen'[c] = <<>>
    BY <2>1, Went
  <2>5. CallSound(c)'
    BY <1>0, <2>1, <2>2, <2>3, <2>4 DEF CallSound, SharedSound
  <2>6. ASSUME NEW d \in Callers \ {c} PROVE CallSound(d)'
    <3>1. pc'[d] = pc[d] /\ seen'[d] = seen[d] /\ want'[d] = want[d]
      BY <1>0, <2>1 DEF Goto, SharedSound
    <3>2. CASE want[d] \in Contents
      <4>1. entry'[want[d]] \in {entry[want[d]], want[d]}
        BY <1>0, <2>2, <2>3, <3>2 DEF SharedSound
      <4> QED BY <2>1, <3>1, <4>1, Undisturbed DEF Sound
    <3>3. CASE want[d] \notin Contents
      BY <2>1, <3>1, <3>3 DEF Sound, CallSound
    <3> QED BY <3>2, <3>3
  <2>7. SharedSound'
    <3>1. pc' \in [Callers -> Steps] /\ seen' \in [Callers -> Seq(Bytes)]
      <4>1. <<>> \in Seq(Bytes)
        OBVIOUS
      <4> QED BY <1>0, <2>1, <4>1 DEF Goto, SharedSound
    <3>2. entry' \in [Contents -> Contents \cup {None, Spoilt}]
      BY <1>0, <2>2, <2>3 DEF SharedSound
    <3>3. EntriesHoldTheirHash'
      BY <1>0, <2>1, <2>2, <2>3 DEF EntriesHoldTheirHash, SharedSound
    <3> QED BY <1>0, <2>1, <3>1, <3>2, <3>3 DEF SharedSound
  <2> QED BY <2>5, <2>6, <2>7 DEF Sound
<1>8. CASE MatchAgain(c)
  <2>1. PICK step \in {"ok", "mismatch"} :
          /\ Goto(c, step) /\ pc[c] = "again"
          /\ (step = "ok" => entry[want[c]] = want[c])
          /\ touched' = IF step = "ok" THEN touched \ {c} ELSE touched
          /\ UNCHANGED <<payload, footer, entry, want, changes, foreign, changed>>
    BY <1>8 DEF MatchAgain, Matches
  <2>2. pc'[c] = step /\ seen'[c] = <<>>
    BY <2>1, Went
  <2>3. CallSound(c)'
    BY <1>0, <2>1, <2>2 DEF CallSound
  <2> QED BY <1>0, <2>1, <2>3, Alone DEF SharedSound
<1>9. CASE Fails(c)
  <2>1. Goto(c, "failed") /\ UNCHANGED <<payload, footer, entry, want, changes, ghosts>>
    BY <1>9 DEF Fails
  <2>2. pc'[c] = "failed" /\ seen'[c] = <<>>
    BY <2>1, Went
  <2>3. CallSound(c)'
    BY <1>0, <2>1, <2>2 DEF CallSound
  <2> QED BY <1>0, <2>1, <2>3, Alone DEF SharedSound, ghosts
<1>10. CASE Leave(c)
  <2>1. /\ Goto(c, "idle") /\ want' = [want EXCEPT ![c] = None]
        /\ changed' = changed \ {c} /\ touched' = touched \ {c}
        /\ UNCHANGED <<payload, footer, entry, changes, foreign>>
    BY <1>10 DEF Leave
  <2>2. pc'[c] = "idle" /\ seen'[c] = <<>>
    BY <2>1, Went
  <2>3. CallSound(c)'
    BY <1>0, <2>1, <2>2 DEF CallSound
  <2> QED BY <1>0, <2>1, <2>3, Alone DEF SharedSound
<1> QED BY <1>1, <1>2, <1>3, <1>4, <1>5, <1>6, <1>7, <1>8, <1>9, <1>10 DEF Step

\* A call at work notices nothing of a change, and claims nothing after it.
LEMMA ChangeSound ==
  ASSUME Sound, NEW i \in 1 .. Length, NEW b \in Bytes, Change(i, b)
  PROVE  Sound'
<1>1. /\ payload' = [payload EXCEPT ![i] = b]
      /\ changed' = {c \in Callers : pc[c] # "idle"}
      /\ UNCHANGED <<footer, entry, pc, seen, want, foreign, touched>>
  BY DEF Change
<1>2. SharedSound'
  BY <1>1 DEF Sound, SharedSound, Contents, EntriesHoldTheirHash
<1>3. ASSUME NEW d \in Callers PROVE CallSound(d)'
  <2>1. d \notin changed' => pc'[d] = "idle"
    BY <1>1
  <2> QED BY <1>1, <2>1 DEF Sound, CallSound, Passes, Decided, Checked
<1> QED BY <1>2, <1>3 DEF Sound

LEMMA TamperSound ==
  ASSUME Sound, NEW h \in Contents, NEW f \in {None, Spoilt}, Tamper(h, f)
  PROVE  Sound'
<1>1. /\ entry' = [entry EXCEPT ![h] = f]
      /\ foreign' = foreign \cup {h}
      /\ touched' = touched \cup {c \in Callers : want[c] = h}
      /\ UNCHANGED <<payload, footer, pc, seen, want, changes, changed>>
  BY DEF Tamper
<1>2. SharedSound'
  BY <1>1 DEF Sound, SharedSound, EntriesHoldTheirHash
<1>3. ASSUME NEW d \in Callers PROVE CallSound(d)'
  <2>1. CASE want[d] = h
    BY <1>1, <2>1, Undisturbed DEF Sound
  <2>2. CASE want[d] # h
    <3>1. entry'[want[d]] = entry[want[d]]
      BY <1>1, <2>2 DEF Sound, SharedSound
    <3> QED BY <1>1, <3>1, Undisturbed DEF Sound
  <2> QED BY <2>1, <2>2
<1> QED BY <1>2, <1>3 DEF Sound

\* For any number of calls: the invariant that the properties below follow from
\* (src/src/extract.c:296-365).
THEOREM CacheSound == Spec => []Sound
<1>1. Sound /\ [Next]_vars => Sound'
  <2> SUFFICES ASSUME Sound, [Next]_vars PROVE Sound'
    OBVIOUS
  <2>1. CASE UNCHANGED vars
    BY <2>1 DEF vars, ghosts, Sound, SharedSound, CallSound, EntriesHoldTheirHash
  <2> QED BY <2>1, StepSound, ChangeSound, TamperSound DEF Next
<1> QED BY <1>1, InitSound, PTL DEF Spec

-----------------------------------------------------------------------------
\* For any number of calls: what the library put under a name is what the name
\* says (src/src/extract.c:161-184, 245-265).
THEOREM EntriesHold == Spec => []EntriesHoldTheirHash
<1>1. Sound => EntriesHoldTheirHash
  BY DEF Sound, SharedSound
<1> QED BY <1>1, CacheSound, PTL

\* For any number of calls: a path that is returned names the payload it says,
\* unless an outsider touched it (src/src/extract.c:267-294, 353-365).
THEOREM PathsHold == Spec => []PathHolds
<1>1. Sound => PathHolds
  BY DEF Sound, CallSound, PathHolds
<1> QED BY <1>1, CacheSound, PTL

\* For any number of calls and changes: what is extracted is what the footer
\* says, unless the container changed during the call (src/src/validate.c:91-117).
THEOREM Authentic == Spec => []AuthenticUnlessChanged
<1>1. Sound => AuthenticUnlessChanged
  BY DEF Sound, CallSound, AuthenticUnlessChanged, Decided
<1> QED BY <1>1, CacheSound, PTL

\* For any number of calls: what a call published is at its name until it has
\* returned, whatever its second look says, unless an outsider touched it
\* (src/src/extract.c:353-365).
THEOREM PublishedStay == Spec => []PublishedStays
<1>1. Sound => PublishedStays
  BY DEF Sound, CallSound, PublishedStays
<1> QED BY <1>1, CacheSound, PTL
===============================================================================
