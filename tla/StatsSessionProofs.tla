-------------------------- MODULE StatsSessionProofs --------------------------
(***************************************************************************)
(* What parsing, counting and serializing do to the statistics, for every  *)
(* document, and what sessions make of the object, for any number of them. *)
(***************************************************************************)
EXTENDS StatsSession, FiniteSetTheorems, TLAPS

\* The names that statistics with these flags are written under.
Names(flags) == flags \cup (IF "achievements" \in flags THEN {"unlocked", "total"} ELSE {})

Stats == [flags : SUBSET Flags, v : [Numbers -> Nat]]

\* What has no flag is zero: nothing is lost when it is left out.
Normal(st) == \A n \in Numbers \ Names(st.flags) : st.v[n] = 0

-----------------------------------------------------------------------------
(***************************************************************************)
(* The conversions.                                                        *)
(***************************************************************************)
LEMMA DocumentFacts ==
  ASSUME NEW x, WellFormed(x)
  PROVE  /\ IsDocument(x)
         /\ DOMAIN x \in Nestings
         /\ \A n \in DOMAIN x : x[n] \in Nat
  BY StatsAssumption DEF WellFormed, IsDocument

LEMMA NothingIsGood == Nothing \in Stats /\ Normal(Nothing) /\ ValuesValid(Nothing) /\ Nothing.v["play"] = 0
  BY StatsAssumption DEF Nothing, Stats, Normal, Names, ValuesValid, Numbers, Flags

\* What the parser accepts could have been written.
LEMMA ParsedIsGood ==
  ASSUME NEW x, WellFormed(x), Accepts(x)
  PROVE  /\ Parsed(x) \in Stats
         /\ Normal(Parsed(x))
         /\ ValuesValid(Parsed(x))
         /\ Parsed(x).v["play"] = Value(x, "play")
<1> DEFINE st == Parsed(x)
<1>1. /\ st.flags = DOMAIN x \cap Flags
      /\ st.v = [n \in Numbers |-> IF n \in DOMAIN x THEN x[n] ELSE 0]
      /\ st = [flags |-> st.flags, v |-> st.v]
  BY DEF Parsed
<1>2. /\ DOMAIN x \subseteq Numbers \cup {"achievements"}
      /\ DOMAIN x \cap {"unlocked", "total", "hardcore"} # {} => "achievements" \in DOMAIN x
      /\ \A n \in DOMAIN x : x[n] \in Nat
      /\ IsDocument(x)
  BY DocumentFacts DEF Nestings
<1> HIDE DEF st
<1>3. st \in Stats
  BY <1>1, <1>2 DEF Stats
<1>4. Normal(st)
  BY <1>1, <1>2 DEF Normal, Names, Numbers, Flags
<1>5. ValuesValid(st)
  <2>1. \A n \in Numbers : st.v[n] <= Limit
    BY <1>1, <1>2, StatsAssumption DEF Accepts, InRange
  <2>2. "hardcore" \in st.flags => "achievements" \in st.flags
    BY <1>1, <1>2 DEF Flags
  <2> QED BY <1>1, <1>2, <2>1, <2>2 DEF ValuesValid, Accepts, InRange, AchievementsOk, Numbers, Flags
<1>6. st.v["play"] = Value(x, "play")
  BY <1>1, <1>2 DEF Value, Numbers
<1> QED BY <1>3, <1>4, <1>5, <1>6 DEF st

\* What is written is accepted, and read as it was.
LEMMA SerializedIsRead ==
  ASSUME NEW st \in Stats, Normal(st), ValuesValid(st)
  PROVE  /\ WellFormed(Serialized(st))
         /\ Accepts(Serialized(st))
         /\ Parsed(Serialized(st)) = st
         /\ Value(Serialized(st), "play") = st.v["play"]
<1> DEFINE x == Serialized(st)
<1>1. /\ DOMAIN x = Names(st.flags)
      /\ \A n \in Names(st.flags) : x[n] = IF n = "achievements" THEN 0 ELSE st.v[n]
      /\ x = [n \in Names(st.flags) |-> IF n = "achievements" THEN 0 ELSE st.v[n]]
  BY DEF Serialized, Names
<1>2. /\ st.flags \subseteq Flags
      /\ st.v \in [Numbers -> Nat]
      /\ st = [flags |-> st.flags, v |-> st.v]
  BY DEF Stats
<1> HIDE DEF x
<1>3. Names(st.flags) \subseteq Numbers \cup {"achievements"}
  BY <1>2 DEF Names, Numbers, Flags
<1>4. WellFormed(x)
  <2>1. Names(st.flags) \in Nestings
    BY <1>2, <1>3 DEF Nestings, Names, ValuesValid, Flags
  <2>2. x \in [Names(st.flags) -> Nat]
    BY <1>1, <1>2, <1>3
  <2> QED BY <2>1, <2>2 DEF WellFormed
<1>5. IsDocument(x)
  BY <1>4, DocumentFacts
<1>6. Accepts(x)
  BY <1>1, <1>2, <1>3, <1>5 DEF Accepts, InRange, AchievementsOk, Names, ValuesValid, Numbers, Flags
<1>7. Parsed(x) = st
  <2>1. Names(st.flags) \cap Flags = st.flags
    BY <1>2 DEF Names, Flags
  <2>2. \A n \in Numbers : (IF n \in DOMAIN x THEN x[n] ELSE 0) = st.v[n]
    BY <1>1, <1>2 DEF Normal, Numbers
  <2>3. [n \in Numbers |-> IF n \in DOMAIN x THEN x[n] ELSE 0] = st.v
    BY <1>2, <2>2
  <2> QED BY <1>1, <1>2, <2>1, <2>3 DEF Parsed
<1>8. Value(x, "play") = st.v["play"]
  BY <1>1, <1>2, <1>5 DEF Value, Normal, Numbers
<1> QED BY <1>4, <1>6, <1>7, <1>8 DEF x

\* Counting and stamping keep the statistics fit to be written, unless there is
\* good reason.
PlayedAt(st, now) == IF now = NoTime THEN Counted(st) ELSE Stamped(Counted(st), now)
GoodReason(st, now) == st.v["play"] > Limit \/ (now # NoTime /\ now < st.v["first"])

LEMMA PlayedIsGood ==
  ASSUME NEW st \in Stats, Normal(st), ValuesValid(st), NEW now \in Times \cup {NoTime}
  PROVE  /\ PlayedAt(st, now) \in Stats
         /\ Normal(PlayedAt(st, now))
         /\ PlayedAt(st, now).v["play"] = st.v["play"] + 1
         /\ "play" \in PlayedAt(st, now).flags
         /\ ValuesValid(PlayedAt(st, now)) \/ GoodReason(PlayedAt(st, now), now)
<1> DEFINE c == Counted(st)
<1>1. /\ c.flags = st.flags \cup {"play"}
      /\ c.v = [st.v EXCEPT !["play"] = @ + 1]
      /\ c = [flags |-> c.flags, v |-> c.v]
      /\ st.flags \subseteq Flags /\ st.v \in [Numbers -> Nat]
  BY DEF Counted, Stats
<1> HIDE DEF c
<1>2. c \in Stats
  BY <1>1 DEF Stats, Flags
<1>3. Normal(c)
  BY <1>1 DEF Normal, Names, Numbers
<1>4. c.v["play"] = st.v["play"] + 1 /\ \A n \in Numbers \ {"play"} : c.v[n] = st.v[n]
  BY <1>1 DEF Numbers
<1>5. ValuesValid(c) \/ c.v["play"] > Limit
  BY <1>1, <1>2, <1>4, StatsAssumption DEF ValuesValid, Numbers, Stats
<1>6. CASE now = NoTime
  BY <1>1, <1>2, <1>3, <1>4, <1>5, <1>6 DEF PlayedAt, GoodReason, c
<1>7. CASE now # NoTime
  <2> DEFINE d == Stamped(c, now)
  <2>1. /\ d.flags = c.flags \cup {"first", "last"}
        /\ d.v = [c.v EXCEPT !["last"] = now, !["first"] = IF "first" \in c.flags THEN @ ELSE now]
        /\ d = [flags |-> d.flags, v |-> d.v]
    BY DEF Stamped
  <2>2. now \in Nat /\ now <= Limit
    BY <1>7, StatsAssumption
  <2> HIDE DEF d
  <2>3. c.v \in [Numbers -> Nat] /\ c.flags \subseteq Flags
    BY <1>2 DEF Stats
  <2>4. d \in Stats
    BY <2>1, <2>2, <2>3 DEF Stats, Flags, Numbers
  <2>5. Normal(d)
    BY <1>3, <2>1, <2>3 DEF Normal, Names, Numbers
  <2>6. /\ \A n \in Numbers \ {"first", "last"} : d.v[n] = c.v[n]
        /\ d.v["last"] = now
        /\ d.v["first"] = IF "first" \in c.flags THEN c.v["first"] ELSE now
    BY <2>1, <2>3 DEF Numbers
  <2>7. ValuesValid(d) \/ d.v["play"] > Limit \/ now < d.v["first"]
    <3> SUFFICES ASSUME ~(d.v["play"] > Limit), ~(now < d.v["first"])
                 PROVE  ValuesValid(d)
      OBVIOUS
    <3>1. ValuesValid(c)
      BY <1>5, <2>6 DEF Numbers
    <3>2. \A n \in Numbers : d.v[n] <= Limit
      BY <2>2, <2>3, <2>6, <3>1 DEF ValuesValid, Numbers
    <3>3. d.v["first"] <= d.v["last"]
      BY <2>2, <2>3, <2>6 DEF Numbers
    <3> QED BY <2>1, <2>6, <3>1, <3>2, <3>3 DEF ValuesValid, Numbers
  <2>8. d.v["play"] = st.v["play"] + 1 /\ "play" \in d.flags
    BY <1>1, <1>4, <2>1, <2>6 DEF Numbers
  <2> QED BY <1>7, <2>4, <2>5, <2>7, <2>8 DEF PlayedAt, GoodReason, c, d
<1> QED BY <1>6, <1>7

-----------------------------------------------------------------------------
(***************************************************************************)
(* What a session holds is fit to be written until it plays, and then      *)
(* unless there is good reason.                                            *)
(***************************************************************************)
Typed ==
  /\ object \in {Absent, Hidden, Lost, Junk} \/ WellFormed(object)
  /\ pc \in [Sessions -> Resting \cup {"read", "played", "writing"}]
  /\ mem \in [Sessions -> Stats]
  /\ \A s \in Sessions : Normal(mem[s])
  /\ start \in Nat /\ unsure \in Nat

Fit ==
  \A s \in Sessions :
    /\ pc[s] \in {"read", "writing"} => ValuesValid(mem[s])
    /\ pc[s] = "played" => ValuesValid(mem[s]) \/ s \in late

FInv == Typed /\ Fit /\ RefusedForCause

\* The steps, by what they do to the session and to the object.
LEMMA ReadStep ==
  ASSUME FInv, NEW s \in Sessions, Read(s)
  PROVE  /\ pc[s] = "idle"
         /\ UNCHANGED <<object, late, start, unsure>>
         /\ \/ /\ object \in {Absent, Hidden, Lost}
               /\ mem' = [mem EXCEPT ![s] = Nothing]
               /\ pc' = [pc EXCEPT ![s] = "read"]
            \/ /\ object \notin {Absent, Hidden, Lost} /\ Accepts(object) /\ WellFormed(object)
               /\ mem' = [mem EXCEPT ![s] = Parsed(object)]
               /\ pc' = [pc EXCEPT ![s] = "read"]
            \/ /\ object \notin {Absent, Hidden, Lost} /\ ~Accepts(object)
               /\ pc' = [pc EXCEPT ![s] = "refused"]
               /\ UNCHANGED mem
  BY DEF Read, FInv, Typed, Accepts, IsDocument

LEMMA PlayStep ==
  ASSUME FInv, NEW s \in Sessions, Play(s)
  PROVE  /\ pc[s] = "read" /\ pc' = [pc EXCEPT ![s] = "played"]
         /\ UNCHANGED <<object, start, unsure>>
         /\ late \subseteq late'
         /\ \E st \in Stats :
              /\ mem' = [mem EXCEPT ![s] = st]
              /\ Normal(st)
              /\ st.v["play"] = mem[s].v["play"] + 1
              /\ "play" \in st.flags
              /\ ValuesValid(st) \/ s \in late'
<1>1. pc[s] = "read" /\ pc' = [pc EXCEPT ![s] = "played"] /\ UNCHANGED <<object, start, unsure>>
  BY DEF Play
<1>2. PICK now \in Times \cup {NoTime} :
        /\ mem' = [mem EXCEPT ![s] = PlayedAt(mem[s], now)]
        /\ late' = IF GoodReason(PlayedAt(mem[s], now), now) THEN late \cup {s} ELSE late
  BY DEF Play, PlayedAt, GoodReason
<1>3. mem[s] \in Stats /\ Normal(mem[s]) /\ ValuesValid(mem[s])
  BY <1>1 DEF FInv, Typed, Fit
<1> DEFINE st == PlayedAt(mem[s], now)
<1>4. /\ st \in Stats /\ Normal(st)
      /\ st.v["play"] = mem[s].v["play"] + 1 /\ "play" \in st.flags
      /\ ValuesValid(st) \/ GoodReason(st, now)
  BY <1>3, PlayedIsGood
<1> HIDE DEF st
<1> QED BY <1>1, <1>2, <1>4 DEF st

LEMMA InitFit ==
  ASSUME Init
  PROVE  FInv
<1>1. Typed
  <2>1. object \in {Absent, Junk} \/ WellFormed(object)
    BY StatsAssumption DEF Init
  <2>2. Value(object, "play") \in Nat
    BY <2>1, DocumentFacts DEF Value, IsDocument
  <2> QED BY <2>1, <2>2, NothingIsGood DEF Init, Typed, Resting
<1>2. Fit /\ RefusedForCause
  BY DEF Init, Fit, RefusedForCause
<1> QED BY <1>1, <1>2 DEF FInv

LEMMA NextFit ==
  ASSUME FInv, [Next]_vars
  PROVE  FInv'
<1> USE DEF FInv
<1>1. ASSUME NEW s \in Sessions, Read(s)
      PROVE  FInv'
  <2>1. PICK st \in Stats :
          /\ Normal(st) /\ ValuesValid(st)
          /\ \/ mem' = [mem EXCEPT ![s] = st] /\ pc' = [pc EXCEPT ![s] = "read"]
             \/ mem' = mem /\ pc' = [pc EXCEPT ![s] = "refused"]
    BY <1>1, ReadStep, NothingIsGood, ParsedIsGood
  <2>2. UNCHANGED <<object, late, start, unsure>>
    BY <1>1, ReadStep
  <2>3. Typed'
    BY <2>1, <2>2 DEF Typed, Resting
  <2>4. Fit' /\ RefusedForCause'
    BY <2>1, <2>2 DEF Typed, Fit, RefusedForCause
  <2> QED BY <2>3, <2>4
<1>2. ASSUME NEW s \in Sessions, Play(s)
      PROVE  FInv'
  <2>1. PICK st \in Stats :
          mem' = [mem EXCEPT ![s] = st] /\ Normal(st) /\ (ValuesValid(st) \/ s \in late')
    BY <1>2, PlayStep
  <2>2. pc' = [pc EXCEPT ![s] = "played"] /\ UNCHANGED <<object, start, unsure>> /\ late \subseteq late'
    BY <1>2, PlayStep
  <2>3. Typed'
    BY <2>1, <2>2 DEF Typed
  <2>4. Fit' /\ RefusedForCause'
    BY <2>1, <2>2 DEF Typed, Fit, RefusedForCause
  <2> QED BY <2>3, <2>4
<1>3. ASSUME NEW s \in Sessions, BeginWrite(s)
      PROVE  FInv'
  <2>1. UNCHANGED <<mem, late, start, unsure>> /\ object' \in {object, Hidden, Lost} /\ pc[s] = "played"
    BY <1>3 DEF BeginWrite, history
  <2>2. PICK to \in {"invalid", "full", "writing"} :
          /\ pc' = [pc EXCEPT ![s] = to]
          /\ IF ~ValuesValid(mem[s]) THEN to = "invalid" ELSE to # "invalid"
    BY <1>3 DEF BeginWrite
  <2>3. Typed'
    BY <2>1, <2>2 DEF Typed, Resting
  <2>4. Fit' /\ RefusedForCause'
    BY <2>1, <2>2 DEF Typed, Fit, RefusedForCause
  <2> QED BY <2>3, <2>4
<1>4. ASSUME NEW s \in Sessions, EndWrite(s)
      PROVE  FInv'
  <2>1. /\ UNCHANGED <<mem, late, start>> /\ unsure' \in {unsure, unsure + 1}
        /\ object' \in {Lost, Serialized(mem[s])}
        /\ \E to \in {"done", "idle"} : pc' = [pc EXCEPT ![s] = to]
        /\ pc[s] = "writing"
    BY <1>4 DEF EndWrite
  <2>2. WellFormed(Serialized(mem[s]))
    BY <2>1, SerializedIsRead DEF Typed, Fit
  <2>3. Typed'
    <3>1. object' \in {Absent, Hidden, Lost, Junk} \/ WellFormed(object')
      BY <2>1, <2>2
    <3> QED BY <2>1, <3>1 DEF Typed, Resting
  <2>4. Fit' /\ RefusedForCause'
    BY <2>1 DEF Typed, Fit, RefusedForCause
  <2> QED BY <2>3, <2>4
<1>5. ASSUME NEW s \in Sessions, WriteFails(s) \/ Dies(s)
      PROVE  FInv'
  <2>1. UNCHANGED <<object, mem, late, start, unsure>> /\ pc' = [pc EXCEPT ![s] = "idle"]
    BY <1>5 DEF WriteFails, Dies, history
  <2> QED BY <2>1 DEF Typed, Fit, RefusedForCause, Resting
<1>6. CASE UNCHANGED vars
  BY <1>6 DEF vars, history, Typed, Fit, RefusedForCause
<1> QED BY <1>1, <1>2, <1>3, <1>4, <1>5, <1>6 DEF Next

\* A session is told that its values are invalid only when it counted past the
\* limit or its clock went backwards, whatever it found and whoever else was at
\* work: what the parser lets in, the writer lets out.
THEOREM InvalidHasCause == Spec => []RefusedForCause
<1>1. Init => FInv
  BY InitFit
<1>2. FInv /\ [Next]_vars => FInv'
  BY NextFit
<1>3. FInv => RefusedForCause
  BY DEF FInv
<1> QED BY <1>1, <1>2, <1>3, PTL DEF Spec

-----------------------------------------------------------------------------
(***************************************************************************)
(* Sessions one after the other.  While none began during another's work,  *)
(* what the active one found is still there, or hidden by it.              *)
(***************************************************************************)
Active == {s \in Sessions : pc[s] \notin Resting}

OneByOne ==
  /\ \A s, t \in Active : s = t
  /\ object # Lost
  /\ object = Hidden => \E s \in Sessions : pc[s] = "writing"
  /\ \A s \in Sessions :
       /\ pc[s] = "writing" => object = Hidden
       /\ pc[s] \in {"read", "played"} => object = Absent \/ Accepts(object)
       /\ pc[s] = "read" => mem[s] = IF object = Absent THEN Nothing ELSE Parsed(object)
       /\ pc[s] = "refused" => foreign /\ object \notin {Absent, Hidden} /\ ~Accepts(object)
  /\ ~foreign => object \in {Absent, Hidden} \/ (Accepts(object) /\ written = Parsed(object))

Count(n) == n - start \in Cardinality(reported) .. Cardinality(reported) + unsure

Counts ==
  /\ object = Absent => start = 0 /\ reported = {} /\ unsure = 0
  /\ IsDocument(object) => Count(Value(object, "play"))
  /\ \A s \in Sessions :
       /\ pc[s] = "played" => mem[s].v["play"] = Value(object, "play") + 1
       /\ pc[s] = "writing" => Count(mem[s].v["play"] - 1)

SInv ==
  /\ FInv
  /\ IsFiniteSet(reported)
  /\ \A s \in reported : pc[s] = "done"
  /\ ~overlap => OneByOne /\ Counts

LEMMA InitSequential ==
  ASSUME Init
  PROVE  SInv
<1>1. FInv
  BY InitFit
<1>2. IsFiniteSet(reported) /\ Cardinality(reported) = 0 /\ reported = {}
  BY FS_EmptySet DEF Init
<1>3. object \in {Absent, Junk} \/ WellFormed(object)
  BY StatsAssumption DEF Init
<1>4. OneByOne
  BY <1>3, StatsAssumption, DocumentFacts DEF Init, OneByOne, Active, Resting, IsDocument
<1>5. Counts
  <2>1. Value(object, "play") \in Nat /\ start = Value(object, "play") /\ unsure = 0
    BY <1>1 DEF FInv, Typed, Init
  <2>2. object = Absent => start = 0
    BY <2>1 DEF Value, IsDocument
  <2>3. Count(Value(object, "play"))
    BY <1>2, <2>1 DEF Count
  <2> QED BY <1>2, <2>1, <2>2, <2>3 DEF Counts, Init
<1> QED BY <1>1, <1>2, <1>4, <1>5 DEF SInv

LEMMA ReadSequential ==
  ASSUME SInv, NEW s \in Sessions, Read(s), ~overlap'
  PROVE  OneByOne' /\ Counts'
<1>1. ~overlap /\ \A t \in Sessions \ {s} : pc[t] \in Resting
  BY DEF Read, Others
<1>2. OneByOne /\ Counts /\ FInv
  BY <1>1 DEF SInv
<1>3. UNCHANGED <<object, start, foreign, written, reported, unsure>>
  BY DEF Read
<1>4. \A t \in Sessions : pc[t] # "writing" /\ pc[t] # "read" /\ pc[t] # "played"
  BY <1>1 DEF Read, Resting
<1>5. object \notin {Hidden, Lost}
  BY <1>2, <1>4 DEF OneByOne
<1>6. pc \in [Sessions -> Resting \cup {"read", "played", "writing"}] /\ mem \in [Sessions -> Stats]
  BY <1>2 DEF FInv, Typed
<1>7. CASE /\ object = Absent \/ Accepts(object)
           /\ mem' = [mem EXCEPT ![s] = IF object = Absent THEN Nothing ELSE Parsed(object)]
           /\ pc' = [pc EXCEPT ![s] = "read"]
  <2>1. OneByOne'
    <3>1. \A t \in Sessions : t # s => pc'[t] = pc[t] /\ pc'[t] \in Resting
      BY <1>1, <1>6, <1>7
    <3>2. pc'[s] = "read" /\ mem'[s] = IF object = Absent THEN Nothing ELSE Parsed(object)
      BY <1>6, <1>7
    <3>3. \A t, u \in Active' : t = u
      BY <3>1 DEF Active
    <3>4. \A t \in Sessions : pc'[t] = "refused" => pc[t] = "refused"
      BY <3>1, <3>2
    <3>5. \A t \in Sessions : t # s => pc'[t] \notin {"read", "played", "writing"}
      BY <3>1 DEF Resting
    <3> QED BY <1>2, <1>3, <1>5, <1>7, <3>2, <3>3, <3>4, <3>5 DEF OneByOne, Accepts, InRange, AchievementsOk, IsDocument, Parsed
  <2>2. Counts'
    <3>1. \A t \in Sessions : pc'[t] \notin {"played", "writing"}
      BY <1>4, <1>6, <1>7
    <3> QED BY <1>2, <1>3, <3>1 DEF Counts, Count, Value, IsDocument
  <2> QED BY <2>1, <2>2
<1>8. CASE object # Absent /\ ~Accepts(object) /\ pc' = [pc EXCEPT ![s] = "refused"] /\ UNCHANGED mem
  <2>1. foreign
    BY <1>2, <1>5, <1>8 DEF OneByOne
  <2>2. \A t \in Sessions : pc'[t] \in Resting
    BY <1>1, <1>6, <1>8 DEF Resting
  <2>3. \A t \in Sessions : pc'[t] \notin {"read", "played", "writing"}
    BY <2>2 DEF Resting
  <2>4. OneByOne'
    BY <1>2, <1>3, <1>5, <1>8, <2>1, <2>2, <2>3 DEF OneByOne, Active, Accepts, InRange, AchievementsOk, IsDocument
  <2>5. Counts'
    BY <1>2, <1>3, <2>3 DEF Counts, Count, Value, IsDocument
  <2> QED BY <2>4, <2>5
<1>9. \/ /\ object = Absent
         /\ mem' = [mem EXCEPT ![s] = Nothing] /\ pc' = [pc EXCEPT ![s] = "read"]
      \/ /\ object # Absent /\ Accepts(object)
         /\ mem' = [mem EXCEPT ![s] = Parsed(object)] /\ pc' = [pc EXCEPT ![s] = "read"]
      \/ object # Absent /\ ~Accepts(object) /\ pc' = [pc EXCEPT ![s] = "refused"] /\ UNCHANGED mem
  BY <1>2, <1>5, ReadStep
<1> QED BY <1>7, <1>8, <1>9

LEMMA PlaySequential ==
  ASSUME SInv, NEW s \in Sessions, Play(s), ~overlap'
  PROVE  OneByOne' /\ Counts'
<1>1. UNCHANGED <<object, start, foreign, written, reported, unsure, overlap>> /\ pc[s] = "read"
  BY DEF Play
<1>2. OneByOne /\ Counts /\ FInv
  BY <1>1 DEF SInv
<1>3. PICK st \in Stats :
        mem' = [mem EXCEPT ![s] = st] /\ st.v["play"] = mem[s].v["play"] + 1
  BY <1>2, PlayStep
<1>4. pc' = [pc EXCEPT ![s] = "played"]
  BY DEF Play
<1>5. /\ pc \in [Sessions -> Resting \cup {"read", "played", "writing"}]
      /\ mem \in [Sessions -> Stats]
  BY <1>2 DEF FInv, Typed
<1>6. \A t \in Sessions \ {s} : pc[t] \in Resting
  BY <1>1, <1>2 DEF OneByOne, Active, Resting
<1>7. \A t \in Sessions \ {s} : pc'[t] = pc[t] /\ pc'[t] \notin {"read", "played", "writing"}
  BY <1>4, <1>5, <1>6 DEF Resting
<1>8. pc'[s] = "played" /\ mem'[s] = st
  BY <1>3, <1>4, <1>5
<1>9. OneByOne'
  <2>1. \A t, u \in Active' : t = u
    BY <1>6, <1>7 DEF Active
  <2> QED BY <1>1, <1>2, <1>7, <1>8, <2>1 DEF OneByOne, Accepts, InRange, AchievementsOk, IsDocument, Parsed
<1>10. Counts'
  <2>1. mem[s].v["play"] = Value(object, "play")
    <3>1. CASE object = Absent
      BY <1>1, <1>2, <3>1, NothingIsGood DEF OneByOne, Value, IsDocument
    <3>2. CASE object # Absent
      <4>1. Accepts(object) /\ mem[s] = Parsed(object)
        BY <1>1, <1>2, <3>2 DEF OneByOne
      <4>2. WellFormed(object)
        BY <1>2, <4>1 DEF Accepts, IsDocument, FInv, Typed
      <4> QED BY <4>1, <4>2, ParsedIsGood
    <3> QED BY <3>1, <3>2
  <2>2. mem'[s].v["play"] = Value(object, "play") + 1
    BY <1>3, <1>8, <2>1
  <2> QED BY <1>1, <1>2, <1>7, <1>8, <2>2 DEF Counts, Count, Value, IsDocument
<1> QED BY <1>9, <1>10

LEMMA BeginWriteSequential ==
  ASSUME SInv, NEW s \in Sessions, BeginWrite(s), ~overlap'
  PROVE  OneByOne' /\ Counts'
<1>1. /\ UNCHANGED <<mem, start, foreign, written, reported, unsure, overlap>>
      /\ pc[s] = "played"
  BY DEF BeginWrite, history
<1>2. OneByOne /\ Counts /\ FInv
  BY <1>1 DEF SInv
<1>3. /\ pc \in [Sessions -> Resting \cup {"read", "played", "writing"}]
      /\ mem[s] \in Stats /\ start \in Nat
  BY <1>2 DEF FInv, Typed
<1>4. \A t \in Sessions \ {s} : pc[t] \in Resting
  BY <1>1, <1>2 DEF OneByOne, Active, Resting
<1>5. object = Absent \/ Accepts(object)
  BY <1>1, <1>2 DEF OneByOne
<1>6. object \notin {Hidden, Lost}
  BY <1>5, StatsAssumption DEF Accepts, IsDocument
<1>7. CASE pc' = [pc EXCEPT ![s] = "invalid"] /\ object' = object
  <2>1. \A t \in Sessions : IF t = s THEN pc'[t] = "invalid" ELSE pc'[t] = pc[t]
    BY <1>3, <1>7 DEF Resting
  <2>2. \A t \in Sessions : pc'[t] \in Resting
    BY <1>4, <2>1 DEF Resting
  <2>3. \A t \in Sessions : pc'[t] \notin {"read", "played", "writing"}
    BY <2>2 DEF Resting
  <2>4. \A t \in Sessions : pc'[t] = "refused" => pc[t] = "refused"
    BY <1>3, <1>7
  <2>5. OneByOne'
    BY <1>1, <1>2, <1>6, <1>7, <2>2, <2>3, <2>4 DEF OneByOne, Active, Accepts, InRange, AchievementsOk, IsDocument, Parsed
  <2>6. Counts'
    BY <1>1, <1>2, <1>7, <2>2 DEF Counts, Count, Value, IsDocument
  <2> QED BY <2>5, <2>6
<1>8. CASE pc' = [pc EXCEPT ![s] = "writing"] /\ object' = Hidden
  <2>1. pc'[s] = "writing" /\ \A t \in Sessions \ {s} : pc'[t] = pc[t] /\ pc'[t] \in Resting
    BY <1>3, <1>4, <1>8
  <2>2. \A t \in Sessions \ {s} : pc'[t] \notin {"read", "played", "writing"}
    BY <2>1 DEF Resting
  <2>3. \A t \in Sessions : pc[t] # "refused"
    BY <1>2, <1>5 DEF OneByOne
  <2>4. OneByOne'
    <3>1. \A t, u \in Active' : t = u
      BY <2>1 DEF Active
    <3> QED BY <1>8, <2>1, <2>2, <2>3, <3>1, StatsAssumption DEF OneByOne
  <2>5. Count(mem[s].v["play"] - 1)
    <3>1. mem[s].v["play"] = Value(object, "play") + 1
      BY <1>1, <1>2 DEF Counts
    <3>2. Value(object, "play") \in Nat
      BY <1>2, DocumentFacts DEF FInv, Typed, Value, IsDocument
    <3>3. Count(Value(object, "play"))
      <4>1. CASE object = Absent
        <5>1. start = 0 /\ unsure = 0 /\ Value(object, "play") = 0
          BY <1>2, <4>1 DEF Counts, Value, IsDocument
        <5>2. Cardinality(reported) = 0
          BY <1>2, <4>1, FS_EmptySet DEF Counts
        <5> QED BY <5>1, <5>2 DEF Count
      <4>2. CASE object # Absent
        BY <1>2, <1>5, <4>2 DEF Counts, Accepts
      <4> QED BY <4>1, <4>2
    <3>4. mem[s].v["play"] - 1 = Value(object, "play")
      BY <3>1, <3>2
    <3> QED BY <3>3, <3>4
  <2>6. Counts'
    <3>1. object' # Absent /\ ~IsDocument(object')
      BY <1>8, StatsAssumption DEF IsDocument
    <3>2. Count(mem[s].v["play"] - 1)'
      BY <1>1, <2>5 DEF Count
    <3> QED BY <2>1, <2>2, <3>1, <3>2 DEF Counts
  <2> QED BY <2>4, <2>6
<1> QED BY <1>6, <1>7, <1>8 DEF BeginWrite

LEMMA EndWriteSequential ==
  ASSUME SInv, NEW s \in Sessions, EndWrite(s), ~overlap'
  PROVE  OneByOne' /\ Counts'
<1>1. UNCHANGED <<mem, start, overlap>> /\ pc[s] = "writing"
  BY DEF EndWrite
<1>2. OneByOne /\ Counts /\ FInv /\ IsFiniteSet(reported) /\ s \notin reported
  BY <1>1 DEF SInv
<1>3. /\ pc \in [Sessions -> Resting \cup {"read", "played", "writing"}]
      /\ mem[s] \in Stats /\ Normal(mem[s]) /\ ValuesValid(mem[s])
      /\ start \in Nat /\ unsure \in Nat
  BY <1>1, <1>2 DEF FInv, Typed, Fit
<1>4. object' = Serialized(mem[s]) /\ written' = mem[s] /\ ~foreign'
  BY <1>2 DEF EndWrite, OneByOne
<1>5. /\ WellFormed(object') /\ Accepts(object') /\ Parsed(object') = mem[s]
      /\ Value(object', "play") = mem[s].v["play"]
      /\ IsDocument(object') /\ object' \notin {Absent, Hidden, Lost}
  BY <1>3, <1>4, SerializedIsRead, DocumentFacts DEF IsDocument
<1>6. \A t \in Sessions \ {s} : pc[t] \in Resting
  BY <1>1, <1>2 DEF OneByOne, Active, Resting
<1>7. \A t \in Sessions : pc[t] # "refused"
  <2>1. object = Hidden
    BY <1>1, <1>2 DEF OneByOne
  <2> QED BY <1>2, <2>1 DEF OneByOne
<1>8. PICK to \in {"done", "idle"} :
        /\ pc' = [pc EXCEPT ![s] = to]
        /\ to = "done" => reported' = reported \cup {s} /\ unsure' = unsure
        /\ to = "idle" => unsure' = unsure + 1 /\ reported' = reported
  BY DEF EndWrite
<1>9. \A t \in Sessions : pc'[t] \in Resting /\ pc'[t] \notin {"read", "played", "writing", "refused"}
  BY <1>3, <1>6, <1>7, <1>8 DEF Resting
<1>10. OneByOne'
  BY <1>4, <1>5, <1>9 DEF OneByOne, Active
<1>11. Counts'
  <2> DEFINE n == mem[s].v["play"]
  <2>1. n \in Nat /\ n - 1 - start \in Cardinality(reported) .. Cardinality(reported) + unsure
    BY <1>1, <1>2, <1>3 DEF Counts, Count, Stats, Numbers
  <2>2. Cardinality(reported) \in Nat
    BY <1>2, FS_CardinalityType
  <2>3. Cardinality(reported \cup {s}) = Cardinality(reported) + 1
    BY <1>2, FS_AddElement
  <2> HIDE DEF n
  <2>4. n - start \in Cardinality(reported') .. Cardinality(reported') + unsure'
    BY <1>3, <1>8, <2>1, <2>2, <2>3
  <2>5. Count(Value(object, "play"))'
    BY <1>1, <1>5, <2>4 DEF Count, n
  <2> QED BY <1>5, <1>9, <2>5 DEF Counts
<1> QED BY <1>10, <1>11

LEMMA WriteFailsSequential ==
  ASSUME SInv, NEW s \in Sessions, WriteFails(s), ~overlap'
  PROVE  OneByOne' /\ Counts'
<1>1. UNCHANGED <<object, mem, start, foreign, written, reported, unsure, overlap>> /\ pc[s] = "played"
  BY DEF WriteFails, history
<1>2. OneByOne /\ Counts /\ FInv
  BY <1>1 DEF SInv
<1>3. pc \in [Sessions -> Resting \cup {"read", "played", "writing"}] /\ pc' = [pc EXCEPT ![s] = "idle"]
  BY <1>2 DEF FInv, Typed, WriteFails
<1>4. \A t \in Sessions : pc'[t] \in Resting /\ pc'[t] \notin {"read", "played", "writing"}
  BY <1>1, <1>2, <1>3 DEF OneByOne, Active, Resting
<1>5. \A t \in Sessions : pc'[t] = "refused" => pc[t] = "refused"
  BY <1>3
<1>6. object # Hidden
  BY <1>1, <1>2, StatsAssumption DEF OneByOne, Accepts, IsDocument
<1>7. OneByOne'
  BY <1>1, <1>2, <1>4, <1>5, <1>6 DEF OneByOne, Active, Accepts, InRange, AchievementsOk, IsDocument, Parsed
<1>8. Counts'
  BY <1>1, <1>2, <1>4 DEF Counts, Count, Value, IsDocument
<1> QED BY <1>7, <1>8

LEMMA NextSequential ==
  ASSUME SInv, [Next]_vars
  PROVE  SInv'
<1>1. FInv'
  BY NextFit DEF SInv
<1>2. IsFiniteSet(reported') /\ \A t \in reported' : pc'[t] = "done"
  <2>1. ASSUME NEW s \in Sessions, EndWrite(s)
        PROVE  IsFiniteSet(reported') /\ \A t \in reported' : pc'[t] = "done"
    <3>1. PICK to \in {"done", "idle"} :
            pc' = [pc EXCEPT ![s] = to] /\ reported' = IF to = "done" THEN reported \cup {s} ELSE reported
      BY <2>1 DEF EndWrite
    <3>2. pc[s] # "done"
      BY <2>1 DEF EndWrite
    <3>3. IsFiniteSet(reported')
      BY <3>1, FS_AddElement DEF SInv
    <3> QED BY <3>1, <3>2, <3>3 DEF SInv, FInv, Typed
  <2>2. ASSUME NEW s \in Sessions, Read(s) \/ Play(s) \/ BeginWrite(s) \/ WriteFails(s) \/ Dies(s)
        PROVE  UNCHANGED reported /\ pc[s] # "done" /\ \E to : pc' = [pc EXCEPT ![s] = to]
    BY <2>2 DEF Read, Play, BeginWrite, WriteFails, Dies, history
  <2>3. CASE UNCHANGED vars
    BY <2>3 DEF vars, history, SInv
  <2>4. ASSUME NEW s \in Sessions, UNCHANGED reported, pc[s] # "done", \E to : pc' = [pc EXCEPT ![s] = to]
        PROVE  IsFiniteSet(reported') /\ \A t \in reported' : pc'[t] = "done"
    BY <2>4 DEF SInv, FInv, Typed
  <2> QED BY <2>1, <2>2, <2>3, <2>4 DEF Next
<1>3. ASSUME ~overlap'
      PROVE  OneByOne' /\ Counts'
  <2>1. ASSUME NEW s \in Sessions, Dies(s)
        PROVE  FALSE
    BY <1>3, <2>1 DEF Dies
  <2>2. CASE UNCHANGED vars
    <3>1. OneByOne /\ Counts
      BY <1>3, <2>2 DEF vars, history, SInv
    <3> QED BY <2>2, <3>1 DEF vars, history, OneByOne, Active, Counts, Count, Accepts, InRange, AchievementsOk, IsDocument, Parsed, Value
  <2> QED BY <1>3, <2>1, <2>2, ReadSequential, PlaySequential, BeginWriteSequential, EndWriteSequential, WriteFailsSequential
          DEF Next
<1> QED BY <1>1, <1>2, <1>3 DEF SInv

LEMMA SInvHolds == Spec => []SInv
<1>1. Init => SInv
  BY InitSequential
<1>2. SInv /\ [Next]_vars => SInv'
  BY NextSequential
<1> QED BY <1>1, <1>2, PTL DEF Spec

\* What this library wrote it reads again, field by field, flags included, and
\* never refuses, for sessions that do not overlap.
THEOREM WritesAreRead == Spec => []ReadsWhatWasWritten
<1>1. SInv => ReadsWhatWasWritten
  BY DEF SInv, OneByOne, ReadsWhatWasWritten, IsDocument
<1> QED BY <1>1, SInvHolds, PTL

\* Any number of sessions, one after the other, add up: each whose write reported
\* success counts once, one whose write failed late counts at most twice.
THEOREM SessionsAddUp == Spec => []AddsUp
<1>1. SInv => AddsUp
  BY DEF SInv, Counts, Count, AddsUp
<1> QED BY <1>1, SInvHolds, PTL
=============================================================================
