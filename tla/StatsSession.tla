---------------------------- MODULE StatsSession ----------------------------
(***************************************************************************)
(* Runtime statistics (src/src/mutable_stats.c) and the sessions that keep *)
(* them: a session reads the object, adds what it played, and writes the   *)
(* sum back, as docs/INTEGRATION.md advises.  Reading and writing are two  *)
(* calls, and no lock is held from the one to the other.                   *)
(*                                                                         *)
(* A STATS document is a function from the names that occur in it to       *)
(* numbers; "achievements" stands for the nested object and "percent" for  *)
(* the three fields that have a small range.  The struct that callers see  *)
(* has a number for every name and flags for those that count.             *)
(*                                                                         *)
(* The object is what MutableCommit shows it to be: it cannot be seen while*)
(* it is written, nor after a writer died; and a writer that finds it in   *)
(* that state makes a second one, after which neither can be used.         *)
(***************************************************************************)
EXTENDS Integers, FiniteSets

CONSTANTS
  Sessions,
  Limit,        \* ROMX_MUTABLE_STATS_MAX_SAFE_INTEGER
  SmallLimit,   \* 100, for "percent"
  Times,        \* what a session's clock may show
  NoTime,       \* what it shows when the device has none
  ForeignDocs,  \* documents that other programs may have stored
  MaxAttempts,  \* bound on the attempts of a session
  Junk,         \* a document that is not of this schema
  Absent, Hidden, Lost

Numbers == {"play", "first", "last", "percent", "unlocked", "total", "hardcore"}
Flags == {"play", "first", "last", "percent", "achievements", "hardcore"}

\* The fields of the nested object occur only with it.
Nestings == {ns \in SUBSET (Numbers \cup {"achievements"}) :
               ns \cap {"unlocked", "total", "hardcore"} # {} => "achievements" \in ns}
WellFormed(x) == \E ns \in Nestings : x \in [ns -> Nat]

ASSUME StatsAssumption ==
  /\ Limit \in Nat
  /\ Times \subseteq 0 .. Limit
  /\ \A d \in ForeignDocs : WellFormed(d)
  /\ \A x \in {Absent, Hidden, Lost, Junk} : ~WellFormed(x)
  /\ Absent \notin {Hidden, Lost, Junk} /\ Hidden \notin {Lost, Junk} /\ Lost # Junk

VARIABLES
  object,    \* Absent, Hidden, Lost, or a document
  pc,        \* where each session is
  mem,       \* the statistics each session holds
  attempts,  \* writes each session has tried
  \* history:
  start,     \* what "play" was at first
  foreign,   \* the document is not this library's
  written,   \* the statistics written last
  reported,  \* sessions whose write reported success
  unsure,    \* writes that failed after the object was made active
  overlap,   \* some session began while another was at work, or died
  late       \* sessions with good reason to be refused

history == <<start, foreign, written, reported, unsure, overlap, late>>
vars == <<object, pc, mem, attempts, history>>

Nothing == [flags |-> {}, v |-> [n \in Numbers |-> 0]]

IsDocument(x) == x \notin {Absent, Hidden, Lost, Junk}
Value(x, n) == IF IsDocument(x) /\ n \in DOMAIN x THEN x[n] ELSE 0

Init ==
  /\ object \in {Absent, Junk} \cup ForeignDocs
  /\ pc = [s \in Sessions |-> "idle"]
  /\ mem = [s \in Sessions |-> Nothing]
  /\ attempts = [s \in Sessions |-> 0]
  /\ start = Value(object, "play")
  /\ foreign = (object # Absent)
  /\ written = Nothing
  /\ reported = {} /\ unsure = 0 /\ overlap = FALSE /\ late = {}

-----------------------------------------------------------------------------
(* romx_mutable_stats_parse_json.                                          *)

\* parse_achievements: the nested object has both totals, and they agree.
AchievementsOk(doc) ==
  "achievements" \in DOMAIN doc =>
    /\ {"unlocked", "total"} \subseteq DOMAIN doc
    /\ doc["unlocked"] <= doc["total"]
    /\ "hardcore" \in DOMAIN doc => doc["hardcore"] <= doc["unlocked"]

InRange(doc) ==
  /\ \A n \in DOMAIN doc \cap Numbers : doc[n] <= Limit
  /\ "percent" \in DOMAIN doc => doc["percent"] <= SmallLimit

\* Mutant: the parser does not compare the two times.
AcceptsAnyTimes(x) ==
  IsDocument(x) /\ InRange(x) /\ AchievementsOk(x)

Accepts(x) ==
  /\ IsDocument(x)
  /\ InRange(x)
  /\ AchievementsOk(x)
  /\ {"first", "last"} \subseteq DOMAIN x => x["first"] <= x["last"]

Parsed(doc) ==
  [flags |-> DOMAIN doc \cap Flags,
   v |-> [n \in Numbers |-> IF n \in DOMAIN doc THEN doc[n] ELSE 0]]

(* romx_mutable_stats_serialize_json.                                      *)

\* stats_values_valid; values without a flag are limited too.
ValuesValid(st) ==
  /\ "hardcore" \in st.flags => "achievements" \in st.flags
  /\ \A n \in Numbers : st.v[n] <= Limit
  /\ "percent" \in st.flags => st.v["percent"] <= SmallLimit
  /\ {"first", "last"} \subseteq st.flags => st.v["first"] <= st.v["last"]
  /\ "achievements" \in st.flags => st.v["unlocked"] <= st.v["total"]
  /\ "hardcore" \in st.flags => st.v["hardcore"] <= st.v["unlocked"]

\* Mutant: zeroes are left out.
SerializedNonzero(st) ==
  LET names == {n \in st.flags \cap Numbers : st.v[n] # 0} \cup
               (IF "achievements" \in st.flags THEN {"achievements", "unlocked", "total"} ELSE {})
  IN [n \in names |-> IF n = "achievements" THEN 0 ELSE st.v[n]]

Serialized(st) ==
  LET names == st.flags \cup (IF "achievements" \in st.flags THEN {"unlocked", "total"} ELSE {})
  IN [n \in names |-> IF n = "achievements" THEN 0 ELSE st.v[n]]

-----------------------------------------------------------------------------
Others(s) == Sessions \ {s}
Resting == {"idle", "done", "refused", "invalid", "full"}

\* romx_mutable_stats_read on a new reader.  To a session an object that cannot
\* be seen is one that is not there yet: it starts from nothing.
Read(s) ==
  /\ pc[s] = "idle"
  /\ attempts[s] < MaxAttempts
  /\ overlap' = (overlap \/ \E t \in Others(s) : pc[t] \notin Resting)
  /\ IF object \in {Absent, Hidden, Lost}
     THEN mem' = [mem EXCEPT ![s] = Nothing] /\ pc' = [pc EXCEPT ![s] = "read"]
     ELSE IF Accepts(object)
     THEN mem' = [mem EXCEPT ![s] = Parsed(object)] /\ pc' = [pc EXCEPT ![s] = "read"]
     ELSE pc' = [pc EXCEPT ![s] = "refused"] /\ UNCHANGED mem
  /\ UNCHANGED <<object, attempts, start, foreign, written, reported, unsure, late>>

\* External: the session adds one unit of play and stamps it with its clock, if
\* there is one.
Counted(st) ==
  [flags |-> st.flags \cup {"play"}, v |-> [st.v EXCEPT !["play"] = @ + 1]]

Stamped(st, now) ==
  [flags |-> st.flags \cup {"first", "last"},
   v |-> [st.v EXCEPT !["last"] = now, !["first"] = IF "first" \in st.flags THEN @ ELSE now]]

Play(s) ==
  /\ pc[s] = "read"
  /\ \E now \in Times \cup {NoTime} :
       LET st == IF now = NoTime THEN Counted(mem[s]) ELSE Stamped(Counted(mem[s]), now) IN
       /\ mem' = [mem EXCEPT ![s] = st]
       /\ late' = IF st.v["play"] > Limit \/ (now # NoTime /\ now < st.v["first"]) THEN late \cup {s} ELSE late
  /\ pc' = [pc EXCEPT ![s] = "played"]
  /\ UNCHANGED <<object, attempts, start, foreign, written, reported, unsure, overlap>>

\* romx_mutable_stats_write_path up to the record that hides the object.  A
\* second object is possible only beside one whose writer died.
BeginWrite(s) ==
  /\ pc[s] = "played"
  /\ \A t \in Others(s) : pc[t] # "writing"
  /\ IF ~ValuesValid(mem[s])
     THEN pc' = [pc EXCEPT ![s] = "invalid"] /\ UNCHANGED <<object, attempts>>
     ELSE IF object = Lost
     THEN pc' = [pc EXCEPT ![s] = "full"] /\ UNCHANGED <<object, attempts>>
     ELSE /\ pc' = [pc EXCEPT ![s] = "writing"]
          /\ object' = IF object = Hidden THEN Lost ELSE Hidden
          /\ attempts' = [attempts EXCEPT ![s] = @ + 1]
  /\ UNCHANGED <<mem, history>>

\* The record that makes the object active, and the sync behind it, which may
\* fail: then the caller is told of an error although the object is written.
EndWrite(s) ==
  /\ pc[s] = "writing"
  /\ object' = IF object = Lost THEN Lost ELSE Serialized(mem[s])
  /\ foreign' = FALSE
  /\ written' = mem[s]
  /\ \/ /\ pc' = [pc EXCEPT ![s] = "done"]
        /\ reported' = reported \cup {s}
        /\ UNCHANGED unsure
     \/ /\ pc' = [pc EXCEPT ![s] = "idle"]
        /\ unsure' = unsure + 1
        /\ UNCHANGED reported
  /\ UNCHANGED <<mem, attempts, start, overlap, late>>

\* Mutant: an error on the way is not reported.
WriteFailsUnreported(s) ==
  /\ pc[s] = "played"
  /\ attempts' = [attempts EXCEPT ![s] = @ + 1]
  /\ pc' = [pc EXCEPT ![s] = "done"]
  /\ reported' = reported \cup {s}
  /\ UNCHANGED <<object, mem, start, foreign, written, unsure, overlap, late>>

\* The write fails before anything is stored; the session reads again.
WriteFails(s) ==
  /\ pc[s] = "played"
  /\ attempts' = [attempts EXCEPT ![s] = @ + 1]
  /\ pc' = [pc EXCEPT ![s] = "idle"]
  /\ UNCHANGED <<object, mem, history>>

\* The process dies, or an error strikes, while the object is hidden.
Dies(s) ==
  /\ pc[s] = "writing"
  /\ pc' = [pc EXCEPT ![s] = "idle"]
  /\ overlap' = TRUE
  /\ UNCHANGED <<object, mem, attempts, start, foreign, written, reported, unsure, late>>

Next == \E s \in Sessions :
  Read(s) \/ Play(s) \/ BeginWrite(s) \/ EndWrite(s) \/ WriteFails(s) \/ Dies(s)

Spec == Init /\ [][Next]_vars

-----------------------------------------------------------------------------
\* What can be read can be written back: a session is told that its values are
\* invalid only when it counted past the limit or its clock went backwards.
RefusedForCause == \A s \in Sessions : pc[s] = "invalid" => s \in late

\* What this library wrote it reads again, field by field, flags included.
ReadsWhatWasWritten ==
  (~foreign /\ ~overlap) =>
    \A s \in Sessions :
      /\ pc[s] # "refused" 
      /\ (pc[s] = "read" /\ IsDocument(object)) => mem[s] = written

\* Sessions one after the other add up: every session whose write succeeded is
\* counted once, and nothing else is but the writes that failed after they had
\* been made, which a session that tries again counts twice.
AddsUp ==
  (~overlap /\ IsDocument(object)) =>
    Value(object, "play") - start \in Cardinality(reported) .. Cardinality(reported) + unsure
=============================================================================
