--------------------------- MODULE EntryAccessProofs ---------------------------
(***************************************************************************)
(* Cursors, for any number of threads, words of any size and any entry,    *)
(* and the mapping, for pages of any size.                                 *)
(***************************************************************************)
EXTENDS EntryAccess, SequenceTheorems, TLAPS

Words == 0 .. Modulus - 1
Job == [at : Nat, want : Nat, buf : Seq(Nat), placed : BOOLEAN]

Typed ==
  /\ entry \in Entries
  /\ build \in Builds
  /\ pos \in [Cursors -> Words]
  /\ ideal = pos
  /\ job \in [Cursors -> Job]
  /\ fd \in Nat
  /\ crossed \in BOOLEAN

\* A read in progress that no other read crosses has the descriptor to itself.
JobSound(c) ==
  Busy(c) =>
    /\ job[c].at = entry.offset + pos[c]
    /\ job[c].want > 0
    /\ pos[c] + job[c].want <= entry.size
    /\ Len(job[c].buf) <= job[c].want
    /\ ~crossed /\ job[c].placed => fd = NextAt(c)
    /\ build = "pread" \/ ~crossed =>
         \A i \in 1 .. Len(job[c].buf) : job[c].buf[i] = entry.offset + pos[c] + i - 1

OneAtATime == ~crossed => \A c, d \in Cursors : Busy(c) /\ Busy(d) => c = d

Sound ==
  /\ Typed
  /\ OneAtATime
  /\ \A c \in Cursors : JobSound(c)

-----------------------------------------------------------------------------
LEMMA EntrySizes ==
  ASSUME Typed
  PROVE  entry.offset \in Nat /\ entry.size \in 0 .. Modulus - 1 /\ Modulus \in Nat
  BY AccessAssumption DEF Typed

LEMMA NoJobIsJob == NoJob \in Job
<1>1. <<>> \in Seq(Nat)
  OBVIOUS
<1> QED BY <1>1 DEF NoJob, Job

LEMMA InitSound == Init => Sound
<1> SUFFICES ASSUME Init PROVE Sound
  OBVIOUS
<1>1. 0 \in Words
  BY AccessAssumption DEF Init, Words
<1>2. Typed
  BY <1>1, NoJobIsJob DEF Init, Typed
<1>3. \A c \in Cursors : ~Busy(c)
  BY DEF Init, Busy
<1> QED BY <1>2, <1>3 DEF Sound, OneAtATime, JobSound

\* A seek that is allowed stays within the words.
LEMMA Reaches ==
  ASSUME NEW base \in Words, NEW offset \in Offsets, Modulus \in Nat, InReach(base, offset)
  PROVE  base + offset \in Words /\ (base + offset) % Modulus = base + offset
<1>1. base \in Nat /\ base < Modulus /\ offset \in Int
  BY DEF Words, Offsets
<1>2. base + offset >= 0 /\ base + offset < Modulus
  <2>1. CASE offset < 0
    BY <1>1, <2>1 DEF InReach, Magnitude
  <2>2. CASE ~(offset < 0)
    BY <1>1, <2>2 DEF InReach, Magnitude
  <2> QED BY <2>1, <2>2
<1> QED BY <1>1, <1>2 DEF Words

LEMMA SeekSound == ASSUME Sound, NEW c \in Cursors, Seek(c) PROVE Sound'
<1>0. Typed /\ entry.offset \in Nat /\ entry.size \in Words /\ Modulus \in Nat /\ ideal = pos
  BY EntrySizes DEF Sound, Typed, Words
<1>1. PICK origin \in {"start", "current", "end"}, offset \in Offsets :
        LET base == Base(c, origin)
            place == CASE origin = "start" -> 0 [] origin = "current" -> ideal[c] [] origin = "end" -> entry.size
        IN /\ InReach(base, offset)
           /\ pos' = [pos EXCEPT ![c] = (base + offset) % Modulus]
           /\ ideal' = [ideal EXCEPT ![c] = place + offset]
  BY DEF Seek
<1>2. /\ ~Busy(c)
      /\ UNCHANGED <<entry, build, job, fd, crossed>>
  BY DEF Seek
<1>3. PICK base \in Words : /\ InReach(base, offset)
                            /\ pos' = [pos EXCEPT ![c] = (base + offset) % Modulus]
                            /\ ideal' = [ideal EXCEPT ![c] = base + offset]
  <2>1. 0 \in Words /\ pos[c] \in Words
    BY <1>0 DEF Typed, Words
  <2>2. CASE origin = "start"
    BY <1>1, <2>1, <2>2 DEF Base
  <2>3. CASE origin = "current"
    BY <1>0, <1>1, <2>1, <2>3 DEF Base
  <2>4. CASE origin = "end"
    BY <1>0, <1>1, <2>4 DEF Base
  <2> QED BY <2>2, <2>3, <2>4
<1>4. base + offset \in Words /\ (base + offset) % Modulus = base + offset
  BY <1>0, <1>3, Reaches
<1>5. Typed'
  BY <1>0, <1>2, <1>3, <1>4 DEF Typed
<1>6. \A d \in Cursors : Busy(d)' <=> Busy(d)
  BY <1>2 DEF Busy
<1>7. ASSUME NEW d \in Cursors, Busy(d) PROVE pos'[d] = pos[d] /\ job'[d] = job[d] /\ NextAt(d)' = NextAt(d)
  BY <1>0, <1>2, <1>3, <1>7 DEF Typed, NextAt
<1>8. \A d \in Cursors : JobSound(d)'
  BY <1>2, <1>6, <1>7 DEF Sound, JobSound
<1> QED BY <1>2, <1>5, <1>6, <1>8 DEF Sound, OneAtATime

LEMMA BeginSound == ASSUME Sound, NEW c \in Cursors, BeginRead(c) PROVE Sound'
<1>0. Typed /\ entry.offset \in Nat /\ entry.size \in Nat /\ pos[c] \in Nat
  BY EntrySizes DEF Sound, Typed, Words
<1>1. PICK n \in 1 .. MaxRead :
        job' = [job EXCEPT ![c] = [at |-> entry.offset + pos[c],
                                   want |-> IF n < entry.size - pos[c] THEN n ELSE entry.size - pos[c],
                                   buf |-> <<>>, placed |-> FALSE]]
  BY DEF BeginRead
<1>2. /\ ~Busy(c) /\ pos[c] < entry.size
      /\ crossed' = (crossed \/ \E d \in Cursors \ {c} : Busy(d))
      /\ UNCHANGED <<entry, build, pos, fd, ideal>>
  BY DEF BeginRead
<1> DEFINE want == IF n < entry.size - pos[c] THEN n ELSE entry.size - pos[c]
<1>3. want \in Nat /\ want > 0 /\ pos[c] + want <= entry.size
  BY <1>0, <1>2, AccessAssumption
<1> HIDE DEF want
<1>4. job' = [job EXCEPT ![c] = [at |-> entry.offset + pos[c], want |-> want, buf |-> <<>>, placed |-> FALSE]]
  BY <1>1 DEF want
<1>5. Typed'
  <2>1. <<>> \in Seq(Nat)
    OBVIOUS
  <2>2. [at |-> entry.offset + pos[c], want |-> want, buf |-> <<>>, placed |-> FALSE] \in Job
    BY <1>0, <1>3, <2>1 DEF Job
  <2> QED BY <1>0, <1>2, <1>4, <2>2 DEF Typed
<1>6. JobSound(c)'
  <2>1. job'[c] = [at |-> entry.offset + pos[c], want |-> want, buf |-> <<>>, placed |-> FALSE]
    BY <1>0, <1>4 DEF Typed
  <2>2. Len(job'[c].buf) = 0
    BY <2>1
  <2> QED BY <1>2, <1>3, <2>1, <2>2 DEF JobSound
<1>7. ASSUME NEW d \in Cursors, d # c PROVE JobSound(d)' /\ (Busy(d)' <=> Busy(d))
  <2>1. job'[d] = job[d]
    BY <1>0, <1>4, <1>7 DEF Typed
  <2> QED BY <1>2, <2>1 DEF Sound, JobSound, Busy, NextAt
<1>8. OneAtATime'
  BY <1>0, <1>2, <1>7 DEF Sound, OneAtATime, Typed
<1> QED BY <1>5, <1>6, <1>7, <1>8 DEF Sound

LEMMA RepositionSound == ASSUME Sound, NEW c \in Cursors, Reposition(c) PROVE Sound'
<1>0. Typed /\ JobSound(c) /\ OneAtATime
  BY DEF Sound
<1>1. /\ Busy(c) /\ fd' = NextAt(c) /\ job' = [job EXCEPT ![c].placed = TRUE]
      /\ UNCHANGED <<entry, build, pos, crossed, ideal>>
  BY DEF Reposition
<1>2. job[c] \in Job /\ Len(job[c].buf) \in Nat /\ job[c].at \in Nat
  BY <1>0 DEF Typed, Job
<1>3. /\ job'[c] = [job[c] EXCEPT !.placed = TRUE]
      /\ job'[c].at = job[c].at /\ job'[c].want = job[c].want /\ job'[c].buf = job[c].buf
      /\ job'[c] \in Job
  BY <1>0, <1>1, <1>2 DEF Typed, Job
<1>4. Typed'
  <2>1. job' \in [Cursors -> Job]
    BY <1>0, <1>1, <1>3 DEF Typed
  <2>2. fd' \in Nat
    BY <1>1, <1>2 DEF NextAt
  <2> QED BY <1>0, <1>1, <2>1, <2>2 DEF Typed
<1>5. JobSound(c)'
  BY <1>0, <1>1, <1>3 DEF JobSound, NextAt
<1>6. ASSUME NEW d \in Cursors, d # c PROVE JobSound(d)' /\ (Busy(d)' <=> Busy(d))
  <2>1. job'[d] = job[d]
    BY <1>0, <1>1, <1>6 DEF Typed
  <2>2. Busy(d) => crossed
    BY <1>0, <1>1, <1>6 DEF OneAtATime
  <2> QED BY <1>1, <2>1, <2>2 DEF Sound, JobSound, Busy, NextAt
<1>7. OneAtATime'
  BY <1>0, <1>1, <1>6 DEF OneAtATime
<1> QED BY <1>4, <1>5, <1>6, <1>7 DEF Sound

LEMMA TransferSound == ASSUME Sound, NEW c \in Cursors, Transfer(c) PROVE Sound'
<1>0. Typed /\ JobSound(c) /\ OneAtATime /\ entry.offset \in Nat /\ pos[c] \in Nat
  BY EntrySizes DEF Sound, Typed, Words
<1> DEFINE from == IF build = "lseek" THEN fd ELSE NextAt(c)
<1>1. PICK n \in 1 .. Missing(c) :
        /\ job' = [job EXCEPT ![c].buf = @ \o [i \in 1 .. n |-> Byte(from + i - 1)], ![c].placed = FALSE]
        /\ fd' = IF build = "lseek" THEN from + n ELSE fd
  BY DEF Transfer
<1>2. /\ Busy(c) /\ (build = "lseek" => job[c].placed)
      /\ UNCHANGED <<entry, build, pos, crossed, ideal>>
  BY DEF Transfer
<1>3. /\ job[c] \in Job /\ job[c].buf \in Seq(Nat) /\ Len(job[c].buf) \in Nat
      /\ job[c].at \in Nat /\ job[c].want \in Nat /\ fd \in Nat
  BY <1>0 DEF Typed, Job
<1>4. from \in Nat /\ n \in Nat /\ Len(job[c].buf) + n <= job[c].want
  BY <1>3, SMTT(60) DEF NextAt, Missing
<1>5. build = "pread" \/ ~crossed => from = job[c].at + Len(job[c].buf)
  BY <1>0, <1>2, AccessAssumption DEF Typed, JobSound, NextAt
<1> HIDE DEF from
<1> DEFINE piece == [i \in 1 .. n |-> Byte(from + i - 1)]
           buf == job[c].buf \o piece
<1>6. piece \in Seq(Nat) /\ Len(piece) = n /\ \A i \in 1 .. n : piece[i] = from + i - 1
  <2>1. \A i \in 1 .. n : from + i - 1 \in Nat
    BY <1>4
  <2> QED BY <1>4, <2>1 DEF Byte
<1>7. /\ buf \in Seq(Nat) /\ Len(buf) = Len(job[c].buf) + n
      /\ \A i \in 1 .. Len(buf) :
           buf[i] = IF i <= Len(job[c].buf) THEN job[c].buf[i] ELSE piece[i - Len(job[c].buf)]
  <2> HIDE DEF piece
  <2>1. /\ job[c].buf \o piece \in Seq(Nat)
        /\ Len(job[c].buf \o piece) = Len(job[c].buf) + Len(piece)
        /\ \A i \in 1 .. Len(job[c].buf) + Len(piece) : (job[c].buf \o piece)[i] =
             IF i <= Len(job[c].buf) THEN job[c].buf[i] ELSE piece[i - Len(job[c].buf)]
    BY <1>3, <1>6, ConcatProperties
  <2> QED BY <1>6, <2>1
<1>8. job' = [job EXCEPT ![c] = [job[c] EXCEPT !.buf = buf, !.placed = FALSE]]
  BY <1>0, <1>1 DEF Typed
<1> HIDE DEF buf
<1>9. /\ job'[c].at = job[c].at /\ job'[c].want = job[c].want /\ job'[c].buf = buf
      /\ job'[c].placed = FALSE
      /\ job' \in [Cursors -> Job]
  <2> DEFINE new == [job[c] EXCEPT !.buf = buf, !.placed = FALSE]
  <2>1. new.at = job[c].at /\ new.want = job[c].want /\ new.buf = buf /\ new.placed = FALSE
    BY <1>3 DEF Job
  <2>2. new \in Job
    BY <1>3, <1>7 DEF Job
  <2> HIDE DEF new
  <2>3. job' = [job EXCEPT ![c] = new]
    BY <1>8 DEF new
  <2> QED BY <1>0, <2>1, <2>2, <2>3 DEF Typed
<1>10. Typed'
  BY <1>0, <1>1, <1>2, <1>3, <1>4, <1>9 DEF Typed
<1>11. JobSound(c)'
  <2>1. ASSUME build = "pread" \/ ~crossed, NEW i \in 1 .. Len(buf)
        PROVE  buf[i] = entry.offset + pos[c] + i - 1
    <3>0. i \in Nat /\ 1 <= i /\ i <= Len(job[c].buf) + n
      BY <1>3, <1>4, <1>7
    <3>1. CASE i <= Len(job[c].buf)
      <4>1. i \in 1 .. Len(job[c].buf)
        BY <1>3, <3>0, <3>1
      <4>2. buf[i] = job[c].buf[i]
        BY <1>7, <2>1, <3>1
      <4> QED BY <1>0, <1>2, <2>1, <4>1, <4>2 DEF JobSound
    <3>2. CASE ~(i <= Len(job[c].buf))
      <4>1. i - Len(job[c].buf) \in 1 .. n /\ buf[i] = piece[i - Len(job[c].buf)]
        BY <1>3, <1>4, <1>7, <3>0, <3>2
      <4>2. buf[i] = from + (i - Len(job[c].buf)) - 1
        BY <1>6, <4>1
      <4>3. from = entry.offset + pos[c] + Len(job[c].buf)
        BY <1>0, <1>2, <1>5, <2>1 DEF JobSound
      <4>4. from \in Int /\ Len(job[c].buf) \in Nat /\ entry.offset \in Nat /\ pos[c] \in Nat /\ i \in Nat
        BY <1>0, <1>3, <3>0, <4>3, SMTT(30)
      <4>5. from + (i - Len(job[c].buf)) - 1 = entry.offset + pos[c] + i - 1
        BY <4>3, <4>4
      <4> QED BY <4>2, <4>5
    <3> QED BY <3>1, <3>2
  <2>2. Len(buf) <= job[c].want
    BY <1>4, <1>7
  <2> QED BY <1>0, <1>2, <1>9, <2>1, <2>2 DEF JobSound
<1>12. ASSUME NEW d \in Cursors, d # c PROVE JobSound(d)' /\ (Busy(d)' <=> Busy(d))
  <2>1. job'[d] = job[d]
    BY <1>0, <1>8, <1>12 DEF Typed
  <2>2. Busy(d) => crossed
    BY <1>0, <1>2, <1>12 DEF OneAtATime
  <2> QED BY <1>2, <2>1, <2>2 DEF Sound, JobSound, Busy, NextAt
<1>13. OneAtATime'
  BY <1>0, <1>2, <1>12 DEF OneAtATime
<1> QED BY <1>10, <1>11, <1>12, <1>13 DEF Sound

LEMMA EndSound == ASSUME Sound, NEW c \in Cursors, EndRead(c) \/ FailRead(c) PROVE Sound'
<1>0. Typed /\ JobSound(c) /\ OneAtATime /\ entry.size \in 0 .. Modulus - 1 /\ Modulus \in Nat
      /\ pos[c] \in Nat /\ job[c].want \in Nat /\ ideal = pos
  BY EntrySizes DEF Sound, Typed, Words, Job
<1>1. /\ Busy(c) /\ job' = [job EXCEPT ![c] = NoJob]
      /\ UNCHANGED <<entry, build, fd, crossed>>
      /\ pos' \in {pos, [pos EXCEPT ![c] = pos[c] + job[c].want]}
      /\ ideal' = pos'
  BY <1>0 DEF EndRead, FailRead
<1>2. pos[c] + job[c].want \in Words
  BY <1>0, <1>1 DEF JobSound, Words
<1>3. pos' \in [Cursors -> Words] /\ \A d \in Cursors \ {c} : pos'[d] = pos[d]
  BY <1>0, <1>1, <1>2 DEF Typed
<1>4. Typed'
  BY <1>0, <1>1, <1>3, NoJobIsJob DEF Typed
<1>5. ~Busy(c)'
  BY <1>0, <1>1 DEF Typed, Busy
<1>6. ASSUME NEW d \in Cursors, d # c PROVE JobSound(d)' /\ (Busy(d)' <=> Busy(d))
  <2>1. job'[d] = job[d] /\ pos'[d] = pos[d]
    BY <1>0, <1>1, <1>3, <1>6 DEF Typed
  <2> QED BY <1>1, <2>1 DEF Sound, JobSound, Busy, NextAt
<1>7. OneAtATime'
  BY <1>0, <1>1, <1>5, <1>6 DEF OneAtATime
<1> QED BY <1>4, <1>5, <1>6, <1>7 DEF Sound, JobSound

\* For words, entries and threads of any number: the invariant that the
\* properties below follow from (src/src/payload_file.c:123-223).
THEOREM CursorsSound == Spec => []Sound
<1>1. Sound /\ [Next]_vars => Sound'
  <2> SUFFICES ASSUME Sound, [Next]_vars PROVE Sound'
    OBVIOUS
  <2>1. CASE \E c \in Cursors : Seek(c) \/ BeginRead(c) \/ Reposition(c) \/ Transfer(c) \/ EndRead(c) \/ FailRead(c)
    BY <2>1, SeekSound, BeginSound, RepositionSound, TransferSound, EndSound
  <2>2. CASE UNCHANGED <<entry, build, cursor>>
    BY <2>2 DEF cursor, Sound, Typed, OneAtATime, JobSound, Busy, NextAt
  <2>3. CASE Reserve \/ MapMiddle \/ CopyFirst \/ CopyLast \/ HandOut \/ CloseMapping
    BY <2>2, <2>3 DEF Reserve, MapMiddle, CopyFirst, CopyLast, HandOut, CloseMapping, Try, Skip
  <2> QED BY <2>1, <2>2, <2>3 DEF Next, vars
<1> QED BY <1>1, InitSound, PTL DEF Spec

-----------------------------------------------------------------------------
\* For words of any size: a seek lands where it should or is refused
\* (src/src/payload_file.c:123-190).
THEOREM SeeksExact == Spec => []SeekIsExact
<1>1. Sound => SeekIsExact
  BY DEF Sound, Typed, SeekIsExact
<1> QED BY <1>1, CursorsSound, PTL

\* For any number of threads: a read returns the entry's bytes and no others
\* (src/src/payload_file.c:192-223, src/src/io_file.c:326-348).
THEOREM ReadsExact == Spec => []ReadIsExact
<1>1. Sound => ReadIsExact
  <2> SUFFICES ASSUME Sound, build = "pread" \/ ~crossed, NEW c \in Cursors, Busy(c)
               PROVE  /\ ideal[c] + job[c].want <= entry.size
                      /\ job[c].buf = [i \in 1 .. Len(job[c].buf) |-> Byte(entry.offset + ideal[c] + i - 1)]
    BY DEF ReadIsExact
  <2>1. job[c].buf \in Seq(Nat) /\ ideal = pos
    BY DEF Sound, Typed, Job
  <2>2. \A i \in 1 .. Len(job[c].buf) : job[c].buf[i] = Byte(entry.offset + ideal[c] + i - 1)
    BY <2>1 DEF Sound, JobSound, Byte
  <2>3. job[c].buf = [i \in 1 .. Len(job[c].buf) |-> job[c].buf[i]]
    BY <2>1
  <2> QED BY <2>1, <2>2, <2>3 DEF Sound, JobSound
<1> QED BY <1>1, CursorsSound, PTL

-----------------------------------------------------------------------------
(***************************************************************************)
(* The mapping, for pages of any size and entries that begin and end       *)
(* anywhere: it is built in the order middle, first page, last page.       *)
(***************************************************************************)
LEMMA FloorFacts ==
  ASSUME NEW x \in Nat
  PROVE  /\ Floor(x) \in Nat /\ Floor(x) <= x /\ x < Floor(x) + Page
         /\ Floor(x) = (x \div Page) * Page
         /\ x % Page = 0 <=> Floor(x) = x
<1> DEFINE d == x \div Page  m == x % Page
<1>1. d \in Nat /\ m \in 0 .. Page - 1 /\ x = d * Page + m
  BY AccessAssumption
<1>2. Page \in Nat \ {0} /\ d * Page \in Nat
  BY <1>1, AccessAssumption
<1>3. Floor(x) = x - m
  BY DEF Floor
<1> HIDE DEF d, m
<1>4. x - m = d * Page
  BY <1>1, <1>2
<1>5. /\ x - m \in Nat /\ x - m <= x /\ x < (x - m) + Page
      /\ m = 0 <=> x - m = x
  BY <1>1, <1>2, <1>4
<1> QED BY <1>3, <1>4, <1>5 DEF d, m

\* Two offsets are on one page, or the later one is on a later page.
LEMMA FloorSteps ==
  ASSUME NEW x \in Nat, NEW y \in Nat, x <= y
  PROVE  /\ Floor(x) = Floor(y) <=> x \div Page = y \div Page
         /\ Floor(x) = Floor(y) \/ Floor(x) + Page <= Floor(y)
<1> DEFINE a == x \div Page  b == y \div Page
<1>1. a \in Nat /\ b \in Nat /\ Page \in Nat \ {0}
  BY AccessAssumption
<1>2. Floor(x) = a * Page /\ Floor(y) = b * Page /\ Floor(x) <= x /\ y < Floor(y) + Page
  BY FloorFacts
<1> HIDE DEF a, b
<1>3. a * Page \in Nat /\ b * Page \in Nat
  BY <1>1
<1>4. b < a => b * Page + Page <= a * Page
  BY <1>1
<1>5. a < b => a * Page + Page <= b * Page
  BY <1>1
<1>6. ~(b < a)
  BY <1>1, <1>2, <1>3, <1>4
<1>7. a = b \/ a < b
  BY <1>1, <1>6
<1> QED BY <1>1, <1>2, <1>3, <1>5, <1>7 DEF a, b

LEMMA CeilingFacts ==
  ASSUME NEW x \in Nat
  PROVE  Ceiling(x) = IF Floor(x) = x THEN x ELSE Floor(x) + Page
<1> DEFINE y == (x + Page) - 1  f == Floor(x)  g == Floor(y)
<1>1. Page \in Nat \ {0} /\ y \in Nat /\ x <= y /\ y < x + Page /\ x + Page - 1 = y
  BY AccessAssumption
<1>2. f \in Nat /\ f <= x /\ x < f + Page /\ g \in Nat /\ g <= y /\ y < g + Page
  <2> HIDE DEF y
  <2> QED BY <1>1, FloorFacts
<1>3. f = g \/ f + Page <= g
  <2> HIDE DEF y
  <2> QED BY <1>1, FloorSteps
<1>4. Ceiling(x) = g
  BY <1>1 DEF Ceiling
<1>5. y = (x + Page) - 1
  OBVIOUS
<1>6. g # f => g < f + Page + Page
  <2> HIDE DEF f, g, y
  <2> QED BY <1>1, <1>2
<1>7. g # f => g = f + Page
  <2>1. f = (x \div Page) * Page /\ g = (y \div Page) * Page /\ x \div Page \in Nat /\ y \div Page \in Nat
    <3>1. x \div Page \in Nat /\ y \div Page \in Nat
      BY <1>1
    <3> HIDE DEF y
    <3> QED BY <1>1, <3>1, FloorFacts
  <2> HIDE DEF y, f, g
  <2>2. PICK a \in Nat, b \in Nat : f = a * Page /\ g = b * Page
    BY <2>1
  <2>3. a + 2 <= b => f + Page + Page <= g
    BY <1>1, <2>2
  <2>4. b < a => g + Page <= f
    BY <1>1, <2>2
  <2>5. g # f => b = a + 1
    BY <1>1, <1>2, <1>3, <1>6, <2>2, <2>3, <2>4
  <2> QED BY <1>1, <2>2, <2>5
<1> HIDE DEF f, g, y
<1>8. CASE f = x
  BY <1>1, <1>2, <1>4, <1>5, <1>7, <1>8 DEF f
<1>9. CASE f # x
  BY <1>1, <1>2, <1>4, <1>5, <1>7, <1>9 DEF f
<1> QED BY <1>8, <1>9

\* The pages an entry begins and ends on.
LEMMA Geometry ==
  ASSUME Typed, entry.size # 0
  PROVE  /\ Page \in Nat \ {0} /\ entry.offset \in Nat /\ Last \in Nat /\ entry.offset < Last
         /\ Aligned \in Nat /\ Aligned <= entry.offset /\ entry.offset < Aligned + Page
         /\ Floor(Last) \in Nat /\ Floor(Last) <= Last /\ Last < Floor(Last) + Page
         /\ Floor(Last) = Aligned \/ Aligned + Page <= Floor(Last)
         /\ Ceiling(entry.offset) = IF Aligned = entry.offset THEN entry.offset ELSE Aligned + Page
         /\ Ceiling(Last) = IF Floor(Last) = Last THEN Last ELSE Floor(Last) + Page
         /\ NeedsLast <=> Floor(Last) # Last /\ Floor(Last) # Aligned
<1>1. entry.offset \in Nat /\ entry.size \in Nat /\ Page \in Nat \ {0}
  BY EntrySizes, AccessAssumption
<1>2. Last \in Nat /\ entry.offset < Last /\ Last - 1 \in Nat /\ entry.offset <= Last - 1 /\ Last - 1 <= Last
  BY <1>1 DEF Last
<1>3. /\ Aligned \in Nat /\ Aligned <= entry.offset /\ entry.offset < Aligned + Page
      /\ Floor(Last) \in Nat /\ Floor(Last) <= Last /\ Last < Floor(Last) + Page
      /\ Last % Page = 0 <=> Floor(Last) = Last
  BY <1>1, <1>2, FloorFacts DEF Aligned
<1>4. Floor(Last) = Aligned \/ Aligned + Page <= Floor(Last)
  BY <1>1, <1>2, FloorSteps DEF Aligned
<1>5. NeedsLast <=> Floor(Last) # Last /\ Floor(Last) # Aligned
  <2>1. (Last - 1) \div Page = entry.offset \div Page <=> Aligned = Floor(Last - 1)
    BY <1>1, <1>2, FloorSteps DEF Aligned
  <2>2. Floor(Last) # Last => Floor(Last - 1) = Floor(Last)
    <3>1. Floor(Last - 1) = Floor(Last) \/ Floor(Last - 1) + Page <= Floor(Last)
      BY <1>2, FloorSteps
    <3>2. Floor(Last - 1) \in Nat /\ Last - 1 < Floor(Last - 1) + Page
      BY <1>2, FloorFacts
    <3> QED BY <1>1, <1>2, <1>3, <3>1, <3>2
  <2> QED BY <1>3, <2>1, <2>2 DEF NeedsLast
<1> QED BY <1>1, <1>2, <1>3, <1>4, <1>5, CeilingFacts DEF Aligned

InEntry(q) == entry.offset <= q /\ q < Last
InMiddle(q) == MiddleStart <= q /\ q < MiddleEnd

\* What the mapping has at a place is right.
Right(x) == IF InEntry(Aligned + x) THEN view[x] = Byte(Aligned + x) ELSE view[x] \in {Zero, Guarded}

MapSound ==
  /\ map \in {"none", "failed", "closed"} => view = NoView
  /\ map \in {"reserved", "middle", "first", "last", "ready"} => entry.size # 0 /\ DOMAIN view = Pages
  /\ map = "reserved" => \A x \in Pages : view[x] = Guarded
  /\ map \in {"middle", "first"} =>
       \A x \in Pages : map = "middle" \/ Page <= x =>
         view[x] = IF InMiddle(Aligned + x) THEN Byte(Aligned + x) ELSE Guarded
  /\ map = "first" => \A x \in Pages : x < Page => Right(x)
  /\ map \in {"last", "ready"} => \A x \in Pages : Right(x)

\* The middle is part of the entry, and what it lacks is on the first or the last page.
LEMMA MiddleFacts ==
  ASSUME Typed, entry.size # 0, NEW q \in Nat, Aligned <= q
  PROVE  /\ InMiddle(q) => InEntry(q)
         /\ entry.offset = Aligned /\ ~(Last < Aligned + Page) /\ q < Aligned + Page => InMiddle(q) /\ InEntry(q)
         /\ Aligned + Page <= q /\ InEntry(q) /\ ~InMiddle(q) => NeedsLast /\ Floor(Last) <= q
<1> DEFINE o == entry.offset  l == Last  a == Aligned  f == Floor(Last)
           s == IF o = a THEN o ELSE IF a + Page > l THEN l ELSE a + Page
           e == IF f < s THEN s ELSE f
<1>1. /\ Page \in Nat \ {0} /\ o \in Nat /\ l \in Nat /\ o < l /\ a \in Nat /\ a <= o /\ o < a + Page
      /\ f \in Nat /\ f <= l /\ l < f + Page
      /\ f = a \/ a + Page <= f
      /\ NeedsLast <=> f # l /\ f # a
  BY Geometry
<1>2. MiddleStart = s
  BY Geometry DEF MiddleStart
<1>3. MiddleEnd = e
  BY <1>2 DEF MiddleEnd
<1>4. (InEntry(q) <=> o <= q /\ q < l) /\ (InMiddle(q) <=> s <= q /\ q < e)
  BY <1>2, <1>3 DEF InEntry, InMiddle
<1> HIDE DEF o, l, a, f
<1>5. s \in Nat /\ o <= s /\ s <= l /\ (a + Page <= l => s <= a + Page) /\ (o = a => s = a)
  BY <1>1
<1>6. e \in Nat /\ e <= l /\ s <= e /\ f <= e
  BY <1>1, <1>5
<1>7. (s <= q /\ q < e) => (o <= q /\ q < l)
  <2> HIDE DEF s, e
  <2> QED BY <1>1, <1>5, <1>6
<1>8. (o = a /\ ~(l < a + Page) /\ q < a + Page /\ a <= q) => (s <= q /\ q < e)
  <2>1. o = a /\ ~(l < a + Page) => a + Page <= f
    BY <1>1
  <2> HIDE DEF s, e
  <2> QED BY <1>1, <1>5, <1>6, <2>1
<1>9. (a + Page <= q /\ o <= q /\ q < l /\ ~(s <= q /\ q < e)) => (f # l /\ f # a /\ f <= q)
  <2> SUFFICES ASSUME a + Page <= q, q < l, ~(s <= q /\ q < e)
               PROVE  f # l /\ f # a /\ f <= q
    OBVIOUS
  <2>1. s <= q
    <3> HIDE DEF s, e
    <3> QED BY <1>1, <1>5
  <2> HIDE DEF s, e
  <2>2. e <= q
    BY <1>5, <1>6, <2>1
  <2> QED BY <1>1, <1>6, <2>2
<1>10. a <= q
  BY DEF a
<1> HIDE DEF s, e
<1> QED BY <1>1, <1>4, <1>7, <1>8, <1>9, <1>10 DEF o, l, a, f

LEMMA PlacesOfPages ==
  ASSUME Typed, entry.size # 0, NEW x \in Pages
  PROVE  x \in Nat /\ Aligned + x \in Nat /\ Aligned <= Aligned + x /\ (x < Page <=> Aligned + x < Aligned + Page)
<1>1. Aligned \in Nat /\ Page \in Nat \ {0} /\ Last \in Nat /\ Floor(Last) \in Nat
  BY Geometry
<1>2. Ceiling(Last) \in Nat
  BY <1>1, Geometry
<1>3. x \in Nat
  BY <1>1, <1>2 DEF Pages
<1> QED BY <1>1, <1>3

\* A page of zeroes with the bytes from a up to b in it, laid over the view.
\* What a place of the view holds once a page with the bytes from a up to b was
\* copied over it.
Shown(start, a, b, x) ==
  IF start <= Aligned + x /\ Aligned + x < start + Page
  THEN IF a <= Aligned + x /\ Aligned + x < b THEN Byte(Aligned + x) ELSE Zero
  ELSE view[x]

LEMMA CopiedOver ==
  ASSUME NEW start \in Nat, NEW a \in Nat, NEW b \in Nat, Aligned \in Nat, Page \in Nat,
         NEW x \in DOMAIN view, x \in Nat
  PROVE  Over(view, Copied(start, a, b))[x] = Shown(start, a, b, x)
<1> DEFINE A == Aligned
<1>1. DOMAIN Copied(start, a, b) = start - A .. (start - A) + Page - 1
  BY DEF Copied
<1>2. x \in DOMAIN Copied(start, a, b) <=> start <= A + x /\ A + x < start + Page
  <2> HIDE DEF A
  <2>1. A \in Nat
    BY DEF A
  <2> QED BY <1>1, <2>1
<1>3. x \in DOMAIN Copied(start, a, b) =>
        Copied(start, a, b)[x] = IF A + x \in a .. b - 1 THEN Byte(A + x) ELSE Zero
  BY DEF Copied
<1>4. A + x \in a .. b - 1 <=> a <= A + x /\ A + x < b
  <2> HIDE DEF A
  <2>1. A \in Nat
    BY DEF A
  <2> QED BY <2>1
<1>5. Over(view, Copied(start, a, b))[x] = IF x \in DOMAIN Copied(start, a, b) THEN Copied(start, a, b)[x] ELSE view[x]
  BY DEF Over
<1> QED BY <1>2, <1>3, <1>4, <1>5 DEF Shown

LEMMA SameEntry ==
  ASSUME UNCHANGED entry
  PROVE  /\ UNCHANGED <<Last, Aligned, Delta, Pages, MiddleStart, MiddleEnd>>
         /\ \A q : UNCHANGED <<InEntry(q), InMiddle(q)>>
  BY DEF Last, Aligned, Delta, Pages, MiddleStart, MiddleEnd, InEntry, InMiddle

LEMMA GiveUpMap ==
  ASSUME MapSound, GiveUp
  PROVE  MapSound'
  BY DEF GiveUp, MapSound

\* Cursors do not touch the mapping.
LEMMA CursorMap ==
  ASSUME MapSound, UNCHANGED <<entry, mapping>>
  PROVE  MapSound'
<1>1. UNCHANGED <<map, view, entry, Pages, Aligned>> /\ \A q : UNCHANGED <<InEntry(q), InMiddle(q)>>
  BY SameEntry DEF mapping
<1>2. \A x : UNCHANGED Right(x)
  BY <1>1 DEF Right
<1> QED BY <1>1, <1>2 DEF MapSound

LEMMA ReserveMap ==
  ASSUME Typed, MapSound, Reserve
  PROVE  MapSound'
<1>1. CASE map' = "reserved" /\ view' = [x \in Pages |-> Guarded] /\ entry' = entry
  <2>1. Pages' = Pages /\ entry'.size # 0
    BY <1>1, SameEntry DEF Reserve
  <2>2. DOMAIN view' = Pages /\ \A x \in Pages : view'[x] = Guarded
    BY <1>1
  <2> HIDE DEF Pages
  <2> QED BY <1>1, <2>1, <2>2 DEF MapSound
<1> QED BY <1>1, GiveUpMap DEF Reserve, Try

LEMMA MiddleMap ==
  ASSUME Typed, MapSound, MapMiddle
  PROVE  MapSound'
<1>1. map = "reserved" /\ entry.size # 0 /\ DOMAIN view = Pages /\ \A x \in Pages : view[x] = Guarded
  BY DEF MapMiddle, MapSound
<1>2. CASE GiveUp
  BY <1>2, GiveUpMap
<1>3. CASE map' = "middle" /\ entry' = entry /\ view' = IF MiddleEnd > MiddleStart THEN Over(view, From(MiddleStart, MiddleEnd)) ELSE view
  <2>1. DOMAIN view' = Pages
    BY <1>1, <1>3 DEF Over
  <2>2. ASSUME NEW x \in Pages PROVE view'[x] = IF InMiddle(Aligned + x) THEN Byte(Aligned + x) ELSE Guarded
    <3>1. x \in Nat /\ Aligned + x \in Nat /\ Aligned \in Nat
      BY <1>1, PlacesOfPages, Geometry
    <3>2. MiddleStart \in Nat /\ MiddleEnd \in Nat
      <4>1. Ceiling(entry.offset) \in Nat /\ Last \in Nat /\ Floor(Last) \in Nat
        BY <1>1, Geometry
      <4> QED BY <4>1 DEF MiddleStart, MiddleEnd
    <3>3. CASE MiddleEnd > MiddleStart
      <4>1. DOMAIN From(MiddleStart, MiddleEnd) = {q - Aligned : q \in MiddleStart .. MiddleEnd - 1}
        BY DEF From
      <4>2. x \in DOMAIN From(MiddleStart, MiddleEnd) <=> InMiddle(Aligned + x)
        <5>1. ASSUME InMiddle(Aligned + x) PROVE x \in DOMAIN From(MiddleStart, MiddleEnd)
          <6>1. Aligned + x \in MiddleStart .. MiddleEnd - 1 /\ x = (Aligned + x) - Aligned
            BY <3>1, <3>2, <5>1 DEF InMiddle
          <6> QED BY <4>1, <6>1
        <5>2. ASSUME x \in DOMAIN From(MiddleStart, MiddleEnd) PROVE InMiddle(Aligned + x)
          <6>1. PICK q \in MiddleStart .. MiddleEnd - 1 : x = q - Aligned
            BY <4>1, <5>2
          <6>2. Aligned + x = q /\ MiddleStart <= q /\ q < MiddleEnd
            BY <3>1, <3>2, <6>1
          <6> QED BY <6>2 DEF InMiddle
        <5> QED BY <5>1, <5>2
      <4>3. view'[x] = IF x \in DOMAIN From(MiddleStart, MiddleEnd) THEN From(MiddleStart, MiddleEnd)[x] ELSE Guarded
        BY <1>1, <1>3, <3>3 DEF Over
      <4>4. x \in DOMAIN From(MiddleStart, MiddleEnd) => From(MiddleStart, MiddleEnd)[x] = Byte(Aligned + x)
        BY DEF From
      <4> QED BY <4>2, <4>3, <4>4
    <3>4. CASE ~(MiddleEnd > MiddleStart)
      <4>1. ~InMiddle(Aligned + x)
        BY <3>1, <3>2, <3>4 DEF InMiddle
      <4> QED BY <1>1, <1>3, <3>4, <4>1
    <3> QED BY <3>3, <3>4
  <2>3. UNCHANGED <<Pages, Aligned>> /\ \A q : UNCHANGED InMiddle(q)
    BY <1>3, SameEntry
  <2> QED BY <1>1, <1>3, <2>1, <2>2, <2>3 DEF MapSound
<1> QED BY <1>2, <1>3 DEF MapMiddle, Try, Skip

LEMMA FirstMap ==
  ASSUME Typed, MapSound, CopyFirst
  PROVE  MapSound'
<1> DEFINE needed == entry.offset # Aligned \/ Last < Aligned + Page
           new == IF needed THEN Over(view, Copied(Aligned, entry.offset, FirstEnd)) ELSE view
<1>1. /\ map = "middle" /\ entry.size # 0 /\ DOMAIN view = Pages
      /\ \A x \in Pages : view[x] = IF InMiddle(Aligned + x) THEN Byte(Aligned + x) ELSE Guarded
  BY DEF CopyFirst, MapSound
<1>2. CASE GiveUp
  BY <1>2, GiveUpMap
<1>3. CASE map' = "first" /\ entry' = entry /\ view' = new
  <2>0. Page \in Nat \ {0} /\ Aligned \in Nat /\ entry.offset \in Nat /\ Last \in Nat /\ FirstEnd \in Nat
    BY <1>1, Geometry DEF FirstEnd
  <2>1. DOMAIN view' = Pages
    BY <1>1, <1>3 DEF Over
  <2>2. ASSUME NEW x \in Pages
        PROVE  /\ Page <= x => view'[x] = IF InMiddle(Aligned + x) THEN Byte(Aligned + x) ELSE Guarded
               /\ x < Page => IF InEntry(Aligned + x) THEN view'[x] = Byte(Aligned + x) ELSE view'[x] \in {Zero, Guarded}
    <3> DEFINE q == Aligned + x
    <3>1. x \in Nat /\ q \in Nat /\ Aligned <= q /\ (x < Page <=> q < Aligned + Page)
      BY <1>1, PlacesOfPages
    <3>2. CASE needed
      <4>1. view'[x] = IF Aligned <= q /\ q < Aligned + Page
                       THEN IF entry.offset <= q /\ q < FirstEnd THEN Byte(q) ELSE Zero
                       ELSE view[x]
        <5>1. x \in DOMAIN view /\ view' = Over(view, Copied(Aligned, entry.offset, FirstEnd))
          BY <1>1, <1>3, <3>2
        <5>2. Over(view, Copied(Aligned, entry.offset, FirstEnd))[x] = Shown(Aligned, entry.offset, FirstEnd, x)
          BY <2>0, <3>1, <5>1, CopiedOver
        <5> QED BY <5>1, <5>2 DEF Shown
      <4> HIDE DEF q
      <4>2. q < Aligned + Page => (q < FirstEnd <=> q < Last)
        BY <2>0, <3>1 DEF FirstEnd
      <4>3. InEntry(q) <=> entry.offset <= q /\ q < Last
        BY DEF InEntry
      <4>4. ~(x < Page) <=> Page <= x
        BY <2>0, <3>1
      <4> QED BY <1>1, <3>1, <4>1, <4>2, <4>3, <4>4 DEF q
    <3>3. CASE ~needed
      <4>1. q < Aligned + Page => InMiddle(q) /\ InEntry(q)
        BY <1>1, <3>1, <3>3, MiddleFacts
      <4> QED BY <1>1, <1>3, <3>1, <3>3, <4>1
    <3> QED BY <3>2, <3>3
  <2>3. UNCHANGED <<Pages, Aligned>> /\ \A q : UNCHANGED <<InEntry(q), InMiddle(q)>>
    BY <1>3, SameEntry
  <2> HIDE DEF new
  <2>4. \A x \in Pages : x < Page => Right(x)'
    BY <2>2, <2>3 DEF Right
  <2> QED BY <1>1, <1>3, <2>1, <2>2, <2>3, <2>4 DEF MapSound
<1> QED BY <1>2, <1>3 DEF CopyFirst, Try, Skip

LEMMA LastMap ==
  ASSUME Typed, MapSound, CopyLast
  PROVE  MapSound'
<1> DEFINE f == Floor(Last)
           new == IF NeedsLast THEN Over(view, Copied(f, f, Last)) ELSE view
<1>1. /\ map = "first" /\ entry.size # 0 /\ DOMAIN view = Pages
      /\ \A x \in Pages : Page <= x => view[x] = IF InMiddle(Aligned + x) THEN Byte(Aligned + x) ELSE Guarded
      /\ \A x \in Pages : x < Page => Right(x)
  BY DEF CopyLast, MapSound
<1>2. CASE GiveUp
  BY <1>2, GiveUpMap
<1>3. CASE map' = "last" /\ entry' = entry /\ view' = new
  <2>0. /\ Page \in Nat \ {0} /\ Aligned \in Nat /\ entry.offset \in Nat /\ Last \in Nat /\ f \in Nat
        /\ entry.offset < Aligned + Page /\ Last < f + Page
        /\ NeedsLast => Aligned + Page <= f
    BY <1>1, Geometry
  <2>1. DOMAIN view' = Pages
    BY <1>1, <1>3 DEF Over
  <2>2. ASSUME NEW x \in Pages
        PROVE  IF InEntry(Aligned + x) THEN view'[x] = Byte(Aligned + x) ELSE view'[x] \in {Zero, Guarded}
    <3> DEFINE q == Aligned + x
    <3>1. x \in Nat /\ q \in Nat /\ Aligned <= q /\ (x < Page <=> q < Aligned + Page)
      BY <1>1, PlacesOfPages
    <3>2. InEntry(q) <=> entry.offset <= q /\ q < Last
      BY DEF InEntry
    <3>3. ASSUME NeedsLast
          PROVE  view'[x] = IF f <= q /\ q < f + Page
                            THEN IF f <= q /\ q < Last THEN Byte(q) ELSE Zero
                            ELSE view[x]
      <4>1. view' = Over(view, Copied(f, f, Last))
        BY <1>1, <1>3, <3>3
      <4>2. x \in DOMAIN view /\ x \in Nat /\ f \in Nat /\ Last \in Nat /\ Aligned \in Nat /\ Page \in Nat
        BY <1>1, <2>0, <3>1
      <4> HIDE DEF f
      <4>3. Over(view, Copied(f, f, Last))[x] = Shown(f, f, Last, x)
        BY <4>2, CopiedOver
      <4> QED BY <4>1, <4>3 DEF Shown
    <3>4. CASE NeedsLast /\ f <= q
      <4>1. view'[x] = IF f <= q /\ q < f + Page
                       THEN IF f <= q /\ q < Last THEN Byte(q) ELSE Zero
                       ELSE view[x]
        BY <3>4, <3>3
      <4> HIDE DEF q, f
      <4>2. entry.offset <= q /\ Aligned + Page <= q
        BY <2>0, <3>1, <3>4
      <4>3. CASE q < f + Page
        BY <3>2, <3>4, <4>1, <4>2, <4>3 DEF q
      <4>4. CASE ~(q < f + Page)
        <5>1. ~InEntry(q) /\ Page <= x
          BY <2>0, <3>1, <3>2, <4>2, <4>4
        <5>2. ~InMiddle(q)
          BY <1>1, <3>1, <5>1, MiddleFacts
        <5>3. view'[x] = Guarded
          BY <1>1, <4>1, <4>4, <5>1, <5>2 DEF q
        <5> QED BY <5>1, <5>3 DEF q
      <4> QED BY <4>3, <4>4
    <3>5. CASE ~(NeedsLast /\ f <= q)
      <4>1. view'[x] = view[x]
        <5>1. CASE NeedsLast
          BY <3>5, <3>3, <5>1
        <5>2. CASE ~NeedsLast
          BY <1>3, <5>2
        <5> QED BY <5>1, <5>2
      <4>2. CASE x < Page
        BY <1>1, <4>1, <4>2 DEF Right
      <4>3. CASE ~(x < Page)
        <5>1. Page <= x /\ Aligned + Page <= q
          BY <2>0, <3>1, <4>3
        <5>2. InEntry(q) <=> InMiddle(q)
          BY <1>1, <3>1, <3>5, <5>1, MiddleFacts
        <5> QED BY <1>1, <4>1, <5>1, <5>2
      <4> QED BY <4>2, <4>3
    <3> QED BY <3>4, <3>5
  <2>3. UNCHANGED <<Pages, Aligned>> /\ \A q : UNCHANGED InEntry(q)
    BY <1>3, SameEntry
  <2> HIDE DEF new
  <2>4. \A x \in Pages : Right(x)'
    BY <2>2, <2>3 DEF Right
  <2> QED BY <1>1, <1>3, <2>1, <2>3, <2>4 DEF MapSound
<1> QED BY <1>2, <1>3 DEF CopyLast, Try, Skip

LEMMA HandleMap ==
  ASSUME MapSound, HandOut \/ CloseMapping
  PROVE  MapSound'
<1>1. CASE map = "last" /\ map' = "ready" /\ view' = view /\ entry' = entry
  <2>1. UNCHANGED <<Pages, Aligned>> /\ \A q : UNCHANGED InEntry(q)
    BY <1>1, SameEntry
  <2>2. \A x : UNCHANGED Right(x)
    BY <1>1, <2>1 DEF Right
  <2> QED BY <1>1, <2>1, <2>2 DEF MapSound
<1>2. CASE map' = "closed" /\ view' = NoView
  BY <1>2 DEF MapSound
<1> QED BY <1>1, <1>2, GiveUpMap DEF HandOut, CloseMapping, Try

\* For pages of any size and entries that begin and end anywhere in one:
\* through a mapping one sees all of the entry and nothing else of the file, and
\* what could not be made or was closed leaves nothing accessible behind
\* (romx_file_map_payload in src/src/io_file.c).
THEOREM MappingExact == Spec => []MappedIsEntry
<1>1. Init => MapSound
  BY DEF Init, MapSound
<1>2. Sound /\ MapSound /\ [Next]_vars => MapSound'
  <2> SUFFICES ASSUME Sound, MapSound, [Next]_vars PROVE MapSound'
    OBVIOUS
  <2>1. Typed
    BY DEF Sound
  <2>2. CASE \E c \in Cursors : Seek(c) \/ BeginRead(c) \/ Reposition(c) \/ Transfer(c) \/ EndRead(c) \/ FailRead(c)
    BY <2>2, CursorMap DEF Seek, BeginRead, Reposition, Transfer, EndRead, FailRead
  <2>3. CASE UNCHANGED vars
    BY <2>3, CursorMap DEF vars
  <2> QED BY <2>1, <2>2, <2>3, ReserveMap, MiddleMap, FirstMap, LastMap, HandleMap DEF Next
<1>3. Sound /\ MapSound => MappedIsEntry
  <2> SUFFICES ASSUME Typed, MapSound PROVE MappedIsEntry
    BY DEF Sound
  <2>1. ASSUME map = "ready"
        PROVE  /\ Delta .. Delta + entry.size - 1 \subseteq DOMAIN view
               /\ \A x \in DOMAIN view :
                    IF Delta <= x /\ x < Delta + entry.size THEN view[x] = Byte(Aligned + x) ELSE view[x] \in {Zero, Guarded}
    <3>1. entry.size # 0 /\ DOMAIN view = Pages /\ \A x \in Pages : Right(x)
      BY <2>1 DEF MapSound
    <3> DEFINE o == entry.offset  z == entry.size  a == Aligned  l == Last
    <3>2. /\ o \in Nat /\ z \in Nat /\ a \in Nat /\ a <= o /\ l = o + z /\ Delta = o - a /\ Page \in Nat \ {0}
      BY <3>1, Geometry, EntrySizes DEF Last, Delta
    <3>3. Ceiling(Last) \in Nat /\ l <= Ceiling(Last)
      BY <3>1, Geometry
    <3>4. \A x \in Pages : x \in Nat
      BY <3>1, PlacesOfPages
    <3> HIDE DEF o, z, a, l
    <3>5. ASSUME NEW x \in (o - a) .. ((o - a) + z) - 1 PROVE x \in Pages
      <4>1. x \in Nat /\ x < Ceiling(Last) - a
        BY <3>2, <3>3
      <4> QED BY <3>2, <3>3, <4>1 DEF Pages, a
    <3>6. Delta .. Delta + entry.size - 1 = (o - a) .. ((o - a) + z) - 1
      <4>1. (o - a) + z - 1 = ((o - a) + z) - 1
        BY <3>2
      <4> QED BY <3>2, <4>1 DEF z
    <3>7. ASSUME NEW x \in Pages
          PROVE  Delta <= x /\ x < Delta + entry.size <=> InEntry(Aligned + x)
      <4>1. x \in Nat
        BY <3>4
      <4>2. (o - a <= x <=> o <= a + x) /\ (x < (o - a) + z <=> a + x < o + z)
        BY <3>2, <4>1
      <4> QED BY <3>2, <4>2 DEF InEntry, o, a, l, z
    <3> QED BY <3>1, <3>5, <3>6, <3>7 DEF Right
  <2> QED BY <2>1 DEF MapSound, MappedIsEntry
<1> QED BY <1>1, <1>2, <1>3, CursorsSound, PTL DEF Spec
================================================================================
