--------------------------- MODULE ContainerProofs ---------------------------
(***************************************************************************)
(* What a reader accepts, for every file and every size of words, footers, *)
(* entries and alignments: the regions lie one behind the other in the     *)
(* file, the entries apart in the payload, and no read leaves them.  And   *)
(* what the writer makes, for every job: the reader accepts it, finds each *)
(* entry and region where the writer put it, and hashes what it hashed.    *)
(***************************************************************************)
EXTENDS Container, FiniteSetTheorems, SequenceTheorems, TLAPS

-----------------------------------------------------------------------------
(* Arithmetic of words.                                                    *)

LEMMA Sums ==
  ASSUME NEW a \in Words, NEW b \in Words
  PROVE  /\ Add(a, b) \in Words
         /\ a + b < Modulus => Add(a, b) = a + b
         /\ Sub(a, b) \in Words
         /\ b <= a => Sub(a, b) = a - b
  BY ContainerAssumption DEF Add, Sub, Words

\* Rounding up moves by less than the alignment.
LEMMA Rounded ==
  ASSUME NEW x \in Words, x <= Modulus - Align
  PROVE  AlignUp(x) \in Nat /\ AlignUp(x) < x + Align
<1> DEFINE top == Add(x, Align - 1)
<1>1. Align \in Nat /\ Align > 0 /\ Align - 1 \in Words /\ x \in Nat /\ Modulus \in Nat
  BY ContainerAssumption DEF Words
<1>2. top = x + (Align - 1) /\ top \in Nat
  BY <1>1, Sums
<1>3. top % Align \in 0 .. Align - 1
  BY <1>1, <1>2
<1>4. top % Align <= top
  BY <1>1, <1>2
<1>5. AlignUp(x) = top - (top % Align)
  BY DEF AlignUp
<1> QED BY <1>1, <1>2, <1>3, <1>4, <1>5

\* The guard of romx_parse_ridx keeps the size of the index from overflowing.
LEMMA Division ==
  ASSUME NEW a \in Nat, NEW b \in Nat, b > 0, NEW n \in Nat, n <= a \div b
  PROVE  n * b <= a
<1>1. a \div b \in Nat /\ b * (a \div b) <= a
  OBVIOUS
<1>2. n * b <= (a \div b) * b
  BY <1>1
<1> QED BY <1>1, <1>2

-----------------------------------------------------------------------------
(***************************************************************************)
(* What holds of a reader at work, step by step.                           *)
(***************************************************************************)
Placed  == {"mutable", "ready"}
Swept   == Placed \cup {"place"}
Full    == Swept \cup {"sweep"}
Counted == Full \cup {"entries"}
Founded == Counted \cup {"index"}

Typed ==
  /\ disk = Foreign
  /\ size \in Words
  /\ step \in Founded \cup {"footer", "refused", "failed"}
  /\ info \in [payload : Words, metadata : Words, cover : Words, capacity : Words]
  /\ count \in Nat
  /\ end \in Words
  /\ left \subseteq 1 .. count

FooterSound ==
  step \in Founded =>
    /\ FooterSize <= size
    /\ info.payload # 0
    /\ info.capacity <= size - FooterSize
    /\ info.payload + IndexHeader <= size - FooterSize - info.capacity

IndexSound ==
  step \in Counted => info.payload + IndexSize <= size - FooterSize - info.capacity

EntriesSound ==
  /\ step \in {"footer", "index"} => entries = NoEntries
  /\ step \in {"footer", "index", "entries"} => end = 0 /\ left = {}
  /\ \E k \in 0 .. count : entries \in [1 .. k -> Entry]
  /\ step \in Counted => \A i \in DOMAIN entries : entries[i].at + entries[i].n <= info.payload
  /\ step \in Full => DOMAIN entries = 1 .. count

Holds(i, x) == entries[i].at <= x /\ x < entries[i].at + entries[i].n

SweepSound ==
  /\ step = "sweep" =>
       /\ end <= info.payload
       /\ \A i \in (1 .. count) \ left : entries[i].n = 0 \/ entries[i].at + entries[i].n <= end
       /\ \A x \in Words : x < end => x \in zero \/ \E i \in 1 .. count : Holds(i, x)
  /\ step \in Full =>
       \A x \in Words : \A i, j \in (1 .. count) \ left : Holds(i, x) /\ Holds(j, x) => i = j
  /\ step \in Swept =>
       /\ left = {}
       /\ \A x \in Words : x < info.payload => x \in zero \/ \E i \in 1 .. count : Holds(i, x)

PlaceSound ==
  step \in Placed =>
    LET last == info.payload + IndexSize + info.metadata + info.cover
        mutable == size - FooterSize - info.capacity
    IN /\ last <= mutable
       /\ info.capacity = 0 => last = mutable
       /\ info.capacity # 0 => mutable - last < Align /\ Span(last, mutable) \subseteq zero

Sound ==
  /\ Typed
  /\ FooterSound
  /\ IndexSound
  /\ EntriesSound
  /\ SweepSound
  /\ PlaceSound

\* A reader that gave up holds nothing.
Reset ==
  /\ step' \in {"refused", "failed"}
  /\ UNCHANGED <<disk, size>>
  /\ info' = NoInfo
  /\ count' = 0
  /\ entries' = NoEntries
  /\ end' = 0
  /\ left' = {}

LEMMA Nothing == NoEntries \in [1 .. 0 -> Entry] /\ 0 \in Words /\ NoInfo \in [payload : Words, metadata : Words, cover : Words, capacity : Words]
<1>1. 1 .. 0 = {}
  OBVIOUS
<1>2. NoEntries \in [1 .. 0 -> Entry]
  BY <1>1 DEF NoEntries
<1>3. 0 \in Words
  BY ContainerAssumption DEF Words
<1> QED BY <1>2, <1>3 DEF NoInfo

LEMMA ResetKeeps == Typed /\ Reset => Sound'
<1> SUFFICES ASSUME Typed, Reset PROVE Sound'
  OBVIOUS
<1>1. step' \notin Founded \cup {"footer"} /\ step' # "sweep"
  BY DEF Reset, Founded, Counted, Full, Swept, Placed
<1>2. Typed'
  BY Nothing DEF Typed, Reset
<1>3. EntriesSound'
  BY <1>1, Nothing DEF EntriesSound, Reset, Founded, Counted
<1> QED BY <1>1, <1>2, <1>3 DEF Sound, FooterSound, IndexSound, SweepSound, PlaceSound,
          Founded, Counted, Full, Swept

LEMMA RefuseResets == Refuse \/ Fail \/ Unsound => Reset
  BY DEF Refuse, Fail, Unsound, Reset

\* The words of the reader are the numbers they stand for.
LEMMA Bounds ==
  ASSUME Typed, FooterSound, step \in Founded
  PROVE  /\ FooterAt = size - FooterSize
         /\ MutableAt = size - FooterSize - info.capacity
         /\ Immutable = size - FooterSize - info.capacity
         /\ FooterAt \in Words /\ MutableAt \in Words /\ Immutable \in Words
<1>1. /\ FooterSize \in Words /\ size \in Words /\ FooterSize <= size
      /\ info.capacity \in Words /\ info.capacity <= size - FooterSize
  BY ContainerAssumption DEF Typed, FooterSound
<1>2. FooterAt = size - FooterSize /\ FooterAt \in Words
  BY <1>1, Sums DEF FooterAt
<1>3. MutableAt = size - FooterSize - info.capacity /\ MutableAt \in Words
  BY <1>1, <1>2, Sums DEF MutableAt
<1>4. info.capacity = 0 => size - FooterSize - info.capacity = FooterAt
  BY <1>1, <1>2 DEF Words
<1> QED BY <1>2, <1>3, <1>4 DEF Immutable

-----------------------------------------------------------------------------
(* One lemma for each step of the reader.                                  *)

LEMMA InitSound == ForeignInit => Sound
<1> SUFFICES ASSUME ForeignInit PROVE Sound
  OBVIOUS
<1>1. step = "footer" /\ step \notin Founded
  BY DEF ForeignInit, Founded, Counted, Full, Swept, Placed
<1>2. Typed
  BY <1>1, Nothing DEF ForeignInit, Fresh, Typed
<1>3. EntriesSound
  BY <1>1, Nothing DEF EntriesSound, ForeignInit, Fresh, Founded, Counted
<1> QED BY <1>1, <1>2, <1>3 DEF Sound, FooterSound, IndexSound, SweepSound, PlaceSound,
          Founded, Counted, Full, Swept

LEMMA FooterStep == Sound /\ ParseFooter => Sound'
<1> SUFFICES ASSUME Sound, ParseFooter PROVE Sound'
  OBVIOUS
<1> USE DEF Founded, Counted, Full, Swept, Placed
<1>0. Typed /\ EntriesSound
  BY DEF Sound
<1>1. PICK p \in Words, c \in Words :
        IF FooterSize <= size /\ FooterOk(p, c)
        THEN /\ step' = "index"
             /\ info' = [NoInfo EXCEPT !.payload = p, !.capacity = c]
             /\ UNCHANGED <<disk, size, count, entries, end, left, slots, zero>>
        ELSE Refuse
  BY <1>0 DEF ParseFooter, Found, Typed
<1>2. CASE Refuse
  BY <1>0, <1>2, RefuseResets, ResetKeeps
<1>3. CASE /\ FooterSize <= size /\ FooterOk(p, c)
           /\ step' = "index"
           /\ info' = [NoInfo EXCEPT !.payload = p, !.capacity = c]
           /\ UNCHANGED <<disk, size, count, entries, end, left, slots, zero>>
  <2>1. info' = [payload |-> p, metadata |-> 0, cover |-> 0, capacity |-> c]
    BY <1>3 DEF NoInfo
  <2>2. /\ FooterAt = size - FooterSize /\ FooterAt \in Words
        /\ FooterSize \in Words /\ size \in Words /\ IndexHeader \in Words
    BY <1>0, <1>3, Sums, ContainerAssumption DEF Typed, FooterAt
  <2>3. c <= FooterAt
    BY <1>3, <2>2 DEF FooterOk, Words
  <2>4. Sub(FooterAt, c) = FooterAt - c /\ Sub(FooterAt, c) \in Words
    BY <2>2, <2>3, Sums
  <2>5. PICK m \in Words : m = FooterAt - c /\ p <= m /\ Sub(m, p) >= IndexHeader
    <3>1. CASE c = 0
      BY <1>3, <2>2, <3>1 DEF FooterOk, Words
    <3>2. CASE c # 0
      BY <1>3, <2>4, <3>2 DEF FooterOk
    <3> QED BY <3>1, <3>2
  <2>6. p + IndexHeader <= m
    BY <2>2, <2>5, Sums DEF Words
  <2>7. FooterSound'
    BY <1>3, <2>1, <2>2, <2>3, <2>5, <2>6 DEF FooterSound, FooterOk
  <2>8. Typed'
    BY <1>0, <1>3, <2>1, Nothing DEF Typed
  <2>9. EntriesSound'
    BY <1>0, <1>3 DEF EntriesSound, ParseFooter
  <2> QED BY <1>3, <2>7, <2>8, <2>9 DEF Sound, IndexSound, SweepSound, PlaceSound
<1> QED BY <1>1, <1>2, <1>3

LEMMA IndexStep == Sound /\ ParseIndex => Sound'
<1> SUFFICES ASSUME Sound, ParseIndex PROVE Sound'
  OBVIOUS
<1> USE DEF Founded, Counted, Full, Swept, Placed
<1>0. Typed /\ FooterSound /\ EntriesSound /\ step = "index"
  BY DEF Sound, ParseIndex
<1>1. PICK n \in 0 .. MaxEntries :
        IF n # 0 /\ n <= (Sub(Sub(Immutable, info.payload), IndexHeader)) \div IndexEntry
        THEN /\ step' = "entries"
             /\ count' = n
             /\ UNCHANGED <<disk, size, info, entries, end, left, slots, zero>>
        ELSE Refuse
  BY <1>0 DEF ParseIndex, Found, Typed
<1>2. CASE Refuse
  BY <1>0, <1>2, RefuseResets, ResetKeeps
<1>3. CASE /\ n # 0 /\ n <= (Sub(Sub(Immutable, info.payload), IndexHeader)) \div IndexEntry
           /\ step' = "entries"
           /\ count' = n
           /\ UNCHANGED <<disk, size, info, entries, end, left, slots, zero>>
  <2>1. /\ Immutable = size - FooterSize - info.capacity /\ Immutable \in Words
        /\ IndexHeader \in Words /\ info.payload \in Words /\ IndexEntry \in Words \ {0}
        /\ info.payload + IndexHeader <= Immutable
    BY <1>0, Bounds, ContainerAssumption DEF Typed, FooterSound
  <2>2. Sub(Immutable, info.payload) = Immutable - info.payload /\ Immutable - info.payload \in Words
    <3>1. info.payload <= Immutable
      BY <2>1 DEF Words
    <3>2. Sub(Immutable, info.payload) = Immutable - info.payload /\ Sub(Immutable, info.payload) \in Words
      BY <2>1, <3>1, Sums
    <3> QED BY <3>2
  <2>3. Sub(Immutable - info.payload, IndexHeader) = Immutable - info.payload - IndexHeader
    <3>1. IndexHeader <= Immutable - info.payload
      BY <2>1 DEF Words
    <3> QED BY <2>1, <2>2, <3>1, Sums
  <2> DEFINE room == Immutable - info.payload - IndexHeader
  <2>4. room \in Nat /\ IndexEntry \in Nat /\ IndexEntry > 0 /\ n \in Nat
    BY <2>1, ContainerAssumption DEF Words
  <2>5. n <= room \div IndexEntry
    BY <1>3, <2>2, <2>3
  <2>6. n * IndexEntry <= room
    <3> HIDE DEF room
    <3> QED BY <2>4, <2>5, Division
  <2>7. n * IndexEntry \in Nat
    BY <2>4
  <2> DEFINE k == n * IndexEntry
  <2>8. info.payload + (IndexHeader + k) <= Immutable
    <3> HIDE DEF k
    <3> QED BY <2>1, <2>6, <2>7 DEF k, Words
  <2>9. IndexSize' = IndexHeader + k
    BY <1>3 DEF IndexSize
  <2>10. IndexSound'
    <3> HIDE DEF k
    <3> QED BY <1>3, <2>1, <2>8, <2>9 DEF IndexSound
  <2>11. Typed'
    <3>1. left = {}
      BY <1>0 DEF EntriesSound
    <3> QED BY <1>0, <1>3, <2>4, <3>1 DEF Typed
  <2>12. EntriesSound'
    <3>1. 1 .. 0 = {} /\ entries = NoEntries
      BY <1>0 DEF EntriesSound
    <3>2. DOMAIN entries = {}
      BY <3>1 DEF NoEntries
    <3>3. entries \in [1 .. 0 -> Entry] /\ 0 \in 0 .. n
      BY <2>4, <3>1, Nothing
    <3>4. end = 0 /\ left = {}
      BY <1>0 DEF EntriesSound
    <3> QED BY <1>3, <3>2, <3>3, <3>4 DEF EntriesSound
  <2>13. FooterSound'
    BY <1>0, <1>3 DEF FooterSound
  <2> QED BY <1>3, <2>10, <2>11, <2>12, <2>13 DEF Sound, SweepSound, PlaceSound
<1> QED BY <1>1, <1>2, <1>3

\* Entries are counted from 1 without gaps.
LEMMA ParsedIs == ASSUME NEW k \in Nat, entries \in [1 .. k -> Entry] PROVE Parsed = k
<1>1. DOMAIN entries = 1 .. k
  OBVIOUS
<1>2. Cardinality(1 .. k) = k
  BY FS_Interval
<1> QED BY <1>1, <1>2 DEF Parsed

LEMMA EntryStep == Sound /\ ParseEntry => Sound'
<1> SUFFICES ASSUME Sound, ParseEntry PROVE Sound'
  OBVIOUS
<1> USE DEF Founded, Counted, Full, Swept, Placed
<1>0. Typed /\ FooterSound /\ IndexSound /\ EntriesSound /\ step = "entries" /\ Parsed < count
  BY DEF Sound, ParseEntry
<1>1. PICK k \in 0 .. count : entries \in [1 .. k -> Entry]
  BY <1>0 DEF EntriesSound
<1>2. Parsed = k /\ k \in Nat /\ k + 1 \in 0 .. count
  BY <1>0, <1>1, ParsedIs DEF Typed
<1>3. PICK e \in Entry :
        IF EntryOk(e)
        THEN /\ entries' = [j \in 1 .. k + 1 |-> IF j = k + 1 THEN e ELSE entries[j]]
             /\ UNCHANGED <<disk, size, step, info, count, end, left, slots, zero>>
        ELSE Refuse
  BY <1>0, <1>2 DEF ParseEntry, Found, Typed
<1>4. CASE Refuse
  BY <1>0, <1>4, RefuseResets, ResetKeeps
<1>5. CASE /\ EntryOk(e)
           /\ entries' = [j \in 1 .. k + 1 |-> IF j = k + 1 THEN e ELSE entries[j]]
           /\ UNCHANGED <<disk, size, step, info, count, end, left, slots, zero>>
  <2>1. entries' \in [1 .. k + 1 -> Entry]
    <3>1. \A j \in 1 .. k + 1 : j # k + 1 => j \in 1 .. k
      BY <1>2
    <3>2. \A j \in 1 .. k + 1 : (IF j = k + 1 THEN e ELSE entries[j]) \in Entry
      BY <1>1, <3>1
    <3> QED BY <1>5, <3>2
  <2>2. e.at \in Words /\ e.n \in Words /\ info.payload \in Words
    BY <1>0 DEF Entry, Typed
  <2>3. e.at + e.n <= info.payload
    <3>1. e.at <= info.payload /\ e.n <= Sub(info.payload, e.at)
      BY <1>5 DEF EntryOk
    <3>2. Sub(info.payload, e.at) = info.payload - e.at
      BY <2>2, <3>1, Sums
    <3> QED BY <2>2, <3>1, <3>2 DEF Words
  <2>4. ASSUME NEW j \in DOMAIN entries' PROVE entries'[j].at + entries'[j].n <= info'.payload
    <3>1. j \in 1 .. k + 1 /\ info' = info
      BY <1>5
    <3>2. CASE j = k + 1
      BY <1>5, <2>3, <3>1, <3>2
    <3>3. CASE j # k + 1
      <4>1. j \in 1 .. k /\ entries'[j] = entries[j]
        BY <1>2, <1>5, <3>1, <3>3
      <4>2. entries[j].at + entries[j].n <= info.payload
        BY <1>0, <1>1, <4>1 DEF EntriesSound
      <4> QED BY <3>1, <4>1, <4>2
    <3> QED BY <3>2, <3>3
  <2>5. EntriesSound'
    <3>1. step' = "entries" /\ count' = count /\ end' = end /\ left' = left /\ end = 0 /\ left = {}
      BY <1>0, <1>5 DEF EntriesSound
    <3>2. \E i \in 0 .. count' : entries' \in [1 .. i -> Entry]
      BY <1>2, <2>1, <3>1
    <3> QED BY <2>4, <3>1, <3>2 DEF EntriesSound
  <2>6. Typed' /\ FooterSound' /\ IndexSound'
    BY <1>0, <1>5 DEF Typed, FooterSound, IndexSound, IndexSize
  <2> QED BY <1>0, <1>5, <2>5, <2>6 DEF Sound, SweepSound, PlaceSound
<1> QED BY <1>3, <1>4, <1>5

LEMMA EntriesDoneStep == Sound /\ EntriesDone => Sound'
<1> SUFFICES ASSUME Sound, EntriesDone PROVE Sound'
  OBVIOUS
<1> USE DEF Founded, Counted, Full, Swept, Placed
<1>0. Typed /\ FooterSound /\ IndexSound /\ EntriesSound /\ step = "entries" /\ Parsed = count
  BY DEF Sound, EntriesDone
<1>1. CASE Refuse
  BY <1>0, <1>1, RefuseResets, ResetKeeps
<1>2. CASE /\ step' = "sweep"
           /\ left' = {i \in 1 .. count : entries[i].n # 0}
           /\ UNCHANGED <<disk, size, info, count, entries, end, slots, zero>>
  <2>1. entries \in [1 .. count -> Entry]
    <3>1. PICK k \in 0 .. count : entries \in [1 .. k -> Entry]
      BY <1>0 DEF EntriesSound
    <3>2. k = count
      BY <1>0, <3>1, ParsedIs DEF Typed
    <3> QED BY <3>1, <3>2
  <2>2. Typed' /\ FooterSound' /\ IndexSound'
    BY <1>0, <1>2 DEF Typed, FooterSound, IndexSound, IndexSize
  <2>3. EntriesSound'
    <3>1. count \in 0 .. count
      BY <1>0 DEF Typed
    <3>2. step' = "sweep" /\ entries' = entries /\ count' = count /\ info' = info
      BY <1>2
    <3>3. \E k \in 0 .. count' : entries' \in [1 .. k -> Entry]
      BY <2>1, <3>1, <3>2
    <3> QED BY <1>0, <2>1, <3>2, <3>3 DEF EntriesSound
  <2>4. \A i \in (1 .. count) \ left' : entries[i].n = 0
    BY <1>2
  <2>5. end = 0 /\ info.payload \in Nat
    BY <1>0 DEF EntriesSound, Typed, Words
  <2>6. SweepSound'
    <3>1. \A i \in (1 .. count') \ left' : entries'[i].n = 0
      BY <1>2, <2>4
    <3>2. \A x \in Words : ~(x < end')
      BY <1>2, <2>5 DEF Words
    <3>3. ASSUME NEW x \in Words, NEW i \in (1 .. count') \ left' PROVE ~Holds(i, x)'
      <4>1. entries'[i] = entries[i] /\ entries[i] \in Entry /\ entries'[i].n = 0
        BY <1>2, <2>1, <3>1
      <4>2. entries[i].at \in Nat
        BY <4>1 DEF Entry, Words
      <4> QED BY <4>1, <4>2 DEF Holds, Words
    <3> QED BY <1>2, <2>5, <3>1, <3>2, <3>3 DEF SweepSound
  <2> QED BY <1>2, <2>2, <2>3, <2>6 DEF Sound, PlaceSound
<1> QED BY <1>1, <1>2 DEF EntriesDone

LEMMA SweepStep == Sound /\ SweepEntry => Sound'
<1> SUFFICES ASSUME Sound, SweepEntry PROVE Sound'
  OBVIOUS
<1> USE DEF Founded, Counted, Full, Swept, Placed
<1>0. /\ Typed /\ FooterSound /\ IndexSound /\ EntriesSound /\ SweepSound
      /\ step = "sweep"
  BY DEF Sound, SweepEntry
<1>1. PICK i \in left :
        IF entries[i].at >= end /\ Zeroed(Span(end, entries[i].at))
        THEN /\ end' = EndOf(entries[i])
             /\ left' = left \ {i}
             /\ zero' = zero \cup Span(end, entries[i].at)
             /\ UNCHANGED <<disk, size, step, info, count, entries, slots>>
        ELSE Refuse
  BY DEF SweepEntry
<1>2. CASE Refuse
  BY <1>0, <1>2, RefuseResets, ResetKeeps
<1>3. CASE /\ entries[i].at >= end
           /\ end' = EndOf(entries[i])
           /\ left' = left \ {i}
           /\ zero' = zero \cup Span(end, entries[i].at)
           /\ UNCHANGED <<disk, size, step, info, count, entries, slots>>
  <2>1. entries \in [1 .. count -> Entry] /\ i \in 1 .. count
    BY <1>0 DEF EntriesSound, Typed
  <2>2. \A j \in 1 .. count : entries[j].at \in Nat /\ entries[j].n \in Nat
    BY <2>1 DEF Entry, Words
  <2>3. entries[i].at + entries[i].n <= info.payload /\ info.payload \in Words
    BY <1>0, <2>1 DEF EntriesSound, Typed
  <2>4. end' = entries[i].at + entries[i].n /\ end' \in Words
    <3>1. entries[i].at \in Words /\ entries[i].n \in Words /\ Modulus \in Nat
      BY <2>1, ContainerAssumption DEF Entry
    <3>2. entries[i].at + entries[i].n < Modulus
      BY <2>2, <2>1, <2>3, <3>1 DEF Words
    <3> QED BY <1>3, <3>1, <3>2, Sums DEF EndOf
  <2>5. end \in Nat /\ end <= entries[i].at /\ end <= end'
    BY <1>0, <1>3, <2>1, <2>2, <2>4 DEF Typed, Words
  <2>6. \A j \in (1 .. count) \ left : entries[j].n = 0 \/ entries[j].at + entries[j].n <= end
    BY <1>0 DEF SweepSound
  <2>7. \A j \in (1 .. count) \ left' : entries[j].n = 0 \/ entries[j].at + entries[j].n <= end'
    <3> SUFFICES ASSUME NEW j \in (1 .. count) \ left'
                 PROVE entries[j].n = 0 \/ entries[j].at + entries[j].n <= end'
      OBVIOUS
    <3>1. CASE j = i
      BY <2>2, <2>4, <3>1
    <3>2. CASE j # i
      BY <1>3, <2>2, <2>4, <2>5, <2>6, <3>2 DEF Words
    <3> QED BY <3>1, <3>2
  <2>8. ASSUME NEW x \in Words, x < end'
        PROVE x \in zero' \/ \E j \in 1 .. count : Holds(j, x)
    <3>1. CASE x < end
      BY <1>0, <1>3, <3>1 DEF SweepSound
    <3>2. CASE end <= x /\ x < entries[i].at
      BY <1>3, <3>2 DEF Span
    <3>3. CASE entries[i].at <= x
      BY <2>1, <2>4, <2>8, <3>3 DEF Holds
    <3> QED BY <2>1, <2>2, <2>5, <3>1, <3>2, <3>3 DEF Words
  <2>9. ASSUME NEW x \in Words, NEW j \in (1 .. count) \ left', NEW k \in (1 .. count) \ left',
               Holds(j, x), Holds(k, x)
        PROVE j = k
    <3>1. ASSUME NEW l \in (1 .. count) \ left', l # i, Holds(l, x) PROVE ~Holds(i, x)
      <4>1. entries[l].n = 0 \/ entries[l].at + entries[l].n <= end
        BY <1>3, <2>6, <3>1
      <4>2. x < entries[l].at + entries[l].n /\ entries[l].at <= x
        BY <3>1 DEF Holds
      <4>3. x < end
        BY <2>2, <2>5, <4>1, <4>2 DEF Words
      <4>4. x < entries[i].at
        BY <2>1, <2>2, <2>5, <4>3 DEF Words
      <4> QED BY <2>1, <2>2, <4>4 DEF Holds, Words
    <3>2. CASE j = i \/ k = i
      BY <2>9, <3>1, <3>2
    <3>3. CASE j # i /\ k # i
      BY <1>0, <1>3, <2>9, <3>3 DEF SweepSound
    <3> QED BY <3>2, <3>3
  <2>10. SweepSound'
    <3>1. /\ end' <= info'.payload
          /\ step' = "sweep" /\ count' = count /\ entries' = entries
      BY <1>0, <1>3, <2>3, <2>4
    <3> QED BY <2>7, <2>8, <2>9, <3>1 DEF SweepSound, Holds
  <2>11. Typed' /\ FooterSound' /\ IndexSound' /\ EntriesSound'
    BY <1>0, <1>3, <2>4 DEF Typed, FooterSound, IndexSound, EntriesSound, IndexSize
  <2> QED BY <1>0, <1>3, <2>10, <2>11 DEF Sound, PlaceSound
<1> QED BY <1>1, <1>2, <1>3

LEMMA SweepDoneStep == Sound /\ SweepDone => Sound'
<1> SUFFICES ASSUME Sound, SweepDone PROVE Sound'
  OBVIOUS
<1> USE DEF Founded, Counted, Full, Swept, Placed
<1>0. /\ Typed /\ FooterSound /\ IndexSound /\ EntriesSound /\ SweepSound
      /\ step = "sweep" /\ left = {}
  BY DEF Sound, SweepDone
<1>1. CASE Refuse
  BY <1>0, <1>1, RefuseResets, ResetKeeps
<1>2. CASE /\ step' = "place"
           /\ zero' = zero \cup Span(end, info.payload)
           /\ UNCHANGED <<disk, size, info, count, entries, end, left, slots>>
  <2>1. ASSUME NEW x \in Words, x < info.payload
        PROVE x \in zero' \/ \E j \in 1 .. count : Holds(j, x)
    <3>1. CASE x < end
      BY <1>0, <1>2, <3>1 DEF SweepSound
    <3>2. CASE end <= x
      BY <1>2, <2>1, <3>2 DEF Span
    <3> QED BY <1>0, <3>1, <3>2 DEF Typed, Words
  <2>2. SweepSound'
    <3>1. /\ step' = "place" /\ count' = count /\ entries' = entries /\ info' = info
          /\ left' = {} /\ left = {}
      BY <1>0, <1>2
    <3>2. \A x \in Words : \A i, j \in 1 .. count : Holds(i, x) /\ Holds(j, x) => i = j
      BY <1>0 DEF SweepSound
    <3> QED BY <2>1, <3>1, <3>2 DEF SweepSound, Holds
  <2>3. Typed' /\ FooterSound' /\ IndexSound' /\ EntriesSound'
    BY <1>0, <1>2 DEF Typed, FooterSound, IndexSound, EntriesSound, IndexSize
  <2> QED BY <1>2, <2>2, <2>3 DEF Sound, PlaceSound
<1> QED BY <1>0, <1>1, <1>2 DEF SweepDone

LEMMA PlaceStep == Sound /\ PlaceRegions => Sound'
<1> SUFFICES ASSUME Sound, PlaceRegions PROVE Sound'
  OBVIOUS
<1> USE DEF Founded, Counted, Full, Swept, Placed
<1>0. /\ Typed /\ FooterSound /\ IndexSound /\ EntriesSound /\ SweepSound
      /\ step = "place"
  BY DEF Sound, PlaceRegions
<1>1. PICK m \in Words, v \in Words :
        LET last == CoverEnd(m, v)
            padding == IF info.capacity = 0 THEN {} ELSE Span(last, AlignUp(last))
        IN IF RegionsFit(m, v) /\ Follows(last) /\ Zeroed(padding)
           THEN /\ step' = IF info.capacity = 0 THEN "ready" ELSE "mutable"
                /\ info' = [info EXCEPT !.metadata = m, !.cover = v]
                /\ end' = last
                /\ zero' = zero \cup padding
                /\ UNCHANGED <<disk, size, count, entries, left, slots>>
           ELSE Refuse
  BY <1>0 DEF PlaceRegions, Found, Typed
<1> DEFINE last == CoverEnd(m, v)
           padding == IF info.capacity = 0 THEN {} ELSE Span(last, AlignUp(last))
<1>2. CASE Refuse
  BY <1>0, <1>2, RefuseResets, ResetKeeps
<1>3. CASE /\ RegionsFit(m, v) /\ Follows(last)
           /\ step' = IF info.capacity = 0 THEN "ready" ELSE "mutable"
           /\ info' = [info EXCEPT !.metadata = m, !.cover = v]
           /\ end' = last
           /\ zero' = zero \cup padding
           /\ UNCHANGED <<disk, size, count, entries, left, slots>>
  <2> DEFINE im == size - FooterSize - info.capacity
  <2>1. /\ FooterAt = size - FooterSize /\ MutableAt = im /\ Immutable = im
        /\ FooterAt \in Words /\ im \in Words /\ Modulus \in Nat /\ Align \in Nat
        /\ info.payload \in Words /\ info.payload + IndexSize <= im
    BY <1>0, Bounds, ContainerAssumption DEF Typed, IndexSound, Words
  <2>2. IndexSize \in Nat
    <3>1. IndexHeader \in Nat /\ IndexEntry \in Nat /\ count \in Nat
      BY <1>0, ContainerAssumption DEF Typed, Words
    <3>2. count * IndexEntry \in Nat
      BY <3>1
    <3> QED BY <3>1, <3>2 DEF IndexSize
  <2>3. IndexEnd = info.payload + IndexSize /\ IndexEnd \in Words
    <3> HIDE DEF im
    <3>1. IndexSize \in Words /\ info.payload + IndexSize < Modulus
      BY <2>1, <2>2 DEF Words
    <3> QED BY <2>1, <3>1, Sums DEF IndexEnd
  <2>4. MetadataEnd(m) = IndexEnd + m /\ MetadataEnd(m) \in Words /\ MetadataEnd(m) <= im
    <3> HIDE DEF im
    <3>1. m <= im - IndexEnd
      BY <1>3, <2>1, <2>3, Sums DEF RegionsFit
    <3>2. IndexEnd + m <= im /\ IndexEnd + m < Modulus
      BY <2>1, <2>3, <3>1 DEF Words
    <3> QED BY <2>3, <3>2, Sums DEF MetadataEnd
  <2>5. last = MetadataEnd(m) + v /\ last \in Words /\ last <= im
    <3> HIDE DEF im
    <3>1. v <= im - MetadataEnd(m)
      BY <1>3, <2>1, <2>4, Sums DEF RegionsFit
    <3>2. MetadataEnd(m) + v <= im /\ MetadataEnd(m) + v < Modulus
      BY <2>1, <2>4, <3>1 DEF Words
    <3> QED BY <2>4, <3>2, Sums DEF CoverEnd
  <2>6. info.capacity = 0 => last = im
    BY <1>3, <2>1 DEF Follows, Immutable
  <2>7. info.capacity # 0 => im - last < Align /\ Span(last, im) \subseteq zero'
    <3> SUFFICES ASSUME info.capacity # 0
                 PROVE  im - last < Align /\ Span(last, im) \subseteq zero'
      OBVIOUS
    <3>1. last <= Modulus - Align /\ AlignUp(last) = im
      BY <1>3, <2>1 DEF Follows
    <3>2. im < last + Align
      <4> HIDE DEF im, last
      <4> QED BY <2>5, <3>1, Rounded
    <3>3. im - last < Align
      <4> HIDE DEF im, last
      <4> QED BY <2>1, <2>5, <3>2 DEF Words
    <3>4. Span(last, im) = padding
      BY <3>1
    <3> QED BY <1>3, <3>3, <3>4
  <2>8. /\ info' = [payload |-> info.payload, metadata |-> m, cover |-> v, capacity |-> info.capacity]
        /\ IndexSize' = IndexSize
    BY <1>0, <1>3 DEF Typed, IndexSize
  <2>9. last = info.payload + IndexSize + m + v
    <3> HIDE DEF last
    <3> QED BY <2>1, <2>2, <2>3, <2>4, <2>5 DEF Words
  <2>10. PlaceSound'
    <3> HIDE DEF last
    <3> QED BY <1>3, <2>5, <2>6, <2>7, <2>8, <2>9 DEF PlaceSound, Span
  <2>11. Typed'
    <3> HIDE DEF last
    <3> QED BY <1>0, <1>3, <2>5, <2>8 DEF Typed
  <2>12. FooterSound' /\ IndexSound' /\ EntriesSound'
    <3> HIDE DEF last
    <3> QED BY <1>0, <1>3, <2>8 DEF FooterSound, IndexSound, EntriesSound
  <2>13. SweepSound'
    <3>1. /\ step' \in Placed /\ count' = count /\ entries' = entries
          /\ info'.payload = info.payload /\ left' = left /\ zero \subseteq zero'
      BY <1>3, <2>8
    <3> QED BY <1>0, <3>1 DEF SweepSound, Holds
  <2> QED BY <2>10, <2>11, <2>12, <2>13 DEF Sound
<1> QED BY <1>1, <1>2, <1>3

LEMMA MutableStep == Sound /\ ParseMutable => Sound'
<1> SUFFICES ASSUME Sound, ParseMutable PROVE Sound'
  OBVIOUS
<1>1. /\ step = "mutable" /\ step' = "ready"
      /\ UNCHANGED <<disk, size, info, count, entries, end, left, zero>>
  BY DEF ParseMutable
<1> QED BY <1>1 DEF Sound, Typed, FooterSound, IndexSound, EntriesSound, SweepSound, PlaceSound,
          IndexSize, Holds, Founded, Counted, Full, Swept, Placed

LEMMA StepSound == Sound /\ [ReaderNext]_reader => Sound'
<1> SUFFICES ASSUME Sound, [ReaderNext]_reader PROVE Sound'
  OBVIOUS
<1>1. CASE ParseFooter
  BY <1>1, FooterStep
<1>2. CASE ParseIndex
  BY <1>2, IndexStep
<1>3. CASE ParseEntry
  BY <1>3, EntryStep
<1>4. CASE EntriesDone
  BY <1>4, EntriesDoneStep
<1>5. CASE SweepEntry
  BY <1>5, SweepStep
<1>6. CASE SweepDone
  BY <1>6, SweepDoneStep
<1>7. CASE PlaceRegions
  BY <1>7, PlaceStep
<1>8. CASE ParseMutable
  BY <1>8, MutableStep
<1>9. CASE Unsound \/ Fail
  BY <1>9, RefuseResets, ResetKeeps DEF Sound
<1>10. CASE UNCHANGED reader
  BY <1>10 DEF reader, parsed, Sound, Typed, FooterSound, IndexSound, EntriesSound, SweepSound,
     PlaceSound, IndexSize, Holds
<1> QED BY <1>1, <1>2, <1>3, <1>4, <1>5, <1>6, <1>7, <1>8, <1>9, <1>10 DEF ReaderNext

\* Whatever the file holds, a reader at work stays sound (src/src/reader.c:29-79).
THEOREM ReaderSound == ForeignSpec => []Sound
<1>1. ForeignInit => Sound
  BY InitSound
<1>2. Sound /\ [ReaderNext]_reader => Sound'
  BY StepSound
<1> QED BY <1>1, <1>2, PTL DEF ForeignSpec

-----------------------------------------------------------------------------
\* For every file: the index is never read from where a mutable writer may be
\* at work (src/src/footer.c:84-108, src/src/ridx.c:116-185).
THEOREM IndexBelow == ForeignSpec => []IndexBelowMutable
<1>1. Sound => IndexBelowMutable
  <2> SUFFICES ASSUME Sound PROVE IndexBelowMutable
    OBVIOUS
  <2>1. CASE step \in Founded
    <3>1. Immutable = size - FooterSize - info.capacity
      BY <2>1, Bounds DEF Sound
    <3> QED BY <2>1, <3>1
            DEF Sound, FooterSound, IndexSound, IndexBelowMutable, Founded, Counted, Full, Swept, Placed
  <2>2. CASE step \notin Founded
    BY <2>2 DEF IndexBelowMutable, Founded, Counted, Full, Swept, Placed
  <2> QED BY <2>1, <2>2
<1> QED BY <1>1, ReaderSound, PTL

\* For every file: what is accepted consists of its regions, from its first
\* byte to its footer (src/src/ridx.c:299-343).
THEOREM Tiled == ForeignSpec => []RegionsTile
<1>1. Sound => RegionsTile
  <2> SUFFICES ASSUME Sound, step = "ready" PROVE RegionsTile
    BY DEF RegionsTile
  <2> DEFINE last == info.payload + IndexSize + info.metadata + info.cover
             im == size - FooterSize - info.capacity
  <2>0. step \in Placed /\ step \in Founded
    BY DEF Founded, Counted, Full, Swept, Placed
  <2>1. Typed /\ FooterSound /\ PlaceSound
    BY DEF Sound
  <2>2. MutableAt = im /\ im \in Words /\ size \in Words /\ FooterSize \in Words /\ info.capacity \in Words
    BY <2>0, <2>1, Bounds, ContainerAssumption DEF Typed
  <2>3. last <= im /\ (info.capacity = 0 => last = im)
        /\ (info.capacity # 0 => im - last < Align /\ Span(last, im) \subseteq zero)
    BY <2>0, <2>1 DEF PlaceSound
  <2>4. im + info.capacity + FooterSize = size
    BY <2>2 DEF Words
  <2>5. info.capacity = 0 => im + FooterSize = size
    BY <2>2 DEF Words
  <2> HIDE DEF last, im
  <2> QED BY <2>2, <2>3, <2>4, <2>5 DEF RegionsTile, last
<1> QED BY <1>1, ReaderSound, PTL

\* For every file that is accepted, each byte of the payload belongs to exactly
\* one entry or was seen to be zero (src/src/ridx.c:278-297).
THEOREM Accounted == ForeignSpec => []BytesAccounted
<1>1. Sound => BytesAccounted
  <2> SUFFICES ASSUME Sound, step = "ready", NEW x \in Span(0, info.payload)
               PROVE  LET holders == {i \in 1 .. count : Holds(i, x)} IN
                      IF holders = {} THEN x \in zero ELSE \E i \in holders : holders = {i}
    BY DEF BytesAccounted, Holds
  <2>1. x \in Words /\ x < info.payload
    BY DEF Span
  <2>2. /\ left = {}
        /\ x \in zero \/ \E i \in 1 .. count : Holds(i, x)
        /\ \A i, j \in 1 .. count : Holds(i, x) /\ Holds(j, x) => i = j
    BY <2>1 DEF Sound, SweepSound, Full, Swept, Placed
  <2> QED BY <2>2
<1> QED BY <1>1, ReaderSound, PTL

\* Any part of a region that a read may ask for lies in the region.
LEMMA PartInside ==
  ASSUME NEW a \in Nat, NEW n \in Nat, a + n < Modulus,
         NEW from \in 0 .. n, NEW k \in Words
  PROVE  Inside(ReadAt(Region(a, n), from, k), Region(a, n))
<1>1. a \in Words /\ n \in Words /\ from \in Words /\ Modulus \in Nat /\ k \in Nat
  BY ContainerAssumption DEF Words
<1>2. Add(a, from) = a + from
  BY <1>1, Sums
<1>3. Sub(n, from) = n - from
  BY <1>1, Sums
<1>4. ReadAt(Region(a, n), from, k) = [at |-> a + from, n |-> IF k < n - from THEN k ELSE n - from]
  BY <1>2, <1>3 DEF ReadAt, Region
<1> DEFINE some == IF k < n - from THEN k ELSE n - from
<1>5. some \in Nat /\ from + some <= n
  BY <1>1
<1> HIDE DEF some
<1>6. ReadAt(Region(a, n), from, k) = [at |-> a + from, n |-> some]
  BY <1>4 DEF some
<1> QED BY <1>5, <1>6 DEF Inside, Region

\* For every file that is accepted, every read of a region or an entry stays
\* within it (src/src/region.c:52-135, src/src/ridx.c:415-447).
THEOREM Inbounds == ForeignSpec => []ReadsInside
<1>1. Sound => ReadsInside
  <2> SUFFICES ASSUME Sound, step = "ready" PROVE ReadsInside
    BY DEF ReadsInside
  <2> DEFINE im == size - FooterSize - info.capacity
  <2>0. step \in Placed /\ step \in Founded /\ step \in Counted /\ step \in Full
    BY DEF Founded, Counted, Full, Swept, Placed
  <2>1. Typed /\ FooterSound /\ EntriesSound /\ PlaceSound
    BY DEF Sound
  <2>2. /\ FooterAt = size - FooterSize /\ MutableAt = im /\ Immutable = im
        /\ FooterAt \in Words /\ im \in Words /\ Modulus \in Nat
        /\ info.payload \in Words /\ info.metadata \in Words /\ info.cover \in Words /\ info.capacity \in Words
    BY <2>0, <2>1, Bounds, ContainerAssumption DEF Typed
  <2>3. IndexSize \in Nat
    <3>1. IndexHeader \in Nat /\ IndexEntry \in Nat /\ count \in Nat
      BY <2>1, ContainerAssumption DEF Typed, Words
    <3>2. count * IndexEntry \in Nat
      BY <3>1
    <3> QED BY <3>1, <3>2 DEF IndexSize
  <2>4. info.payload + IndexSize + info.metadata + info.cover <= im
    BY <2>0, <2>1 DEF PlaceSound
  <2>5. im + info.capacity = FooterAt
    BY <2>2 DEF Words
  <2> HIDE DEF im
  <2>6. IndexEnd = info.payload + IndexSize /\ IndexEnd \in Words
    <3>1. IndexSize \in Words /\ info.payload + IndexSize < Modulus
      BY <2>2, <2>3, <2>4 DEF Words
    <3> QED BY <2>2, <3>1, Sums DEF IndexEnd
  <2>7. MetadataEnd(info.metadata) = IndexEnd + info.metadata
    <3>1. IndexEnd + info.metadata < Modulus
      BY <2>2, <2>3, <2>4, <2>6 DEF Words
    <3> QED BY <2>2, <2>6, <3>1, Sums DEF MetadataEnd
  <2>8. ASSUME NEW r \in Regions
        PROVE  \E a, n \in Nat : r = Region(a, n) /\ a + n <= FooterAt
    <3>1. CASE r = PayloadRegion
      BY <2>2, <2>3, <2>4, <2>5, <3>1 DEF PayloadRegion, Words
    <3>2. CASE r = IndexRegion
      BY <2>2, <2>3, <2>4, <2>5, <3>2 DEF IndexRegion, Words
    <3>3. CASE r = MetadataRegion
      BY <2>2, <2>3, <2>4, <2>5, <2>6, <3>3 DEF MetadataRegion, Words
    <3>4. CASE r = CoverRegion
      BY <2>2, <2>3, <2>4, <2>5, <2>6, <2>7, <3>4 DEF CoverRegion, Words
    <3>5. CASE r = MutableRegion
      BY <2>2, <2>5, <3>5 DEF MutableRegion, Words
    <3>6. CASE r = ImmutableRegion
      BY <2>2, <2>5, <3>6 DEF ImmutableRegion, Words
    <3> QED BY <3>1, <3>2, <3>3, <3>4, <3>5, <3>6 DEF Regions
  <2>9. ASSUME NEW i \in 1 .. count
        PROVE  \E a, n \in Nat : EntryRegion(i) = Region(a, n) /\ a + n <= info.payload
    <3>1. entries \in [1 .. count -> Entry] /\ entries[i].at + entries[i].n <= info.payload
      BY <2>0, <2>1 DEF EntriesSound
    <3>2. entries[i].at \in Nat /\ entries[i].n \in Nat
      BY <3>1 DEF Entry, Words
    <3> QED BY <3>1, <3>2 DEF EntryRegion
  <2>10. ASSUME NEW r \in Regions PROVE r.at + r.n <= FooterAt
    BY <2>8 DEF Region
  <2>11. ASSUME NEW i \in 1 .. count PROVE Inside(EntryRegion(i), PayloadRegion)
    BY <2>2, <2>9 DEF Inside, PayloadRegion, Region, Words
  <2>12. ASSUME NEW r \in Regions \cup {EntryRegion(i) : i \in 1 .. count},
                NEW from \in 0 .. r.n, NEW n \in Words
         PROVE  Inside(ReadAt(r, from, n), r)
    <3>1. PICK a \in Nat, k \in Nat : r = Region(a, k) /\ a + k < Modulus
      BY <2>2, <2>8, <2>9 DEF Words
    <3>2. from \in 0 .. k
      BY <3>1 DEF Region
    <3> QED BY <3>1, <3>2, PartInside
  <2> QED BY <2>10, <2>11, <2>12 DEF ReadsInside
<1> QED BY <1>1, ReaderSound, PTL

-----------------------------------------------------------------------------
(***************************************************************************)
(* What holds of the writer at work.                                       *)
(***************************************************************************)
Appending == {"payload", "metadata", "cover", "padding", "mutable", "footer"}
Working == Appending \cup {"done"}

Parts == {"entry", "index", "metadata", "cover", "header", "footer"}
Byte == (Parts \X Nat \X Nat) \cup {<<"zero">>}
Count == Len(job.sizes)
IndexBytes == IndexHeader + Count * IndexEntry

WriterTyped ==
  /\ wstep \in Working \cup {"none", "start", "abandoned"}
  /\ wstep = "start" =>
       /\ placed = <<>> /\ bytes = <<>> /\ hashed = <<>>
       /\ offset = 0 /\ payload_size = 0
  /\ wstep \in Working =>
       /\ job \in Jobs
       /\ job.sizes # <<>> /\ SettingsOk(job)
       /\ job.start \in 1 .. Count /\ job.sizes[job.start] # 0
       /\ placed \in Seq(Nat) /\ Len(placed) <= Count
       /\ at \in [1 .. Count -> Words]
       /\ offset \in Words
       /\ payload_size \in Words
       /\ bytes \in Seq(Byte) /\ Len(bytes) < Modulus
       /\ hashed \in Seq(Byte)
       /\ wstep # "done" => Len(bytes) = offset
       /\ wstep # "payload" => Len(placed) = Count
       /\ wstep \in {"padding", "mutable"} => job.capacity # 0

\* The entries that have been streamed, when the entrypoint comes first.
Streamed ==
  {i \in 1 .. Count : /\ Len(placed) # 0
                      /\ \/ i = job.start
                         \/ i < job.start /\ i < Len(placed)
                         \/ job.start < i /\ i <= Len(placed)}

PayloadEnd == IF wstep = "payload" THEN offset ELSE payload_size

\* n bytes that belong together, in a file that holds b.
Lies(b, what, i, from, n) == from + n <= Len(b) /\ \A k \in 1 .. n : b[from + k] = <<what, i, k>>

Ends(i) == at[i] + job.sizes[i]

\* The streamed entries tile what has been written, the entrypoint first.
Streaming ==
  wstep \in Working =>
    /\ \A i \in Streamed : Ends(i) <= PayloadEnd /\ Lies(bytes, "entry", i, at[i], job.sizes[i])
    /\ \A i, j \in Streamed : i # j => Ends(i) <= at[j] \/ Ends(j) <= at[i]
    /\ \A x \in Words : x < PayloadEnd => \E i \in Streamed : at[i] <= x /\ x < Ends(i)
    /\ job.start \in Streamed => at[job.start] = 0

\* Where the regions behind the payload begin and end.
MetadataAt == payload_size + IndexBytes
CoverAt == MetadataAt + job.metadata
Contents == CoverAt + job.cover
Bottom == IF job.capacity = 0 THEN Contents ELSE AlignUp(Contents)

\* The regions written so far follow one another, and the hash has seen those
\* below the mutable region.
Following ==
  /\ wstep = "metadata" => offset = MetadataAt
  /\ wstep = "cover" => offset = CoverAt
  /\ wstep = "padding" => offset = Contents
  /\ wstep = "mutable" => offset = Bottom
  /\ wstep \in {"footer", "done"} => offset = Bottom + job.capacity
  /\ wstep \in {"cover", "padding", "mutable", "footer", "done"} => Lies(bytes, "metadata", 0, MetadataAt, job.metadata)
  /\ wstep \in {"padding", "mutable", "footer", "done"} => Lies(bytes, "cover", 0, CoverAt, job.cover)
  /\ wstep \in {"mutable", "footer", "done"} =>
       /\ Contents <= Bottom
       /\ job.capacity # 0 => Contents <= Modulus - Align
       /\ \A x \in Words : Contents <= x /\ x < Bottom => bytes[x + 1] = <<"zero">>
  /\ wstep \in {"footer", "done"} /\ job.capacity # 0 => Lies(bytes, "header", 0, Bottom, Align)
  /\ wstep \in Working =>
       /\ Len(hashed) = IF wstep \in {"footer", "done"} THEN Bottom ELSE Len(bytes)
       /\ \A k \in 1 .. Len(hashed) : hashed[k] = bytes[k]

\* What is on the disk in the end.
Finished ==
  wstep = "done" =>
    /\ Len(bytes) = offset + FooterSize
    /\ size = Len(bytes)
    /\ disk = [payload |-> payload_size, metadata |-> job.metadata, cover |-> job.cover,
               capacity |-> job.capacity, slots |-> job.slots, count |-> Count,
               entries |-> [i \in 1 .. Count |-> [at |-> at[i], n |-> job.sizes[i], start |-> i = job.start]],
               zeros |-> {x \in Words : x < offset /\ bytes[x + 1] = <<"zero">>}]

WriterSound == WriterTyped /\ Streaming /\ Following /\ Finished

\* How far the reader of a finished file is, and that it has found what is there.
Accepting ==
  /\ wstep \in Appending \cup {"start", "abandoned"} => step = "none" /\ Fresh
  /\ wstep = "done" =>
       /\ step \in Founded \cup {"footer", "failed"}
       /\ info \in [payload : Words, metadata : Words, cover : Words, capacity : Words]
       /\ step \in Founded => info.payload = payload_size /\ info.capacity = job.capacity
       /\ step \in Counted => count = Count
       /\ step \in {"footer", "index"} => entries = NoEntries
       /\ step = "entries" => \E k \in 0 .. Count : DOMAIN entries = 1 .. k
       /\ step \in Full => DOMAIN entries = 1 .. Count
       /\ step \in Counted => \A i \in DOMAIN entries : entries[i] = disk.entries[i]
       /\ step \in {"footer", "index", "entries"} => end = 0
       /\ step = "sweep" =>
            /\ end \in Words /\ end <= payload_size
            /\ left = {i \in 1 .. Count : job.sizes[i] # 0 /\ end <= at[i]}
            /\ \A i \in (1 .. Count) \ left : job.sizes[i] = 0 \/ Ends(i) <= end
       /\ step \in Placed => info.metadata = job.metadata /\ info.cover = job.cover
       /\ step = "ready" /\ job.capacity # 0 => slots = job.slots

-----------------------------------------------------------------------------
(* What is appended comes behind what there is.                            *)
LEMMA Joined ==
  ASSUME NEW s \in Seq(Byte), NEW t \in Seq(Byte)
  PROVE  /\ s \o t \in Seq(Byte)
         /\ Len(s) \in Nat /\ Len(t) \in Nat /\ Len(s \o t) = Len(s) + Len(t)
         /\ \A k \in 1 .. Len(s) : (s \o t)[k] = s[k]
         /\ \A k \in 1 .. Len(t) : (s \o t)[Len(s) + k] = t[k]
  OBVIOUS

LEMMA TagFacts ==
  ASSUME NEW what \in Parts, NEW i \in Nat, NEW n \in Nat
  PROVE  /\ Tags(what, i, n) \in Seq(Byte) /\ Len(Tags(what, i, n)) = n
         /\ \A k \in 1 .. n : Tags(what, i, n)[k] = <<what, i, k>>
<1>1. ASSUME NEW k \in 1 .. n PROVE <<what, i, k>> \in Byte
  <2>1. k \in Nat
    OBVIOUS
  <2>2. <<what, i, k>> \in Parts \X Nat \X Nat
    BY <2>1, Zenon
  <2> QED BY <2>2, Zenon DEF Byte
<1> DEFINE t == Tags(what, i, n)
<1>2. t = [k \in 1 .. n |-> <<what, i, k>>]
  BY DEF Tags
<1>3. DOMAIN t = 1 .. n /\ \A k \in 1 .. n : t[k] = <<what, i, k>>
  BY <1>2, Zenon
<1>4. \A k \in 1 .. n : t[k] \in Byte
  BY <1>1, <1>3, Zenon
<1>5. t \in [1 .. n -> Byte]
  BY <1>2, <1>3, <1>4, Zenon
<1> HIDE DEF t
<1>6. t \in Seq(Byte) /\ Len(t) = n
  BY <1>5
<1> QED BY <1>3, <1>6 DEF t

LEMMA ZeroFacts ==
  ASSUME NEW n \in Nat
  PROVE  /\ Zeroes(n) \in Seq(Byte) /\ Len(Zeroes(n)) = n
         /\ \A k \in 1 .. n : Zeroes(n)[k] = <<"zero">>
<1>1. <<"zero">> \in Byte
  BY DEF Byte
<1> QED BY <1>1 DEF Zeroes

\* A file that only grows keeps what lies in it.
Extends(b, c) == Len(b) \in Nat /\ Len(c) \in Nat /\ Len(b) <= Len(c) /\ \A k \in 1 .. Len(b) : c[k] = b[k]

LEMMA LiesOn ==
  ASSUME NEW b, NEW c, Extends(b, c), NEW what, NEW i, NEW from \in Nat, NEW n \in Nat,
         Lies(b, what, i, from, n)
  PROVE  Lies(c, what, i, from, n)
<1>1. from + n <= Len(c)
  BY DEF Extends, Lies
<1>2. ASSUME NEW k \in 1 .. n PROVE c[from + k] = <<what, i, k>>
  <2>1. from + k \in 1 .. Len(b)
    BY DEF Extends, Lies
  <2> QED BY <2>1 DEF Extends, Lies
<1> QED BY <1>1, <1>2 DEF Lies

LEMMA SizeFacts ==
  ASSUME WriterTyped, wstep \in Working
  PROVE  /\ job \in Job /\ Count \in Nat \ {0} /\ Modulus \in Nat
         /\ \A i \in 1 .. Count : job.sizes[i] \in Nat /\ job.sizes[i] < Modulus /\ at[i] \in Nat
         /\ job.metadata \in Nat /\ job.cover \in Nat /\ job.capacity \in Nat /\ job.slots \in Nat
         /\ IndexBytes \in Nat /\ offset \in Nat /\ payload_size \in Nat
         /\ Len(bytes) \in Nat /\ Len(hashed) \in Nat /\ Len(placed) \in Nat
         /\ Align \in Nat \ {0} /\ FooterSize \in Nat \ {0}
<1>1. job \in Job
  BY JobAssumption DEF WriterTyped
<1>2. job.sizes \in Seq(Words) /\ job.sizes # <<>> /\ Modulus \in Nat
  BY <1>1, ContainerAssumption DEF Job, WriterTyped
<1>3. Count \in Nat \ {0} /\ \A i \in 1 .. Count : job.sizes[i] \in Words
  BY <1>2 DEF Count
<1>4. IndexHeader \in Nat /\ IndexEntry \in Nat /\ Align \in Nat \ {0} /\ FooterSize \in Nat \ {0}
  BY ContainerAssumption DEF Words
<1>5. IndexBytes \in Nat
  <2>1. Count * IndexEntry \in Nat
    BY <1>3, <1>4
  <2> QED BY <1>4, <2>1 DEF IndexBytes
<1>6. job.metadata \in Nat /\ job.cover \in Nat /\ job.capacity \in Nat /\ job.slots \in Nat
  BY <1>1 DEF Job, Words
<1>7. \A i \in 1 .. Count : at[i] \in Nat
  BY DEF WriterTyped, Words
<1>8. /\ offset \in Nat /\ payload_size \in Nat
      /\ Len(bytes) \in Nat /\ Len(hashed) \in Nat /\ Len(placed) \in Nat
  BY DEF WriterTyped, Words
<1> QED BY <1>1, <1>2, <1>3, <1>4, <1>5, <1>6, <1>7, <1>8 DEF Words

LEMMA Written ==
  ASSUME WriterTyped, wstep \in Appending, NEW tags \in Seq(Byte), Write(tags)
  PROVE  /\ bytes' \in Seq(Byte)
         /\ Len(tags) \in Nat
         /\ Len(bytes') = offset + Len(tags) /\ Len(bytes') < Modulus
         /\ Add(offset, Len(tags)) = offset + Len(tags) /\ offset + Len(tags) \in Words
         /\ Extends(bytes, bytes')
         /\ \A k \in 1 .. Len(tags) : bytes'[offset + k] = tags[k]
<1>1. bytes \in Seq(Byte) /\ Len(bytes) = offset /\ offset \in Nat /\ Modulus \in Nat
  BY SizeFacts DEF WriterTyped, Working, Appending
<1>2. bytes' = bytes \o tags /\ offset + Len(tags) < Modulus
  BY <1>1 DEF Write
<1>3. /\ bytes' \in Seq(Byte) /\ Len(tags) \in Nat /\ Len(bytes') = offset + Len(tags)
      /\ \A k \in 1 .. Len(bytes) : bytes'[k] = bytes[k]
      /\ \A k \in 1 .. Len(tags) : bytes'[offset + k] = tags[k]
  BY <1>1, <1>2, Joined
<1>4. Extends(bytes, bytes')
  BY <1>1, <1>3 DEF Extends
<1>5. Add(offset, Len(tags)) = offset + Len(tags) /\ offset + Len(tags) \in Words
  BY <1>1, <1>2, <1>3 DEF Add, Words
<1> QED BY <1>2, <1>3, <1>4, <1>5

Hashing == Len(hashed) = Len(bytes) /\ \A k \in 1 .. Len(hashed) : hashed[k] = bytes[k]

LEMMA Hashed ==
  ASSUME WriterTyped, Hashing, wstep \in Appending, NEW tags \in Seq(Byte), WriteImmutable(tags)
  PROVE  hashed' \in Seq(Byte) /\ Hashing'
<1>1. /\ bytes \in Seq(Byte) /\ hashed \in Seq(Byte) /\ Len(bytes) = Len(hashed)
      /\ hashed' = hashed \o tags /\ bytes' = bytes \o tags
  BY DEF WriterTyped, Working, Appending, WriteImmutable, Write, Hashing
<1> DEFINE n == Len(bytes)
<1>2. /\ hashed' \in Seq(Byte) /\ n \in Nat /\ Len(tags) \in Nat
      /\ Len(bytes') = n + Len(tags) /\ Len(hashed') = n + Len(tags)
      /\ \A k \in 1 .. n : bytes'[k] = bytes[k] /\ hashed'[k] = hashed[k]
      /\ \A k \in 1 .. Len(tags) : bytes'[n + k] = tags[k] /\ hashed'[n + k] = tags[k]
  <2>1. /\ n \in Nat /\ Len(tags) \in Nat /\ Len(bytes \o tags) = n + Len(tags)
        /\ \A k \in 1 .. n : (bytes \o tags)[k] = bytes[k]
        /\ \A k \in 1 .. Len(tags) : (bytes \o tags)[n + k] = tags[k]
    BY <1>1, Joined
  <2>2. /\ hashed \o tags \in Seq(Byte) /\ Len(hashed \o tags) = Len(hashed) + Len(tags)
        /\ \A k \in 1 .. Len(hashed) : (hashed \o tags)[k] = hashed[k]
        /\ \A k \in 1 .. Len(tags) : (hashed \o tags)[Len(hashed) + k] = tags[k]
    BY <1>1, Joined
  <2> QED BY <1>1, <2>1, <2>2
<1>3. ASSUME NEW k \in 1 .. n + Len(tags) PROVE hashed'[k] = bytes'[k]
  <2>1. CASE k \in 1 .. n
    BY <1>1, <1>2, <2>1 DEF Hashing
  <2>2. CASE k \notin 1 .. n
    <3>1. k - n \in 1 .. Len(tags) /\ n + (k - n) = k
      BY <1>2, <2>2
    <3> HIDE DEF n
    <3> QED BY <1>2, <3>1
  <2> QED BY <2>1, <2>2
<1> QED BY <1>2, <1>3 DEF Hashing

-----------------------------------------------------------------------------
(* One lemma for each step of the writer.                                  *)
LEMMA InitWriter == Init => WriterSound /\ Accepting
<1> SUFFICES ASSUME Init PROVE WriterSound /\ Accepting
  OBVIOUS
<1>1. wstep \in {"none", "start"} /\ wstep \notin Working /\ wstep \notin Appending
  BY DEF Init, Working, Appending
<1>2. wstep = "start" => step = "none" /\ Fresh
  BY DEF Init
<1>3. WriterTyped
  BY <1>1 DEF Init, WriterTyped
<1>4. Streaming /\ Following /\ Finished
  BY <1>1 DEF Streaming, Following, Finished
<1> QED BY <1>1, <1>2, <1>3, <1>4 DEF WriterSound, Accepting

\* There is nothing to read while the writer is at work.
LEMMA Waiting ==
  ASSUME Accepting, wstep \in Appending \cup {"start"}, wstep' \in Appending \cup {"abandoned"}, UNCHANGED reader
  PROVE  Accepting'
<1>1. step = "none" /\ Fresh
  BY DEF Accepting
<1>2. step' = "none" /\ Fresh' /\ wstep' # "done"
  BY <1>1 DEF reader, parsed, Fresh, Appending
<1> QED BY <1>2 DEF Accepting

LEMMA StartStep ==
  ASSUME WriterSound, Accepting, NEW j \in Jobs, Start(j)
  PROVE  WriterSound' /\ Accepting'
<1>1. /\ wstep = "start" /\ wstep' = "payload" /\ job' = j
      /\ j.sizes # <<>> /\ SettingsOk(j) /\ j.start \in DOMAIN j.sizes /\ j.sizes[j.start] # 0
      /\ at' = [i \in DOMAIN j.sizes |-> 0]
      /\ UNCHANGED <<reader, placed, offset, payload_size, bytes, hashed>>
  BY DEF Start
<1>2. placed = <<>> /\ bytes = <<>> /\ hashed = <<>> /\ offset = 0 /\ payload_size = 0
  BY <1>1 DEF WriterSound, WriterTyped
<1>3. j.sizes \in Seq(Words) /\ Modulus \in Nat /\ 0 \in Words
  BY JobAssumption, ContainerAssumption DEF Job, Words
<1>4. Count' = Len(j.sizes) /\ DOMAIN j.sizes = 1 .. Count' /\ Count' \in Nat
  BY <1>1, <1>3 DEF Count
<1>5. placed' \in Seq(Nat) /\ Len(placed') = 0 /\ bytes' \in Seq(Byte) /\ hashed' \in Seq(Byte) /\ Len(bytes') = 0 /\ Len(hashed') = 0
  BY <1>1, <1>2
<1>6. at' \in [1 .. Count' -> Words]
  BY <1>1, <1>3, <1>4
<1>7. SettingsOk(job)'
  BY <1>1 DEF SettingsOk
<1>8. WriterTyped'
  BY <1>1, <1>2, <1>3, <1>4, <1>5, <1>6, <1>7 DEF WriterTyped, Working, Appending, Words
<1>9. Streaming'
  <2>1. Streamed' = {}
    BY <1>5 DEF Streamed
  <2>2. PayloadEnd' = 0
    BY <1>1, <1>2 DEF PayloadEnd
  <2>3. \A x \in Words : ~(x < 0)
    BY DEF Words
  <2> QED BY <2>1, <2>2, <2>3 DEF Streaming
<1>10. Following'
  BY <1>1, <1>5 DEF Following, Working, Appending
<1>11. Finished'
  BY <1>1 DEF Finished
<1>12. Accepting'
  BY <1>1, Waiting DEF Appending
<1> QED BY <1>8, <1>9, <1>10, <1>11, <1>12 DEF WriterSound

\* The order of streaming: what is next has not been streamed, and is from then on.
LEMMA NextIsNew ==
  ASSUME WriterTyped, wstep = "payload", Len(placed) < Count, placed' = Append(placed, NextEntry), UNCHANGED job
  PROVE  /\ NextEntry \in 1 .. Count /\ NextEntry \notin Streamed
         /\ Streamed' = Streamed \cup {NextEntry}
         /\ Streamed \subseteq 1 .. Count
         /\ placed' \in Seq(Nat) /\ Len(placed') = Len(placed) + 1
         /\ job.start \in Streamed \/ (Streamed = {} /\ NextEntry = job.start)
         /\ Len(placed) = 0 => Streamed = {}
<1> DEFINE n == Len(placed)  c == NextEntry
<1>1. /\ n \in Nat /\ Count \in Nat /\ job.start \in 1 .. Count /\ placed \in Seq(Nat) /\ n < Count
  BY SizeFacts DEF WriterTyped, Working, Appending
<1>2. c = IF n = 0 THEN job.start ELSE IF n < job.start THEN n ELSE n + 1
  BY DEF NextEntry
<1>3. c \in 1 .. Count
  BY <1>1, <1>2
<1>4. placed' \in Seq(Nat) /\ Len(placed') = n + 1
  BY <1>1, <1>3
<1>5. Count' = Count /\ job'.start = job.start
  BY DEF Count
<1> DEFINE In(i, m) == m # 0 /\ (i = job.start \/ (i < job.start /\ i < m) \/ (job.start < i /\ i <= m))
<1>6. Streamed = {i \in 1 .. Count : In(i, n)} /\ Streamed' = {i \in 1 .. Count : In(i, n + 1)}
  BY <1>1, <1>4, <1>5 DEF Streamed
<1>7. ASSUME NEW i \in 1 .. Count PROVE In(i, n + 1) <=> In(i, n) \/ i = c
  <2> HIDE DEF n, c
  <2> QED BY <1>1, <1>2 DEF n, c
<1>8. ~In(c, n)
  <2> HIDE DEF n, c
  <2> QED BY <1>1, <1>2
<1>9. In(job.start, n) \/ (n = 0 /\ c = job.start)
  BY <1>1, <1>2
<1> HIDE DEF In
<1>10. Streamed' = Streamed \cup {c}
  BY <1>3, <1>6, <1>7
<1>11. n = 0 => Streamed = {}
  BY DEF Streamed
<1> QED BY <1>1, <1>3, <1>4, <1>6, <1>8, <1>9, <1>10, <1>11

LEMMA StreamStep ==
  ASSUME WriterSound, Accepting, StreamEntry
  PROVE  WriterSound' /\ Accepting'
<1>0. WriterTyped /\ Streaming /\ Following
  BY DEF WriterSound
<1>a. PICK c : c = NextEntry
  OBVIOUS
<1>b. PICK z : z = job.sizes[c]
  OBVIOUS
<1>1. /\ wstep = "payload" /\ wstep' = "payload" /\ Len(placed) < Count
      /\ at' = [at EXCEPT ![c] = offset]
      /\ WriteImmutable(Tags("entry", c, z))
      /\ offset' = Add(offset, z)
      /\ placed' = Append(placed, c)
      /\ UNCHANGED <<reader, job, payload_size>>
  BY <1>a, <1>b DEF StreamEntry, Count
<1>2. /\ c \in 1 .. Count /\ c \notin Streamed /\ Streamed' = Streamed \cup {c} /\ Streamed \subseteq 1 .. Count
      /\ placed' \in Seq(Nat) /\ Len(placed') = Len(placed) + 1
      /\ job.start \in Streamed \/ (Streamed = {} /\ c = job.start)
  BY <1>0, <1>a, <1>1, NextIsNew
<1>3. wstep \in Working /\ wstep \in Appending
  BY <1>1 DEF Working, Appending
<1>4. /\ Count \in Nat /\ offset \in Nat /\ Len(bytes) = offset /\ Modulus \in Nat
      /\ \A i \in 1 .. Count : job.sizes[i] \in Nat /\ at[i] \in Nat
      /\ Len(placed) \in Nat
  BY <1>0, <1>1, <1>3, SizeFacts DEF WriterTyped
<1>5. z \in Nat
  BY <1>b, <1>2, <1>4
<1>6. Tags("entry", c, z) \in Seq(Byte) /\ Len(Tags("entry", c, z)) = z /\ \A k \in 1 .. z : Tags("entry", c, z)[k] = <<"entry", c, k>>
  <2>1. c \in Nat /\ "entry" \in Parts
    BY <1>2, <1>4 DEF Parts
  <2> QED BY <1>5, <2>1, TagFacts
<1>7. /\ bytes' \in Seq(Byte) /\ Len(bytes') = offset + z /\ Len(bytes') < Modulus
      /\ offset' = offset + z /\ offset' \in Words
      /\ Extends(bytes, bytes')
      /\ \A k \in 1 .. z : bytes'[offset + k] = <<"entry", c, k>>
  <2> DEFINE t == Tags("entry", c, z)
  <2>1. t \in Seq(Byte) /\ Len(t) = z /\ Write(t)
    BY <1>1, <1>6 DEF WriteImmutable
  <2>2. \A k \in 1 .. z : t[k] = <<"entry", c, k>>
    BY <1>6
  <2> HIDE DEF t
  <2> QED BY <1>0, <1>1, <1>3, <2>1, <2>2, Written
<1>8. hashed' \in Seq(Byte) /\ Hashing'
  <2>1. Hashing
    BY <1>0, <1>1, <1>3 DEF Following, Hashing
  <2> QED BY <1>0, <1>1, <1>3, <1>6, <2>1, Hashed
<1>9. Count' = Count /\ \A i \in 1 .. Count : job'.sizes[i] = job.sizes[i]
  BY <1>1 DEF Count
<1>10. /\ at' \in [1 .. Count -> Words] /\ at'[c] = offset
       /\ \A i \in 1 .. Count : i # c => at'[i] = at[i]
  BY <1>0, <1>1, <1>2, <1>3 DEF WriterTyped
<1>11. WriterTyped'
  <2>1. Len(placed') <= Count
    BY <1>1, <1>2, <1>4
  <2>2. SettingsOk(job)'
    BY <1>0, <1>1, <1>3 DEF WriterTyped, SettingsOk
  <2> QED BY <1>0, <1>1, <1>2, <1>3, <1>7, <1>8, <1>9, <1>10, <2>1, <2>2 DEF WriterTyped, Working, Appending
<1>12. /\ Ends(c)' = offset + z
       /\ \A i \in Streamed : Ends(i)' = Ends(i) /\ Ends(i) \in Nat /\ at'[i] = at[i] /\ at[i] \in Nat /\ job.sizes[i] \in Nat /\ Ends(i) <= offset
                              /\ Lies(bytes, "entry", i, at[i], job.sizes[i])
  <2>1. Ends(c)' = offset + z
    BY <1>b, <1>1, <1>10 DEF Ends
  <2>2. ASSUME NEW i \in Streamed
        PROVE  Ends(i)' = Ends(i) /\ Ends(i) \in Nat /\ at'[i] = at[i] /\ at[i] \in Nat /\ job.sizes[i] \in Nat
    BY <1>1, <1>2, <1>4, <1>10 DEF Ends
  <2>3. \A i \in Streamed : Ends(i) <= offset /\ Lies(bytes, "entry", i, at[i], job.sizes[i])
    BY <1>0, <1>1, <1>3 DEF Streaming, PayloadEnd
  <2> QED BY <2>1, <2>2, <2>3
<1>13. Streaming'
  <2>1. PayloadEnd' = offset + z /\ PayloadEnd = offset
    BY <1>1, <1>7 DEF PayloadEnd
  <2>2. ASSUME NEW i \in Streamed'
        PROVE  Ends(i)' <= PayloadEnd' /\ Lies(bytes, "entry", i, at[i], job.sizes[i])'
    <3>1. CASE i = c
      <4>1. Lies(bytes', "entry", c, offset, z)
        BY <1>4, <1>5, <1>7 DEF Lies
      <4> QED BY <1>b, <1>1, <1>4, <1>5, <1>10, <1>12, <2>1, <3>1, <4>1
    <3>2. CASE i # c
      <4>1. i \in Streamed
        BY <1>2, <3>2
      <4>2. Lies(bytes', "entry", i, at[i], job.sizes[i])
        BY <1>7, <1>12, <4>1, LiesOn
      <4> QED BY <1>1, <1>4, <1>5, <1>12, <2>1, <4>1, <4>2
    <3> QED BY <3>1, <3>2
  <2>3. ASSUME NEW i \in Streamed', NEW k \in Streamed', i # k
        PROVE  Ends(i)' <= at'[k] \/ Ends(k)' <= at'[i]
    <3>1. CASE i = c
      BY <1>2, <1>10, <1>12, <2>3, <3>1
    <3>2. CASE k = c
      BY <1>2, <1>10, <1>12, <2>3, <3>2
    <3>3. CASE i # c /\ k # c
      <4>1. Ends(i) <= at[k] \/ Ends(k) <= at[i]
        BY <1>0, <1>2, <1>3, <2>3, <3>3 DEF Streaming
      <4> QED BY <1>2, <1>12, <3>3, <4>1
    <3> QED BY <3>1, <3>2, <3>3
  <2>4. ASSUME NEW x \in Words, x < PayloadEnd'
        PROVE  \E i \in Streamed' : at'[i] <= x /\ x < Ends(i)'
    <3>1. x \in Nat
      BY DEF Words
    <3>2. CASE x < offset
      <4>1. PICK i \in Streamed : at[i] <= x /\ x < Ends(i)
        BY <1>0, <1>3, <2>1, <3>2 DEF Streaming
      <4> QED BY <1>2, <1>12, <4>1
    <3>3. CASE ~(x < offset)
      BY <1>2, <1>4, <1>10, <1>12, <2>1, <2>4, <3>1, <3>3
    <3> QED BY <3>2, <3>3
  <2>5. job'.start \in Streamed' => at'[job'.start] = 0
    <3>1. CASE job.start \in Streamed
      BY <1>0, <1>1, <1>2, <1>3, <1>12, <3>1 DEF Streaming
    <3>2. CASE Streamed = {} /\ c = job.start
      <4>1. offset = 0
        <5> SUFFICES ASSUME offset # 0 PROVE FALSE
          OBVIOUS
        <5>1. 0 \in Words /\ 0 < PayloadEnd
          BY <1>4, <1>7, <2>1 DEF Words
        <5> QED BY <1>0, <1>3, <3>2, <5>1 DEF Streaming
      <4> QED BY <1>1, <1>10, <3>2, <4>1
    <3> QED BY <1>2, <3>1, <3>2
  <2> QED BY <2>2, <2>3, <2>4, <2>5 DEF Streaming
<1>14. Following'
  BY <1>1, <1>3, <1>8 DEF Following, Hashing
<1>15. Finished' /\ Accepting'
  BY <1>1, <1>3, Waiting DEF Finished, Appending
<1> QED BY <1>11, <1>13, <1>14, <1>15 DEF WriterSound

LEMMA StreamingOn ==
  ASSUME WriterTyped, Streaming, wstep \in Working, wstep' \in Working, UNCHANGED <<job, placed, at>>,
         PayloadEnd' = PayloadEnd, Extends(bytes, bytes')
  PROVE  Streaming'
<1>1. /\ Streamed' = Streamed /\ Streamed \subseteq 1 .. Count
      /\ \A i \in 1 .. Count : Ends(i)' = Ends(i) /\ at[i] \in Nat /\ job.sizes[i] \in Nat
  BY SizeFacts DEF Streamed, Count, Ends
<1>2. ASSUME NEW i \in Streamed PROVE Lies(bytes, "entry", i, at[i], job.sizes[i])'
  <2>1. Lies(bytes, "entry", i, at[i], job.sizes[i])
    BY DEF Streaming
  <2>2. Lies(bytes', "entry", i, at[i], job.sizes[i])
    BY <1>1, <2>1, LiesOn
  <2> QED BY <2>2
<1>3. /\ \A i \in Streamed : Ends(i)' <= PayloadEnd'
      /\ \A i, j \in Streamed : i # j => Ends(i)' <= at'[j] \/ Ends(j)' <= at'[i]
      /\ \A x \in Words : x < PayloadEnd' => \E i \in Streamed : at'[i] <= x /\ x < Ends(i)'
      /\ job'.start \in Streamed => at'[job'.start] = 0
  BY <1>1 DEF Streaming
<1> QED BY <1>1, <1>2, <1>3 DEF Streaming

LEMMA TypedOn ==
  ASSUME WriterTyped, wstep \in Appending, wstep' \in Working \ {"payload"}, Len(placed) = Count,
         UNCHANGED <<job, placed, at>>, payload_size' \in Words, offset' \in Words,
         bytes' \in Seq(Byte), Len(bytes') < Modulus, hashed' \in Seq(Byte),
         wstep' \in {"padding", "mutable"} => job.capacity # 0,
         wstep' # "done" => Len(bytes') = offset'
  PROVE  WriterTyped'
<1>1. Count' = Count /\ SettingsOk(job)' /\ wstep \in Working /\ wstep' # "start"
  BY DEF Count, SettingsOk, WriterTyped, Working, Appending
<1> QED BY <1>1 DEF WriterTyped

LEMMA RegionFacts ==
  ASSUME WriterTyped, wstep \in Working
  PROVE  /\ MetadataAt \in Nat /\ MetadataAt = payload_size + IndexBytes
         /\ CoverAt \in Nat /\ CoverAt = MetadataAt + job.metadata
         /\ Contents \in Nat /\ Contents = CoverAt + job.cover
<1>1. payload_size \in Nat /\ IndexBytes \in Nat /\ job.metadata \in Nat /\ job.cover \in Nat
  BY SizeFacts
<1>2. MetadataAt = payload_size + IndexBytes /\ MetadataAt \in Nat
  BY <1>1 DEF MetadataAt
<1>3. CoverAt = MetadataAt + job.metadata /\ CoverAt \in Nat
  BY <1>1, <1>2 DEF CoverAt
<1>4. Contents = CoverAt + job.cover /\ Contents \in Nat
  BY <1>1, <1>3 DEF Contents
<1> QED BY <1>2, <1>3, <1>4

\* What has been laid down stays there, and the places of the regions stay what they are.
LEMMA FollowingOn ==
  ASSUME WriterTyped, wstep \in Working, UNCHANGED <<job, payload_size>>, Extends(bytes, bytes')
  PROVE  /\ IndexBytes' = IndexBytes /\ MetadataAt' = MetadataAt /\ CoverAt' = CoverAt /\ Contents' = Contents
         /\ Bottom' = Bottom
         /\ Lies(bytes, "metadata", 0, MetadataAt, job.metadata) => Lies(bytes, "metadata", 0, MetadataAt, job.metadata)'
         /\ Lies(bytes, "cover", 0, CoverAt, job.cover) => Lies(bytes, "cover", 0, CoverAt, job.cover)'
<1>1. IndexBytes' = IndexBytes /\ MetadataAt' = MetadataAt /\ CoverAt' = CoverAt /\ Contents' = Contents /\ Bottom' = Bottom
  BY DEF IndexBytes, Count, MetadataAt, CoverAt, Contents, Bottom
<1>2. MetadataAt \in Nat /\ CoverAt \in Nat /\ job.metadata \in Nat /\ job.cover \in Nat
  BY RegionFacts, SizeFacts
<1>3. Lies(bytes, "metadata", 0, MetadataAt, job.metadata) => Lies(bytes', "metadata", 0, MetadataAt, job.metadata)
  BY <1>2, LiesOn
<1>4. Lies(bytes, "cover", 0, CoverAt, job.cover) => Lies(bytes', "cover", 0, CoverAt, job.cover)
  BY <1>2, LiesOn
<1> QED BY <1>1, <1>3, <1>4

LEMMA IndexWritten ==
  ASSUME WriterSound, Accepting, WriteIndex
  PROVE  WriterSound' /\ Accepting'
<1> DEFINE t == Tags("index", 0, IndexBytes)
<1>0. WriterTyped /\ Streaming /\ Following
  BY DEF WriterSound
<1>1. /\ wstep = "payload" /\ wstep' = "metadata" /\ Len(placed) = Count
      /\ payload_size' = offset
      /\ WriteImmutable(t)
      /\ offset' = Add(offset, IndexBytes)
      /\ UNCHANGED <<reader, job, placed, at>>
  BY DEF WriteIndex, Count, IndexBytes
<1>2. wstep \in Appending /\ wstep \in Working
  BY <1>1 DEF Appending, Working
<1>3. IndexBytes \in Nat /\ "index" \in Parts
  BY <1>0, <1>2, SizeFacts DEF Parts
<1>4. t \in Seq(Byte) /\ Len(t) = IndexBytes /\ Write(t)
  BY <1>1, <1>3, TagFacts DEF WriteImmutable
<1> HIDE DEF t
<1>5. /\ bytes' \in Seq(Byte) /\ Len(bytes') = offset + IndexBytes /\ Len(bytes') < Modulus
      /\ offset' = offset + IndexBytes /\ offset' \in Words /\ Extends(bytes, bytes')
  BY <1>0, <1>1, <1>2, <1>4, Written
<1>6. hashed' \in Seq(Byte) /\ Hashing'
  <2>1. Hashing
    BY <1>0, <1>1, <1>2 DEF Following, Hashing
  <2> QED BY <1>0, <1>1, <1>2, <1>4, <2>1, Hashed
<1>7. wstep' \in Working
  BY <1>1 DEF Appending, Working
<1>8. WriterTyped'
  <2>1. payload_size' \in Words
    BY <1>0, <1>1, <1>2 DEF WriterTyped
  <2> QED BY <1>0, <1>1, <1>2, <1>5, <1>6, <1>7, <2>1, TypedOn
<1>9. Streaming'
  <2>1. PayloadEnd' = PayloadEnd
    BY <1>1 DEF PayloadEnd
  <2> QED BY <1>0, <1>1, <1>2, <1>5, <1>7, <2>1, StreamingOn
<1>10. Following'
  <2>1. MetadataAt' = offset + IndexBytes
    BY <1>1 DEF MetadataAt, IndexBytes, Count
  <2> QED BY <1>1, <1>5, <1>6, <2>1 DEF Following, Hashing
<1>11. Finished' /\ Accepting'
  BY <1>1, <1>2, Waiting DEF Finished, Appending
<1> QED BY <1>8, <1>9, <1>10, <1>11 DEF WriterSound

LEMMA MetadataWritten ==
  ASSUME WriterSound, Accepting, WriteMetadata
  PROVE  WriterSound' /\ Accepting'
<1> DEFINE t == Tags("metadata", 0, job.metadata)
<1>0. WriterTyped /\ Streaming /\ Following
  BY DEF WriterSound
<1>1. /\ wstep = "metadata" /\ wstep' = "cover"
      /\ WriteImmutable(t)
      /\ offset' = Add(offset, job.metadata)
      /\ UNCHANGED <<reader, job, placed, at, payload_size>>
  BY DEF WriteMetadata
<1>2. wstep \in Appending /\ wstep \in Working
  BY <1>1 DEF Appending, Working
<1>3. job.metadata \in Nat /\ "metadata" \in Parts
  BY <1>0, <1>2, SizeFacts DEF Parts
<1>4. t \in Seq(Byte) /\ Len(t) = job.metadata /\ Write(t) /\ \A k \in 1 .. job.metadata : t[k] = <<"metadata", 0, k>>
  BY <1>1, <1>3, TagFacts DEF WriteImmutable
<1> HIDE DEF t
<1>5. /\ bytes' \in Seq(Byte) /\ Len(bytes') = offset + job.metadata /\ Len(bytes') < Modulus
      /\ offset' = offset + job.metadata /\ offset' \in Words /\ Extends(bytes, bytes')
      /\ \A k \in 1 .. job.metadata : bytes'[offset + k] = <<"metadata", 0, k>>
  BY <1>0, <1>1, <1>2, <1>4, Written
<1>6. hashed' \in Seq(Byte) /\ Hashing'
  <2>1. Hashing
    BY <1>0, <1>1, <1>2 DEF Following, Hashing
  <2> QED BY <1>0, <1>1, <1>2, <1>4, <2>1, Hashed
<1>7. wstep' \in Working
  BY <1>1 DEF Appending, Working
<1>8. WriterTyped'
  <2>1. payload_size' \in Words /\ Len(placed) = Count
    BY <1>0, <1>1, <1>2 DEF WriterTyped
  <2> QED BY <1>0, <1>1, <1>2, <1>5, <1>6, <1>7, <2>1, TypedOn
<1>9. Streaming'
  <2>1. PayloadEnd' = PayloadEnd
    BY <1>1 DEF PayloadEnd
  <2> QED BY <1>0, <1>1, <1>2, <1>5, <1>7, <2>1, StreamingOn
<1>10. Following'
  <2>1. /\ offset = MetadataAt /\ MetadataAt \in Nat /\ CoverAt = MetadataAt + job.metadata
        /\ MetadataAt' = MetadataAt /\ CoverAt' = CoverAt
    BY <1>0, <1>1, <1>2, <1>5, FollowingOn, RegionFacts DEF Following
  <2>2. Lies(bytes, "metadata", 0, MetadataAt, job.metadata)'
    <3>1. MetadataAt' = offset /\ job' = job
      BY <1>1, <2>1
    <3>2. /\ offset + job.metadata <= Len(bytes')
          /\ \A k \in 1 .. job.metadata : bytes'[offset + k] = <<"metadata", 0, k>>
      BY <1>3, <1>5, <2>1
    <3> QED BY <3>1, <3>2, Zenon DEF Lies
  <2> QED BY <1>1, <1>5, <1>6, <2>1, <2>2 DEF Following, Hashing
<1>11. Finished' /\ Accepting'
  BY <1>1, <1>2, Waiting DEF Finished, Appending
<1> QED BY <1>8, <1>9, <1>10, <1>11 DEF WriterSound

LEMMA CoverWritten ==
  ASSUME WriterSound, Accepting, WriteCover
  PROVE  WriterSound' /\ Accepting'
<1> DEFINE t == Tags("cover", 0, job.cover)
<1>0. WriterTyped /\ Streaming /\ Following
  BY DEF WriterSound
<1>1. /\ wstep = "cover" /\ wstep' = IF job.capacity = 0 THEN "footer" ELSE "padding"
      /\ WriteImmutable(t)
      /\ offset' = Add(offset, job.cover)
      /\ UNCHANGED <<reader, job, placed, at, payload_size>>
  BY DEF WriteCover
<1>2. wstep \in Appending /\ wstep \in Working
  BY <1>1 DEF Appending, Working
<1>3. job.cover \in Nat /\ "cover" \in Parts /\ job.capacity \in Nat
  BY <1>0, <1>2, SizeFacts DEF Parts
<1>4. t \in Seq(Byte) /\ Len(t) = job.cover /\ Write(t) /\ \A k \in 1 .. job.cover : t[k] = <<"cover", 0, k>>
  BY <1>1, <1>3, TagFacts DEF WriteImmutable
<1> HIDE DEF t
<1>5. /\ bytes' \in Seq(Byte) /\ Len(bytes') = offset + job.cover /\ Len(bytes') < Modulus
      /\ offset' = offset + job.cover /\ offset' \in Words /\ Extends(bytes, bytes')
      /\ \A k \in 1 .. job.cover : bytes'[offset + k] = <<"cover", 0, k>>
  BY <1>0, <1>1, <1>2, <1>4, Written
<1>6. hashed' \in Seq(Byte) /\ Hashing'
  <2>1. Hashing
    BY <1>0, <1>1, <1>2 DEF Following, Hashing
  <2> QED BY <1>0, <1>1, <1>2, <1>4, <2>1, Hashed
<1>7. wstep' \in Working \ {"payload", "done", "mutable"} /\ (wstep' = "padding" => job.capacity # 0)
  BY <1>1 DEF Appending, Working
<1>8. WriterTyped'
  <2>1. payload_size' \in Words /\ Len(placed) = Count
    BY <1>0, <1>1, <1>2 DEF WriterTyped
  <2> QED BY <1>0, <1>1, <1>2, <1>5, <1>6, <1>7, <2>1, TypedOn
<1>9. Streaming'
  <2>1. PayloadEnd' = PayloadEnd
    BY <1>1 DEF PayloadEnd
  <2> QED BY <1>0, <1>1, <1>2, <1>5, <1>7, <2>1, StreamingOn
<1>10. Following'
  <2>1. /\ offset = CoverAt /\ CoverAt \in Nat /\ Contents = CoverAt + job.cover /\ Contents \in Nat
        /\ CoverAt' = CoverAt /\ Contents' = Contents
        /\ Lies(bytes, "metadata", 0, MetadataAt, job.metadata)'
    BY <1>0, <1>1, <1>2, <1>5, FollowingOn, RegionFacts DEF Following
  <2>2. Lies(bytes, "cover", 0, CoverAt, job.cover)'
    <3>1. CoverAt' = offset /\ job' = job
      BY <1>1, <2>1
    <3>2. /\ offset + job.cover <= Len(bytes')
          /\ \A k \in 1 .. job.cover : bytes'[offset + k] = <<"cover", 0, k>>
      BY <1>3, <1>5, <2>1
    <3> QED BY <3>1, <3>2, Zenon DEF Lies
  <2>3. CASE job.capacity = 0
    <3>1. Bottom' = Contents /\ wstep' = "footer" /\ job'.capacity = 0 /\ offset' = Contents
      BY <1>1, <1>5, <2>1, <2>3 DEF Bottom
    <3>2. \A x \in Words : ~(Contents' <= x /\ x < Bottom')
      BY <2>1, <3>1 DEF Words
    <3> QED BY <1>5, <1>6, <2>1, <2>2, <3>1, <3>2 DEF Following, Hashing
  <2>4. CASE job.capacity # 0
    <3>1. wstep' = "padding"
      BY <1>1, <2>4
    <3> QED BY <1>1, <1>5, <1>6, <2>1, <2>2, <3>1 DEF Following, Hashing
  <2> QED BY <2>3, <2>4
<1>11. Finished' /\ Accepting'
  BY <1>1, <1>2, Waiting DEF Finished, Appending
<1> QED BY <1>8, <1>9, <1>10, <1>11 DEF WriterSound

\* Rounding that wraps around leads to more zeroes than a file can take.
LEMMA RoundedUp ==
  ASSUME NEW x \in Words, x + Sub(AlignUp(x), x) < Modulus
  PROVE  /\ x <= Modulus - Align
         /\ AlignUp(x) \in Words /\ x <= AlignUp(x)
         /\ Sub(AlignUp(x), x) = AlignUp(x) - x
<1> DEFINE top == Add(x, Align - 1)
<1>1. Align \in Nat /\ Align > 0 /\ Align < Modulus /\ x \in Nat /\ Modulus \in Nat /\ x < Modulus
  BY ContainerAssumption DEF Words
<1>2. AlignUp(x) = top - (top % Align)
  BY DEF AlignUp
<1>3. CASE x <= Modulus - Align
  <2>1. top = x + (Align - 1) /\ top \in Nat
    BY <1>1, <1>3 DEF Add
  <2>2. top % Align \in 0 .. Align - 1
    BY <1>1, <2>1
  <2> HIDE DEF top
  <2>3. AlignUp(x) \in Nat /\ x <= AlignUp(x) /\ AlignUp(x) < Modulus
    BY <1>1, <1>2, <1>3, <2>1, <2>2
  <2>4. AlignUp(x) \in Words
    BY <1>1, <2>3 DEF Words
  <2> QED BY <1>3, <2>3, <2>4, Sums
<1>4. CASE ~(x <= Modulus - Align)
  <2>1. top = x + (Align - 1) - Modulus /\ top \in 0 .. Align - 1
    BY <1>1, <1>4 DEF Add
  <2>2. top % Align = top
    BY <1>1, <2>1
  <2> HIDE DEF top
  <2>3. AlignUp(x) = 0 /\ x > 0
    BY <1>1, <1>2, <1>4, <2>1, <2>2
  <2>4. Sub(AlignUp(x), x) = 0 - x + Modulus
    BY <1>1, <2>3 DEF Sub
  <2> QED BY <1>1, <2>4
<1> QED BY <1>3, <1>4

LEMMA PaddingWritten ==
  ASSUME WriterSound, Accepting, WritePadding
  PROVE  WriterSound' /\ Accepting'
<1> DEFINE n == Sub(AlignUp(offset), offset)  t == Zeroes(n)
<1>0. WriterTyped /\ Streaming /\ Following
  BY DEF WriterSound
<1>1. /\ wstep = "padding" /\ wstep' = "mutable"
      /\ WriteImmutable(t)
      /\ offset' = AlignUp(offset)
      /\ UNCHANGED <<reader, job, placed, at, payload_size>>
  BY DEF WritePadding
<1>2. wstep \in Appending /\ wstep \in Working
  BY <1>1 DEF Appending, Working
<1>3. /\ offset \in Words /\ offset \in Nat /\ Align - 1 \in Words /\ Align \in Nat \ {0} /\ Modulus \in Nat
      /\ job.capacity # 0
  <2>1. offset \in Words /\ job.capacity # 0
    BY <1>0, <1>1, <1>2 DEF WriterTyped
  <2> QED BY <2>1, ContainerAssumption DEF Words
<1>4. AlignUp(offset) \in Int /\ n \in Nat
  <2>1. Add(offset, Align - 1) \in Words
    BY <1>3, Sums
  <2>2. Add(offset, Align - 1) \in Nat /\ Add(offset, Align - 1) < Modulus
    BY <1>3, <2>1 DEF Words
  <2>3. Add(offset, Align - 1) % Align \in Nat /\ Add(offset, Align - 1) % Align <= Add(offset, Align - 1)
    BY <1>3, <2>2
  <2>4. AlignUp(offset) \in Words
    BY <2>2, <2>3, <1>3 DEF AlignUp, Words
  <2>5. n \in Words
    BY <1>3, <2>4, Sums
  <2> QED BY <2>4, <2>5 DEF Words
<1>5. t \in Seq(Byte) /\ Len(t) = n /\ Write(t) /\ \A k \in 1 .. n : t[k] = <<"zero">>
  <2> HIDE DEF n
  <2> QED BY <1>1, <1>4, ZeroFacts DEF WriteImmutable
<1> HIDE DEF t
<1>6. /\ bytes' \in Seq(Byte) /\ Len(bytes') = offset + n /\ Len(bytes') < Modulus
      /\ Extends(bytes, bytes')
      /\ \A k \in 1 .. n : bytes'[offset + k] = <<"zero">>
  BY <1>0, <1>1, <1>2, <1>5, Written
<1>7. /\ offset <= Modulus - Align /\ offset' \in Words /\ offset <= offset' /\ n = offset' - offset
      /\ Len(bytes') = offset' /\ offset' \in Nat
  <2>1. offset + Sub(AlignUp(offset), offset) < Modulus
    BY <1>6
  <2>2. /\ offset <= Modulus - Align /\ AlignUp(offset) \in Words /\ offset <= AlignUp(offset)
        /\ n = AlignUp(offset) - offset
    BY <1>3, <2>1, RoundedUp
  <2>3. AlignUp(offset) \in Nat
    BY <2>2 DEF Words
  <2> HIDE DEF n
  <2> QED BY <1>1, <1>3, <1>6, <2>2, <2>3
<1> HIDE DEF n
<1>8. hashed' \in Seq(Byte) /\ Hashing'
  <2>1. Hashing
    BY <1>0, <1>1, <1>2 DEF Following, Hashing
  <2> QED BY <1>0, <1>1, <1>2, <1>5, <2>1, Hashed
<1>9. wstep' \in Working
  BY <1>1 DEF Appending, Working
<1>10. WriterTyped'
  <2>1. payload_size' \in Words /\ Len(placed) = Count
    BY <1>0, <1>1, <1>2 DEF WriterTyped
  <2> QED BY <1>0, <1>1, <1>2, <1>3, <1>6, <1>7, <1>8, <1>9, <2>1, TypedOn
<1>11. Streaming'
  <2>1. PayloadEnd' = PayloadEnd
    BY <1>1 DEF PayloadEnd
  <2> QED BY <1>0, <1>1, <1>2, <1>6, <1>9, <2>1, StreamingOn
<1>12. Following'
  <2>1. /\ offset = Contents /\ Contents \in Nat /\ Contents' = Contents /\ Bottom' = Bottom /\ Bottom = AlignUp(Contents)
        /\ Lies(bytes, "metadata", 0, MetadataAt, job.metadata)'
        /\ Lies(bytes, "cover", 0, CoverAt, job.cover)'
    BY <1>0, <1>1, <1>2, <1>3, <1>6, FollowingOn, RegionFacts DEF Following, Bottom
  <2>2. offset' = Bottom' /\ Contents' <= Bottom' /\ Contents' <= Modulus - Align
    BY <1>1, <1>7, <2>1
  <2>3. ASSUME NEW x \in Words, Contents' <= x, x < Bottom' PROVE bytes'[x + 1] = <<"zero">>
    <3>1. x \in Nat /\ x + 1 - offset \in 1 .. n /\ offset + (x + 1 - offset) = x + 1
      BY <1>1, <1>3, <1>7, <2>1, <2>3 DEF Words
    <3> QED BY <1>6, <3>1
  <2> QED BY <1>1, <1>8, <2>1, <2>2, <2>3 DEF Following, Hashing
<1>13. Finished' /\ Accepting'
  BY <1>1, <1>2, Waiting DEF Finished, Appending
<1> QED BY <1>10, <1>11, <1>12, <1>13 DEF WriterSound

LEMMA MutableWritten ==
  ASSUME WriterSound, Accepting, WriteMutable
  PROVE  WriterSound' /\ Accepting'
<1> DEFINE h == Tags("header", 0, Align)  z == Zeroes(job.capacity - Align)
<1>0. WriterTyped /\ Streaming /\ Following
  BY DEF WriterSound
<1>1. /\ wstep = "mutable" /\ wstep' = "footer"
      /\ Write(h \o z)
      /\ offset' = Add(offset, job.capacity)
      /\ UNCHANGED <<reader, job, placed, at, payload_size, hashed>>
  BY DEF WriteMutable
<1>2. wstep \in Appending /\ wstep \in Working /\ wstep' \in Working
  BY <1>1 DEF Appending, Working
<1>3. /\ offset \in Nat /\ Align \in Nat \ {0} /\ job.capacity \in Nat /\ job.capacity # 0
      /\ job.slots \in Nat /\ SlotSize \in Nat /\ "header" \in Parts
  BY <1>0, <1>1, <1>2, SizeFacts, ContainerAssumption DEF WriterTyped, Words, Parts
<1>4. Align <= job.capacity
  <2>1. Align + job.slots * SlotSize < job.capacity
    BY <1>0, <1>2, <1>3 DEF WriterTyped, SettingsOk, DataAt
  <2>2. job.slots * SlotSize \in Nat
    BY <1>3
  <2> DEFINE p == job.slots * SlotSize
  <2> HIDE DEF p
  <2>3. Align + p < job.capacity /\ p \in Nat
    BY <2>1, <2>2 DEF p
  <2> QED BY <1>3, <2>3
<1>5. /\ h \in Seq(Byte) /\ Len(h) = Align /\ \A k \in 1 .. Align : h[k] = <<"header", 0, k>>
      /\ z \in Seq(Byte) /\ Len(z) = job.capacity - Align
  <2>1. h \in Seq(Byte) /\ Len(h) = Align /\ \A k \in 1 .. Align : h[k] = <<"header", 0, k>>
    BY <1>3, TagFacts
  <2>2. job.capacity - Align \in Nat
    BY <1>3, <1>4
  <2>3. z \in Seq(Byte) /\ Len(z) = job.capacity - Align
    BY <2>2, ZeroFacts
  <2> QED BY <2>1, <2>3
<1> HIDE DEF h, z
<1>6. h \o z \in Seq(Byte) /\ Len(h \o z) = job.capacity /\ \A k \in 1 .. Align : (h \o z)[k] = <<"header", 0, k>>
  <2>1. /\ h \o z \in Seq(Byte) /\ Len(h \o z) = Len(h) + Len(z)
        /\ \A k \in 1 .. Len(h) : (h \o z)[k] = h[k]
    BY <1>5, Joined
  <2>2. Len(h) + Len(z) = job.capacity
    BY <1>3, <1>5
  <2>3. \A k \in 1 .. Align : (h \o z)[k] = h[k]
    BY <1>5, <2>1
  <2> QED BY <1>5, <2>1, <2>2, <2>3
<1>7. /\ bytes' \in Seq(Byte) /\ Len(bytes') = offset + job.capacity /\ Len(bytes') < Modulus
      /\ offset' = offset + job.capacity /\ offset' \in Words /\ Extends(bytes, bytes')
      /\ \A k \in 1 .. Align : bytes'[offset + k] = <<"header", 0, k>>
  <2> DEFINE t == h \o z
  <2>1. t \in Seq(Byte) /\ Len(t) = job.capacity /\ Write(t) /\ \A k \in 1 .. Align : t[k] = <<"header", 0, k>>
    BY <1>1, <1>6
  <2> HIDE DEF t
  <2>2. /\ bytes' \in Seq(Byte) /\ Len(bytes') = offset + job.capacity /\ Len(bytes') < Modulus
        /\ offset' = offset + job.capacity /\ offset' \in Words /\ Extends(bytes, bytes')
        /\ \A k \in 1 .. job.capacity : bytes'[offset + k] = t[k]
    BY <1>0, <1>1, <1>2, <2>1, Written
  <2>3. \A k \in 1 .. Align : k \in 1 .. job.capacity
    BY <1>3, <1>4
  <2> QED BY <2>1, <2>2, <2>3
<1>8. WriterTyped'
  <2>1. payload_size' \in Words /\ Len(placed) = Count /\ hashed' \in Seq(Byte)
    BY <1>0, <1>1, <1>2 DEF WriterTyped
  <2> QED BY <1>0, <1>1, <1>2, <1>7, <2>1, TypedOn
<1>9. Streaming'
  <2>1. PayloadEnd' = PayloadEnd
    BY <1>1 DEF PayloadEnd
  <2> QED BY <1>0, <1>1, <1>2, <1>7, <2>1, StreamingOn
<1>10. Following'
  <2>1. /\ Lies(bytes, "metadata", 0, MetadataAt, job.metadata)'
        /\ Lies(bytes, "cover", 0, CoverAt, job.cover)'
        /\ Contents' = Contents /\ Bottom' = Bottom /\ Contents \in Nat
    BY <1>0, <1>1, <1>2, <1>7, FollowingOn, RegionFacts DEF Following
  <2>2. /\ offset = Bottom /\ Len(bytes) = offset /\ Contents <= Bottom /\ Contents <= Modulus - Align
        /\ Len(hashed) = Len(bytes) /\ \A k \in 1 .. Len(hashed) : hashed[k] = bytes[k]
        /\ \A x \in Words : Contents <= x /\ x < Bottom => bytes[x + 1] = <<"zero">>
    BY <1>0, <1>1, <1>2, <1>3 DEF Following, WriterTyped
  <2>3. Lies(bytes, "header", 0, Bottom, Align)'
    <3>1. Lies(bytes', "header", 0, offset, Align)
      BY <1>3, <1>4, <1>7 DEF Lies
    <3> QED BY <2>1, <2>2, <3>1
  <2>4. ASSUME NEW x \in Words, Contents <= x, x < Bottom PROVE bytes'[x + 1] = <<"zero">>
    <3>1. x + 1 \in 1 .. Len(bytes)
      BY <1>3, <2>2, <2>4 DEF Words
    <3> QED BY <1>7, <2>2, <2>4, <3>1 DEF Extends
  <2>5. \A k \in 1 .. Len(hashed) : hashed[k] = bytes'[k]
    BY <1>7, <2>2 DEF Extends
  <2> QED BY <1>1, <1>7, <2>1, <2>2, <2>3, <2>4, <2>5 DEF Following
<1>11. Finished' /\ Accepting'
  BY <1>1, <1>2, Waiting DEF Finished, Appending
<1> QED BY <1>8, <1>9, <1>10, <1>11 DEF WriterSound

LEMMA FooterWritten ==
  ASSUME WriterSound, Accepting, WriteFooter
  PROVE  WriterSound' /\ Accepting'
<1> DEFINE t == Tags("footer", 0, FooterSize)
<1>0. WriterTyped /\ Streaming /\ Following
  BY DEF WriterSound
<1>1. /\ wstep = "footer" /\ wstep' = "done" /\ step' = "footer"
      /\ Write(t)
      /\ size' = Add(offset, FooterSize)
      /\ UNCHANGED <<parsed, job, placed, at, offset, payload_size, hashed>>
  BY DEF WriteFooter
<1>2. wstep \in Appending /\ wstep \in Working /\ wstep' \in Working
  BY <1>1 DEF Appending, Working
<1>3. FooterSize \in Nat \ {0} /\ "footer" \in Parts /\ offset \in Nat
  BY <1>0, <1>2, SizeFacts DEF Parts
<1>4. t \in Seq(Byte) /\ Len(t) = FooterSize
  BY <1>3, TagFacts
<1> HIDE DEF t
<1>5. /\ bytes' \in Seq(Byte) /\ Len(bytes') = offset + FooterSize /\ Len(bytes') < Modulus
      /\ size' = offset + FooterSize /\ Extends(bytes, bytes')
  BY <1>0, <1>1, <1>2, <1>4, Written
<1>6. WriterTyped'
  <2>1. payload_size' \in Words /\ offset' \in Words /\ Len(placed) = Count /\ hashed' \in Seq(Byte)
    BY <1>0, <1>1, <1>2 DEF WriterTyped
  <2> QED BY <1>0, <1>1, <1>2, <1>5, <2>1, TypedOn
<1>7. Streaming'
  <2>1. PayloadEnd' = PayloadEnd
    BY <1>1 DEF PayloadEnd
  <2> QED BY <1>0, <1>1, <1>2, <1>5, <2>1, StreamingOn
<1>8. Following'
  <2>1. /\ Lies(bytes, "metadata", 0, MetadataAt, job.metadata)'
        /\ Lies(bytes, "cover", 0, CoverAt, job.cover)'
        /\ Contents' = Contents /\ Bottom' = Bottom /\ Contents \in Nat
    BY <1>0, <1>1, <1>2, <1>5, FollowingOn, RegionFacts DEF Following
  <2>2. /\ offset = Bottom + job.capacity /\ Len(bytes) = offset /\ Contents <= Bottom
        /\ job.capacity # 0 => Contents <= Modulus - Align
        /\ Len(hashed) = Bottom /\ \A k \in 1 .. Len(hashed) : hashed[k] = bytes[k]
        /\ \A x \in Words : Contents <= x /\ x < Bottom => bytes[x + 1] = <<"zero">>
        /\ job.capacity # 0 => Lies(bytes, "header", 0, Bottom, Align)
        /\ job.capacity \in Nat /\ Align \in Nat
    BY <1>0, <1>1, <1>2, SizeFacts DEF Following, WriterTyped
  <2>3. Bottom \in Nat /\ Bottom <= Len(bytes)
    <3>1. Len(hashed) \in Nat
      BY <1>0, <1>2, SizeFacts
    <3> QED BY <2>2, <3>1
  <2>4. job.capacity # 0 => Lies(bytes, "header", 0, Bottom, Align)'
    <3>1. job.capacity # 0 => Lies(bytes', "header", 0, Bottom, Align)
      BY <1>5, <2>2, <2>3, LiesOn
    <3> QED BY <2>1, <3>1
  <2>5. ASSUME NEW x \in Words, Contents <= x, x < Bottom PROVE bytes'[x + 1] = <<"zero">>
    <3>1. x + 1 \in 1 .. Len(bytes)
      BY <1>3, <2>2, <2>3, <2>5 DEF Words
    <3> QED BY <1>5, <2>2, <2>5, <3>1 DEF Extends
  <2>6. \A k \in 1 .. Len(hashed) : hashed[k] = bytes'[k]
    BY <1>5, <2>2, <2>3 DEF Extends
  <2> QED BY <1>1, <2>1, <2>2, <2>4, <2>5, <2>6 DEF Following
<1>9. Finished'
  <2>1. DOMAIN at = 1 .. Count /\ Count' = Count
    BY <1>0, <1>1, <1>2 DEF WriterTyped, Count
  <2>2. disk' = [payload |-> payload_size, metadata |-> job.metadata, cover |-> job.cover,
                 capacity |-> job.capacity, slots |-> job.slots, count |-> Count,
                 entries |-> [i \in 1 .. Count |-> [at |-> at[i], n |-> job.sizes[i], start |-> i = job.start]],
                 zeros |-> {x \in Words : x < offset' /\ bytes'[x + 1] = <<"zero">>}]
    <3>1. disk' = [payload |-> payload_size, metadata |-> job.metadata, cover |-> job.cover,
                   capacity |-> job.capacity, slots |-> job.slots, count |-> Len(job.sizes),
                   entries |-> [i \in DOMAIN at |-> [at |-> at[i], n |-> job.sizes[i], start |-> i = job.start]],
                   zeros |-> {x \in Words : x < Len(bytes) /\ bytes[x + 1] = <<"zero">>}]
      BY Zenon DEF WriteFooter
    <3>2. ASSUME NEW x \in Words
          PROVE  x < Len(bytes) /\ bytes[x + 1] = <<"zero">> <=> x < offset' /\ bytes'[x + 1] = <<"zero">>
      <4>1. Len(bytes) = offset /\ offset' = offset
        BY <1>0, <1>1, <1>2 DEF WriterTyped
      <4>2. CASE x < offset
        <5>1. x + 1 \in 1 .. Len(bytes)
          BY <1>3, <4>1, <4>2 DEF Words
        <5> QED BY <1>5, <4>1, <5>1 DEF Extends
      <4>3. CASE ~(x < offset)
        BY <4>1, <4>3
      <4> QED BY <4>2, <4>3
    <3>3. {x \in Words : x < Len(bytes) /\ bytes[x + 1] = <<"zero">>} = {x \in Words : x < offset' /\ bytes'[x + 1] = <<"zero">>}
      BY <3>2, Zenon
    <3> QED BY <2>1, <3>1, <3>3, Zenon DEF Count
  <2> QED BY <1>1, <1>5, <2>1, <2>2 DEF Finished
<1>10. Accepting'
  <2>1. Fresh /\ UNCHANGED <<info, entries, end>>
    BY <1>1, <1>2 DEF Accepting, parsed
  <2>2. info' \in [payload : Words, metadata : Words, cover : Words, capacity : Words] /\ entries' = NoEntries /\ end' = 0
    BY <2>1, Nothing DEF Fresh
  <2> QED BY <1>1, <2>2 DEF Accepting, Appending, Founded, Counted, Full, Swept, Placed
<1> QED BY <1>6, <1>7, <1>8, <1>9, <1>10 DEF WriterSound

LEMMA AbandonStep ==
  ASSUME WriterSound, Accepting, Abandon
  PROVE  WriterSound' /\ Accepting'
<1>1. wstep \in Appending /\ wstep' = "abandoned" /\ UNCHANGED reader
  BY DEF Abandon, WriterSound, WriterTyped, Working
<1>2. Accepting'
  BY <1>1, Waiting
<1>3. wstep' \notin Working
  BY <1>1 DEF Working, Appending
<1> QED BY <1>1, <1>2, <1>3 DEF WriterSound, WriterTyped, Streaming, Following, Finished

-----------------------------------------------------------------------------
(* What the writer left, as the reader computes with it.                   *)
LEMMA DivisionBack ==
  ASSUME NEW a \in Nat, NEW b \in Nat, b > 0, NEW n \in Nat, n * b <= a
  PROVE  n <= a \div b
<1> DEFINE q == a \div b
<1>1. q \in Nat /\ a < b * q + b
  OBVIOUS
<1> HIDE DEF q
<1>2. SUFFICES ASSUME q + 1 <= n PROVE FALSE
  BY <1>1 DEF q
<1>3. (q + 1) * b <= n * b
  BY <1>1, <1>2
<1>4. (q + 1) * b = b * q + b
  BY <1>1
<1>5. n * b \in Nat /\ (q + 1) * b \in Nat /\ b * q \in Nat
  BY <1>1
<1> QED BY <1>1, <1>3, <1>4, <1>5

LEMMA Geometry ==
  ASSUME WriterSound, wstep = "done"
  PROVE  /\ size \in Words /\ FooterSize <= size
         /\ FooterAt = Bottom + job.capacity /\ FooterAt \in Words
         /\ Bottom \in Words /\ Bottom = size - FooterSize - job.capacity
         /\ Contents = payload_size + IndexBytes + job.metadata + job.cover
         /\ Contents <= Bottom /\ Contents \in Words
         /\ job.capacity = 0 => Contents = Bottom
         /\ payload_size # 0
<1>0. WriterTyped /\ Streaming /\ Following /\ Finished /\ wstep \in Working
  BY DEF WriterSound, Working
<1>1. /\ offset = Bottom + job.capacity /\ Contents <= Bottom /\ Len(hashed) = Bottom
      /\ Len(bytes) = offset + FooterSize /\ size = Len(bytes) /\ Len(bytes) < Modulus
  BY <1>0 DEF Following, Finished, WriterTyped
<1>2. /\ Len(hashed) \in Nat /\ job.capacity \in Nat /\ FooterSize \in Nat \ {0} /\ Modulus \in Nat
      /\ Contents \in Nat
      /\ payload_size \in Nat /\ IndexBytes \in Nat /\ job.metadata \in Nat /\ job.cover \in Nat
      /\ Count \in Nat /\ \A i \in 1 .. Count : job.sizes[i] \in Nat /\ at[i] \in Nat
  BY <1>0, SizeFacts, RegionFacts
<1>3. /\ size \in Words /\ FooterSize <= size /\ Bottom \in Words /\ Contents \in Words
      /\ Bottom + job.capacity \in Words /\ size = Bottom + job.capacity + FooterSize
  BY <1>1, <1>2 DEF Words
<1>4. FooterAt = size - FooterSize /\ FooterSize \in Words
  BY <1>2, <1>3, Sums, ContainerAssumption DEF FooterAt
<1>5. Contents = payload_size + IndexBytes + job.metadata + job.cover
  <2>1. MetadataAt = payload_size + IndexBytes /\ CoverAt = MetadataAt + job.metadata /\ Contents = CoverAt + job.cover
    BY <1>0, RegionFacts
  <2> QED BY <2>1
<1>6. job.capacity = 0 => Contents = Bottom
  BY DEF Bottom
<1>7. payload_size # 0
  <2>1. job.start \in 1 .. Count /\ job.sizes[job.start] # 0 /\ Len(placed) = Count /\ Count # 0
    BY <1>0, <1>2 DEF WriterTyped
  <2>2. job.start \in Streamed /\ PayloadEnd = payload_size
    BY <2>1 DEF Streamed, PayloadEnd
  <2>3. at[job.start] + job.sizes[job.start] <= payload_size
    BY <1>0, <2>2 DEF Streaming, Ends
  <2> QED BY <1>2, <2>1, <2>3
<1>8. FooterAt = Bottom + job.capacity /\ Bottom = size - FooterSize - job.capacity
  <2>1. Bottom \in Nat
    BY <1>3 DEF Words
  <2> QED BY <1>2, <1>3, <1>4, <2>1
<1> QED BY <1>1, <1>3, <1>5, <1>6, <1>7, <1>8

\* Every entry was streamed: they tile the payload.
LEMMA AllStreamed ==
  ASSUME WriterSound, wstep = "done"
  PROVE  /\ job.start \in 1 .. Count /\ job.sizes[job.start] # 0 /\ at[job.start] = 0
         /\ \A i \in 1 .. Count :
              /\ job.sizes[i] \in Words /\ at[i] \in Words /\ Ends(i) = at[i] + job.sizes[i]
              /\ Ends(i) <= payload_size /\ Lies(bytes, "entry", i, at[i], job.sizes[i])
         /\ \A i, j \in 1 .. Count : i # j => Ends(i) <= at[j] \/ Ends(j) <= at[i]
         /\ \A x \in Words : x < payload_size => \E i \in 1 .. Count : at[i] <= x /\ x < Ends(i)
<1>0. WriterTyped /\ Streaming /\ wstep \in Working /\ PayloadEnd = payload_size
  BY DEF WriterSound, Working, PayloadEnd
<1>1. Count \in Nat \ {0} /\ job.start \in 1 .. Count /\ job.sizes[job.start] # 0 /\ Len(placed) = Count
  BY <1>0, SizeFacts DEF WriterTyped
<1>2. Streamed = 1 .. Count
  BY <1>1 DEF Streamed
<1>3. \A i \in 1 .. Count : job.sizes[i] \in Words /\ at[i] \in Words
  <2>1. \A i \in 1 .. Count : job.sizes[i] \in Nat /\ job.sizes[i] < Modulus
    BY <1>0, SizeFacts
  <2>2. at \in [1 .. Count -> Words]
    BY <1>0 DEF WriterTyped
  <2>3. Modulus \in Nat
    BY ContainerAssumption
  <2> QED BY <2>1, <2>2, <2>3 DEF Words
<1> QED BY <1>0, <1>1, <1>2, <1>3 DEF Streaming, Ends

LEMMA OnDisk ==
  ASSUME WriterSound, wstep = "done"
  PROVE  /\ disk # Foreign
         /\ disk.payload = payload_size /\ disk.metadata = job.metadata /\ disk.cover = job.cover
         /\ disk.capacity = job.capacity /\ disk.slots = job.slots /\ disk.count = Count
         /\ \A i \in 1 .. Count : disk.entries[i] = [at |-> at[i], n |-> job.sizes[i], start |-> i = job.start]
         /\ Span(Contents, Bottom) \subseteq disk.zeros
<1>0. WriterTyped /\ Following /\ Finished /\ wstep \in Working
  BY DEF WriterSound, Working
<1> DEFINE es == [i \in 1 .. Count |-> [at |-> at[i], n |-> job.sizes[i], start |-> i = job.start]]
           zs == {x \in Words : x < offset /\ bytes[x + 1] = <<"zero">>}
<1>1. disk = [payload |-> payload_size, metadata |-> job.metadata, cover |-> job.cover,
              capacity |-> job.capacity, slots |-> job.slots, count |-> Count, entries |-> es, zeros |-> zs]
  BY <1>0 DEF Finished
<1>2. /\ payload_size \in Words /\ job.metadata \in Words /\ job.cover \in Words /\ job.capacity \in Words
      /\ job.slots \in Words /\ Count \in Nat
  BY <1>0, SizeFacts DEF WriterTyped, Job
<1>3. es \in Seq(Entry)
  <2>1. \A i \in 1 .. Count : [at |-> at[i], n |-> job.sizes[i], start |-> i = job.start] \in Entry
    BY AllStreamed DEF Entry
  <2>2. es \in [1 .. Count -> Entry]
    BY <2>1, Zenon
  <2> HIDE DEF es
  <2> QED BY <1>2, <2>2
<1>4. \A i \in 1 .. Count : es[i] = [at |-> at[i], n |-> job.sizes[i], start |-> i = job.start]
  OBVIOUS
<1>5. zs \in SUBSET Words
  OBVIOUS
<1>6. Span(Contents, Bottom) \subseteq zs
  <2> SUFFICES ASSUME NEW x \in Words, Contents <= x, x < Bottom PROVE x \in zs
    BY DEF Span
  <2>1. bytes[x + 1] = <<"zero">> /\ offset = Bottom + job.capacity
    BY <1>0 DEF Following
  <2>2. x \in Nat /\ Bottom \in Nat /\ job.capacity \in Nat
    BY <1>2, Geometry DEF Words
  <2>3. x < offset
    BY <2>1, <2>2
  <2> QED BY <2>1, <2>3
<1> HIDE DEF es, zs
<1>7. disk \in File
  BY <1>1, <1>2, <1>3, <1>5 DEF File
<1>8. disk # Foreign
  BY <1>7, JobAssumption
<1>9. disk.entries = es /\ disk.zeros = zs
  BY <1>1
<1> QED BY <1>1, <1>4, <1>6, <1>8, <1>9

LEMMA OwnPlaces ==
  ASSUME WriterSound, wstep = "done", info.capacity = job.capacity
  PROVE  MutableAt = Bottom /\ Immutable = Bottom
<1>1. /\ FooterAt \in Words /\ job.capacity \in Words /\ FooterAt = Bottom + job.capacity
      /\ Bottom \in Nat /\ job.capacity \in Nat
  <2>1. WriterTyped /\ wstep \in Working
    BY DEF WriterSound, Working
  <2>2. job.capacity \in Words
    BY <2>1, SizeFacts DEF Job
  <2> QED BY <2>2, Geometry DEF Words
<1>2. MutableAt = Bottom
  BY <1>1, Sums DEF MutableAt
<1> QED BY <1>1, <1>2 DEF Immutable

LEMMA WriterRests ==
  ASSUME WriterSound, UNCHANGED <<disk, size, writer>>
  PROVE  WriterSound'
<1>1. UNCHANGED <<disk, size, wstep, job, placed, at, offset, payload_size, bytes, hashed>>
  BY DEF writer, output
<1>2. WriterTyped'
  BY <1>1 DEF WriterSound, WriterTyped, SettingsOk, Count
<1>3. Streaming'
  <2>1. Streamed' = Streamed /\ PayloadEnd' = PayloadEnd /\ \A i \in Streamed : Ends(i)' = Ends(i)
    BY <1>1 DEF Streamed, Count, PayloadEnd, Ends
  <2> QED BY <1>1, <2>1 DEF WriterSound, Streaming
<1>4. Following'
  <2>1. MetadataAt' = MetadataAt /\ CoverAt' = CoverAt /\ Contents' = Contents /\ Bottom' = Bottom
    BY <1>1 DEF IndexBytes, Count, MetadataAt, CoverAt, Contents, Bottom
  <2> QED BY <1>1, <2>1 DEF WriterSound, Following
<1>5. Finished'
  BY <1>1 DEF WriterSound, Finished, Count
<1> QED BY <1>2, <1>3, <1>4, <1>5 DEF WriterSound

LEMMA Flagged ==
  ASSUME NEW e, NEW a, NEW n, NEW i, NEW first, e = [at |-> a, n |-> n, start |-> i = first]
  PROVE  e.start <=> i = first
<1>1. CASE i = first
  <2>1. e = [at |-> a, n |-> n, start |-> TRUE]
    BY <1>1, Zenon
  <2> QED BY <1>1, <2>1
<1>2. CASE i # first
  <2>1. e = [at |-> a, n |-> n, start |-> FALSE]
    BY <1>2
  <2> QED BY <1>2, <2>1
<1> QED BY <1>1, <1>2

LEMMA OwnFooter ==
  ASSUME WriterSound, Accepting, wstep = "done", UNCHANGED writer, ParseFooter
  PROVE  Accepting'
<1> USE DEF Founded, Counted, Full, Swept, Placed
<1>1. UNCHANGED <<wstep, job, placed, at, offset, payload_size, bytes, hashed>>
  BY DEF writer, output
<1> DEFINE p == payload_size  c == job.capacity
<1>2. IF FooterSize <= size /\ FooterOk(p, c)
      THEN /\ step' = "index"
           /\ info' = [NoInfo EXCEPT !.payload = p, !.capacity = c]
           /\ UNCHANGED <<disk, size, count, entries, end, left, slots, zero>>
      ELSE Refuse
  <2>1. disk.payload = p /\ disk.capacity = c /\ disk # Foreign
    BY OnDisk
  <2>2. Found(disk.payload, Words) = {p} /\ Found(disk.capacity, Words) = {c}
    BY <2>1 DEF Found
  <2>3. PICK q \in {p}, d \in {c} :
          IF FooterSize <= size /\ FooterOk(q, d)
          THEN /\ step' = "index"
               /\ info' = [NoInfo EXCEPT !.payload = q, !.capacity = d]
               /\ UNCHANGED <<disk, size, count, entries, end, left, slots, zero>>
          ELSE Refuse
    BY <2>2, Zenon DEF ParseFooter
  <2>4. q = p /\ d = c
    OBVIOUS
  <2> QED BY <2>3, <2>4, Zenon
<1>3. /\ p \in Words /\ c \in Words /\ p # 0 /\ Bottom \in Words /\ FooterAt \in Words
      /\ FooterAt = Bottom + c /\ p + IndexBytes <= Bottom /\ IndexHeader \in Words
      /\ IndexBytes \in Nat /\ IndexHeader <= IndexBytes /\ Modulus \in Nat
  <2>1. WriterTyped /\ wstep \in Working
    BY DEF WriterSound, Working
  <2>2. /\ job \in Job /\ IndexBytes \in Nat /\ job.metadata \in Nat /\ job.cover \in Nat /\ p \in Nat /\ Modulus \in Nat /\ Count \in Nat
    BY <2>1, SizeFacts
  <2>3. c \in Words /\ p \in Words
    BY <2>1, <2>2 DEF Job, WriterTyped
  <2>4. /\ Contents = payload_size + IndexBytes + job.metadata + job.cover /\ Contents <= Bottom /\ Bottom \in Words
        /\ FooterAt = Bottom + job.capacity /\ FooterAt \in Words /\ payload_size # 0
    BY Geometry
  <2>5. p + IndexBytes <= Bottom
    BY <2>2, <2>4 DEF Words
  <2>6. IndexHeader \in Words /\ IndexHeader \in Nat /\ IndexEntry \in Nat
    BY ContainerAssumption DEF Words
  <2>7. Count * IndexEntry \in Nat
    BY <2>2, <2>6
  <2>8. IndexHeader <= IndexBytes
    BY <2>6, <2>7 DEF IndexBytes
  <2> QED BY <2>2, <2>3, <2>4, <2>5, <2>6, <2>8
<1>4. FooterOk(p, c)
  <2>1. c <= FooterAt /\ Sub(FooterAt, c) = Bottom
    <3>1. c <= FooterAt /\ FooterAt - c = Bottom
      BY <1>3 DEF Words
    <3> QED BY <1>3, <3>1, Sums
  <2>2. p <= Bottom /\ p <= FooterAt
    BY <1>3 DEF Words
  <2>3. Sub(FooterAt, p) = FooterAt - p /\ Sub(Bottom, p) = Bottom - p
    BY <1>3, <2>2, Sums
  <2>4. FooterAt - p >= IndexHeader /\ Bottom - p >= IndexHeader
    BY <1>3 DEF Words
  <2>5. c # 0 => c >= MutableMin /\ c % Align = 0
    BY DEF WriterSound, WriterTyped, Working, SettingsOk
  <2>6. c = 0 => FooterAt = Bottom
    BY <1>3 DEF Words
  <2> HIDE DEF p, c
  <2> QED BY <1>3, <2>1, <2>2, <2>3, <2>4, <2>5, <2>6 DEF FooterOk
<1>5. /\ step' = "index" /\ info' = [NoInfo EXCEPT !.payload = p, !.capacity = c]
      /\ UNCHANGED <<disk, size, count, entries, end, left, slots, zero>>
  BY <1>2, <1>4, Geometry
<1>6. info' = [payload |-> p, metadata |-> 0, cover |-> 0, capacity |-> c]
  BY <1>5 DEF NoInfo
<1>7. info' \in [payload : Words, metadata : Words, cover : Words, capacity : Words]
  BY <1>3, <1>6, Nothing
<1>8. step = "footer"
  BY DEF ParseFooter
<1> QED BY <1>1, <1>5, <1>6, <1>7, <1>8 DEF Accepting, Appending

LEMMA OwnIndex ==
  ASSUME WriterSound, Accepting, wstep = "done", UNCHANGED writer, ParseIndex
  PROVE  Accepting'
<1> USE DEF Founded, Counted, Full, Swept, Placed
<1>1. UNCHANGED <<wstep, job, placed, at, offset, payload_size, bytes, hashed>> /\ step = "index"
  BY DEF writer, output, ParseIndex
<1>2. IF Count # 0 /\ Count <= (Sub(Sub(Immutable, info.payload), IndexHeader)) \div IndexEntry
      THEN /\ step' = "entries"
           /\ count' = Count
           /\ UNCHANGED <<disk, size, info, entries, end, left, slots, zero>>
      ELSE Refuse
  BY OnDisk DEF ParseIndex, Found
<1>3. info.payload = payload_size /\ info.capacity = job.capacity /\ entries = NoEntries /\ end = 0
  BY <1>1 DEF Accepting
<1>4. WriterTyped /\ wstep \in Working
  BY DEF WriterSound, Working
<1>5. /\ payload_size \in Words /\ payload_size \in Nat /\ Bottom \in Words /\ Bottom \in Nat /\ Modulus \in Nat
      /\ Immutable = Bottom /\ IndexHeader \in Words /\ IndexHeader \in Nat /\ IndexEntry \in Nat /\ IndexEntry > 0
      /\ Count \in Nat \ {0} /\ job.metadata \in Nat /\ job.cover \in Nat
      /\ Contents = payload_size + IndexBytes + job.metadata + job.cover /\ Contents <= Bottom
  <2>1. payload_size \in Words
    BY <1>4 DEF WriterTyped
  <2>2. Immutable = Bottom
    BY <1>3, OwnPlaces
  <2>3. Bottom \in Words /\ Contents = payload_size + IndexBytes + job.metadata + job.cover /\ Contents <= Bottom
    BY Geometry
  <2>4. Count \in Nat \ {0} /\ job.metadata \in Nat /\ job.cover \in Nat /\ Modulus \in Nat
    BY <1>4, SizeFacts
  <2>5. IndexHeader \in Words /\ IndexHeader \in Nat /\ IndexEntry \in Nat /\ IndexEntry > 0
    BY ContainerAssumption DEF Words
  <2>6. payload_size \in Nat /\ Bottom \in Nat
    BY <2>1, <2>3 DEF Words
  <2> QED BY <2>1, <2>2, <2>3, <2>4, <2>5, <2>6
<1> DEFINE k == Count * IndexEntry  room == Bottom - payload_size - IndexHeader
<1>6. k \in Nat /\ IndexBytes = IndexHeader + k
  BY <1>5 DEF IndexBytes
<1> HIDE DEF k
<1>7. room \in Nat /\ k <= room
  BY <1>5, <1>6
<1>8. Sub(Sub(Immutable, info.payload), IndexHeader) = room
  <2>1. payload_size <= Bottom /\ Bottom - payload_size \in Words /\ IndexHeader <= Bottom - payload_size
    BY <1>5, <1>6 DEF Words
  <2>2. Sub(Bottom, payload_size) = Bottom - payload_size
    BY <1>5, <2>1, Sums
  <2>3. Sub(Bottom - payload_size, IndexHeader) = room
    BY <1>5, <2>1, Sums
  <2> QED BY <1>3, <1>5, <2>2, <2>3
<1> HIDE DEF room
<1>9. Count <= room \div IndexEntry
  BY <1>5, <1>7, DivisionBack DEF k
<1>10. /\ step' = "entries" /\ count' = Count
       /\ UNCHANGED <<disk, size, info, entries, end, left, slots, zero>>
  BY <1>2, <1>5, <1>8, <1>9
<1>11. Count' = Count
  BY <1>1 DEF Count
<1>12. DOMAIN entries = 1 .. 0 /\ 0 \in 0 .. Count /\ \A i \in DOMAIN entries : FALSE
  <2>1. DOMAIN entries = {} /\ 1 .. 0 = {}
    BY <1>3 DEF NoEntries
  <2> QED BY <1>5, <2>1
<1> QED BY <1>1, <1>3, <1>10, <1>11, <1>12 DEF Accepting, Appending

LEMMA OwnEntry ==
  ASSUME WriterSound, Accepting, wstep = "done", UNCHANGED writer, ParseEntry
  PROVE  Accepting'
<1> USE DEF Founded, Counted, Full, Swept, Placed
<1>1. UNCHANGED <<wstep, job, placed, at, offset, payload_size, bytes, hashed>> /\ step = "entries" /\ Parsed < count
  BY DEF writer, output, ParseEntry
<1>2. /\ count = Count /\ info.payload = payload_size /\ end = 0
      /\ \A i \in DOMAIN entries : entries[i] = disk.entries[i]
  BY <1>1 DEF Accepting
<1>3. PICK k \in 0 .. Count : DOMAIN entries = 1 .. k
  BY <1>1 DEF Accepting
<1>4. Parsed = k /\ k \in Nat /\ Count \in Nat /\ k < Count
  <2>1. Count \in Nat
    BY SizeFacts DEF WriterSound, Working
  <2>2. k \in Nat /\ Cardinality(1 .. k) = k
    BY <2>1, FS_Interval
  <2> QED BY <1>1, <1>2, <1>3, <2>1, <2>2 DEF Parsed
<1> DEFINE e == disk.entries[k + 1]
<1>5. IF EntryOk(e)
      THEN /\ entries' = [j \in 1 .. k + 1 |-> IF j = k + 1 THEN e ELSE entries[j]]
           /\ UNCHANGED <<disk, size, step, info, count, end, left, slots, zero>>
      ELSE Refuse
  BY <1>4, OnDisk DEF ParseEntry, Found
<1>6. EntryOk(e)
  <2>1. k + 1 \in 1 .. Count
    BY <1>4
  <2>2. e = [at |-> at[k + 1], n |-> job.sizes[k + 1], start |-> k + 1 = job.start]
    BY <2>1, OnDisk
  <2>3. /\ at[k + 1] \in Words /\ job.sizes[k + 1] \in Words /\ payload_size \in Words
        /\ at[k + 1] + job.sizes[k + 1] <= payload_size
        /\ k + 1 = job.start => at[k + 1] = 0 /\ job.sizes[k + 1] # 0
    BY <2>1, AllStreamed DEF WriterSound, WriterTyped, Working
  <2>4. at[k + 1] <= payload_size /\ job.sizes[k + 1] <= payload_size - at[k + 1]
    BY <2>3, ContainerAssumption DEF Words
  <2>5. Sub(payload_size, at[k + 1]) = payload_size - at[k + 1]
    BY <2>3, <2>4, Sums
  <2>6. e.at = at[k + 1] /\ e.n = job.sizes[k + 1]
    BY <2>2
  <2>8. e.start => k + 1 = job.start
    <3> HIDE DEF e
    <3> QED BY <2>2, Flagged, Zenon
  <2> HIDE DEF e
  <2> QED BY <1>2, <2>3, <2>4, <2>5, <2>6, <2>8 DEF EntryOk
<1> HIDE DEF e
<1>7. /\ entries' = [j \in 1 .. k + 1 |-> IF j = k + 1 THEN e ELSE entries[j]]
      /\ UNCHANGED <<disk, size, step, info, count, end, left, slots, zero>>
  BY <1>5, <1>6
<1>8. DOMAIN entries' = 1 .. k + 1 /\ k + 1 \in 0 .. Count
  BY <1>4, <1>7
<1>9. ASSUME NEW i \in DOMAIN entries' PROVE entries'[i] = disk.entries[i]
  <2>1. CASE i = k + 1
    BY <1>7, <1>8, <2>1 DEF e
  <2>2. CASE i # k + 1
    <3>1. i \in 1 .. k /\ entries'[i] = entries[i]
      BY <1>4, <1>7, <1>8, <2>2
    <3> QED BY <1>2, <1>3, <3>1
  <2> QED BY <2>1, <2>2
<1>10. Count' = Count
  BY <1>1 DEF Count
<1>11. \E m \in 0 .. Count' : DOMAIN entries' = 1 .. m
  BY <1>8, <1>10
<1> QED BY <1>1, <1>2, <1>7, <1>9, <1>10, <1>11 DEF Accepting, Appending


\* The parsed entries are those that the caller asked for, where they were streamed.
LEMMA ReadBack ==
  ASSUME WriterSound, Accepting, wstep = "done", step \in Counted, DOMAIN entries \subseteq 1 .. Count
  PROVE  \A i \in DOMAIN entries :
           /\ entries[i].at = at[i] /\ entries[i].n = job.sizes[i]
           /\ entries[i].start <=> i = job.start
           /\ EndOf(entries[i]) = Ends(i)
<1> SUFFICES ASSUME NEW i \in DOMAIN entries
             PROVE  /\ entries[i].at = at[i] /\ entries[i].n = job.sizes[i]
                    /\ entries[i].start <=> i = job.start
                    /\ EndOf(entries[i]) = Ends(i)
  OBVIOUS
<1>1. entries[i] = disk.entries[i]
  BY DEF Accepting
<1>2. i \in 1 .. Count
  OBVIOUS
<1>3. entries[i] = [at |-> at[i], n |-> job.sizes[i], start |-> i = job.start]
  BY <1>1, <1>2, OnDisk, Zenon
<1>4. entries[i].at = at[i] /\ entries[i].n = job.sizes[i]
  BY <1>3
<1>5. entries[i].start <=> i = job.start
  <2> DEFINE e == entries[i]
  <2>1. e = [at |-> at[i], n |-> job.sizes[i], start |-> i = job.start]
    BY <1>3
  <2> HIDE DEF e
  <2>2. e.start <=> i = job.start
    BY <2>1, Flagged, Zenon
  <2> QED BY <2>2 DEF e
<1>6. Add(at[i], job.sizes[i]) = Ends(i)
  <2>1. at[i] \in Words /\ job.sizes[i] \in Words /\ Ends(i) = at[i] + job.sizes[i] /\ Ends(i) <= payload_size
    BY <1>2, AllStreamed
  <2>2. payload_size \in Nat /\ payload_size < Modulus
    BY ContainerAssumption DEF WriterSound, WriterTyped, Working, Words
  <2>3. at[i] + job.sizes[i] < Modulus
    BY <2>1, <2>2, ContainerAssumption DEF Words
  <2> QED BY <2>1, <2>3, Sums
<1> QED BY <1>4, <1>5, <1>6 DEF EndOf

LEMMA OwnEntriesDone ==
  ASSUME WriterSound, Accepting, wstep = "done", UNCHANGED writer, EntriesDone
  PROVE  Accepting'
<1> USE DEF Founded, Counted, Full, Swept, Placed
<1>1. UNCHANGED <<wstep, job, placed, at, offset, payload_size, bytes, hashed>> /\ step = "entries" /\ Parsed = count
  BY DEF writer, output, EntriesDone
<1>2. count = Count /\ info.payload = payload_size /\ end = 0 /\ info \in [payload : Words, metadata : Words, cover : Words, capacity : Words]
  BY <1>1 DEF Accepting
<1>3. PICK k \in 0 .. Count : DOMAIN entries = 1 .. k
  BY <1>1 DEF Accepting
<1>4. Count \in Nat /\ DOMAIN entries = 1 .. Count
  <2>1. Count \in Nat
    BY SizeFacts DEF WriterSound, Working
  <2>2. k \in Nat /\ Cardinality(1 .. k) = k
    BY <2>1, FS_Interval
  <2> QED BY <1>1, <1>2, <1>3, <2>1, <2>2 DEF Parsed
<1>5. \A i \in 1 .. Count :
        /\ entries[i].at = at[i] /\ entries[i].n = job.sizes[i]
        /\ entries[i].start <=> i = job.start
  BY <1>1, <1>4, ReadBack
<1>6. Cardinality({i \in 1 .. count : entries[i].start}) = 1
  <2>1. job.start \in 1 .. Count
    BY AllStreamed
  <2>2. {i \in 1 .. count : entries[i].start} = {job.start}
    BY <1>2, <1>5, <2>1, Zenon
  <2> QED BY <2>2, FS_Singleton
<1>7. /\ payload_size \in Words /\ payload_size \in Nat /\ Modulus \in Nat
      /\ \A i \in 1 .. Count : at[i] \in Nat /\ job.sizes[i] \in Nat
  BY SizeFacts DEF WriterSound, WriterTyped, Working
<1>8. count = 1 => entries[1].at = 0 /\ entries[1].n = info.payload
  <2> SUFFICES ASSUME count = 1 PROVE entries[1].at = 0 /\ entries[1].n = info.payload
    OBVIOUS
  <2>1. Count = 1 /\ 1 \in 1 .. Count /\ job.start = 1
    BY <1>2, <1>4, AllStreamed
  <2>2. at[1] = 0 /\ Ends(1) = at[1] + job.sizes[1] /\ Ends(1) <= payload_size
    BY <2>1, AllStreamed
  <2>3. ~(job.sizes[1] < payload_size)
    <3> SUFFICES ASSUME job.sizes[1] < payload_size PROVE FALSE
      OBVIOUS
    <3>1. job.sizes[1] \in Words
      BY <1>7, <2>1 DEF Words
    <3>2. PICK i \in 1 .. Count : at[i] <= job.sizes[1] /\ job.sizes[1] < Ends(i)
      BY <3>1, AllStreamed
    <3>3. i = 1
      BY <2>1
    <3> QED BY <1>7, <2>1, <2>2, <3>2, <3>3
  <2>4. job.sizes[1] = payload_size
    BY <1>7, <2>1, <2>2, <2>3
  <2> QED BY <1>2, <1>5, <2>1, <2>2, <2>4
<1>9. /\ step' = "sweep" /\ left' = {i \in 1 .. count : entries[i].n # 0}
      /\ UNCHANGED <<disk, size, info, count, entries, end, slots, zero>>
  BY <1>6, <1>8 DEF EntriesDone
<1>10. left' = {i \in 1 .. Count : job.sizes[i] # 0 /\ 0 <= at[i]}
  <2>1. \A i \in 1 .. Count : entries[i].n # 0 <=> job.sizes[i] # 0 /\ 0 <= at[i]
    BY <1>5, <1>7
  <2> QED BY <1>2, <1>9, <2>1
<1>11. \A i \in (1 .. Count) \ left' : job.sizes[i] = 0
  BY <1>7, <1>10
<1>12. /\ Count' = Count /\ \A i \in 1 .. Count : job'.sizes[i] = job.sizes[i] /\ at'[i] = at[i]
       /\ end' = 0 /\ 0 \in Words /\ 0 <= payload_size /\ payload_size' = payload_size
  BY <1>1, <1>2, <1>7, <1>9, Nothing DEF Count
<1>13. /\ end' \in Words /\ end' <= payload_size'
       /\ left' = {i \in 1 .. Count' : job'.sizes[i] # 0 /\ end' <= at'[i]}
       /\ \A i \in (1 .. Count') \ left' : job'.sizes[i] = 0 \/ Ends(i)' <= end'
  <2>1. {i \in 1 .. Count : job.sizes[i] # 0 /\ 0 <= at[i]} = {i \in 1 .. Count' : job'.sizes[i] # 0 /\ end' <= at'[i]}
    BY <1>1, <1>12
  <2> QED BY <1>10, <1>11, <1>12, <2>1
<1>14. \A i \in DOMAIN entries' : entries'[i] = disk'.entries[i]
  BY <1>1, <1>9 DEF Accepting
<1>15. info'.payload = payload_size' /\ info'.capacity = job'.capacity
  BY <1>1, <1>9 DEF Accepting
<1> QED BY <1>1, <1>2, <1>4, <1>9, <1>12, <1>13, <1>14, <1>15 DEF Accepting, Appending

LEMMA OwnSweep ==
  ASSUME WriterSound, Accepting, wstep = "done", UNCHANGED writer, SweepEntry
  PROVE  Accepting'
<1> USE DEF Founded, Counted, Full, Swept, Placed
<1>1. UNCHANGED <<wstep, job, placed, at, offset, payload_size, bytes, hashed>> /\ step = "sweep"
  BY DEF writer, output, SweepEntry
<1>2. /\ count = Count /\ info.payload = payload_size /\ DOMAIN entries = 1 .. Count
      /\ end \in Words /\ end <= payload_size
      /\ left = {i \in 1 .. Count : job.sizes[i] # 0 /\ end <= at[i]}
      /\ \A i \in (1 .. Count) \ left : job.sizes[i] = 0 \/ Ends(i) <= end
      /\ \A j \in DOMAIN entries : entries[j] = disk.entries[j]
      /\ info.capacity = job.capacity /\ info \in [payload : Words, metadata : Words, cover : Words, capacity : Words]
  BY <1>1 DEF Accepting
<1>3. PICK i \in left :
        /\ \A j \in left : Before(entries[i], entries[j])
        /\ IF entries[i].at >= end /\ Zeroed(Span(end, entries[i].at))
           THEN /\ end' = EndOf(entries[i])
                /\ left' = left \ {i}
                /\ zero' = zero \cup Span(end, entries[i].at)
                /\ UNCHANGED <<disk, size, step, info, count, entries, slots>>
           ELSE Refuse
  BY DEF SweepEntry
<1>4. \A j \in 1 .. Count : entries[j].at = at[j] /\ EndOf(entries[j]) = Ends(j)
  BY <1>1, <1>2, ReadBack
<1>5. /\ payload_size \in Nat /\ Modulus \in Nat /\ end \in Nat
      /\ \A j \in 1 .. Count : at[j] \in Nat /\ job.sizes[j] \in Nat /\ Ends(j) = at[j] + job.sizes[j] /\ Ends(j) <= payload_size
  <2>1. payload_size \in Nat /\ Modulus \in Nat
    BY SizeFacts DEF WriterSound, Working
  <2>2. end \in Nat
    BY <1>2 DEF Words
  <2>3. \A j \in 1 .. Count : at[j] \in Nat /\ job.sizes[j] \in Nat
    BY AllStreamed DEF Words
  <2> QED BY <2>1, <2>2, <2>3, AllStreamed
<1>6. /\ i \in 1 .. Count /\ job.sizes[i] # 0 /\ end <= at[i]
      /\ \A j \in left : j \in 1 .. Count /\ at[i] <= at[j] /\ job.sizes[j] # 0
  <2>1. \A j \in left : j \in 1 .. Count /\ job.sizes[j] # 0 /\ end <= at[j]
    BY <1>2
  <2>2. ASSUME NEW j \in left PROVE at[i] <= at[j]
    <3>1. Before(entries[i], entries[j])
      BY <1>3
    <3>2. entries[i].at = at[i] /\ entries[j].at = at[j] /\ at[i] \in Nat /\ at[j] \in Nat
      BY <1>3, <1>4, <1>5, <2>1
    <3> QED BY <3>1, <3>2 DEF Before
  <2> QED BY <1>3, <2>1, <2>2
<1>7. Span(end, at[i]) = {}
  <2> SUFFICES ASSUME NEW x \in Words, end <= x, x < at[i] PROVE FALSE
    BY DEF Span
  <2>1. x \in Nat /\ x < payload_size
    BY <1>5, <1>6 DEF Words
  <2>2. PICK j \in 1 .. Count : at[j] <= x /\ x < Ends(j)
    BY <2>1, AllStreamed
  <2>3. job.sizes[j] # 0
    BY <1>5, <2>1, <2>2
  <2>4. j \in left
    BY <1>2, <1>5, <2>1, <2>2, <2>3
  <2> QED BY <1>5, <1>6, <2>1, <2>2, <2>4
<1>8. entries[i].at >= end /\ Zeroed(Span(end, entries[i].at))
  <2>1. entries[i].at = at[i]
    BY <1>4, <1>6
  <2>2. at[i] >= end
    BY <1>5, <1>6
  <2>3. Zeroed(Span(end, entries[i].at))
    BY <1>7, <2>1 DEF Zeroed
  <2> QED BY <2>1, <2>2, <2>3
<1>9. /\ end' = Ends(i) /\ left' = left \ {i}
      /\ UNCHANGED <<disk, size, step, info, count, entries, slots>>
  BY <1>3, <1>4, <1>6, <1>8
<1>10. left' = {j \in 1 .. Count : job.sizes[j] # 0 /\ Ends(i) <= at[j]}
  <2>1. ASSUME NEW j \in left, j # i PROVE j \in 1 .. Count /\ job.sizes[j] # 0 /\ Ends(i) <= at[j]
    <3>1. Ends(i) <= at[j] \/ Ends(j) <= at[i]
      BY <1>6, <2>1, AllStreamed
    <3> QED BY <1>5, <1>6, <3>1
  <2>2. ASSUME NEW j \in 1 .. Count, job.sizes[j] # 0, Ends(i) <= at[j] PROVE j \in left /\ j # i
    BY <1>2, <1>5, <1>6, <2>2
  <2> QED BY <1>9, <2>1, <2>2
<1>11. \A j \in (1 .. Count) \ left' : job.sizes[j] = 0 \/ Ends(j) <= Ends(i)
  <2> SUFFICES ASSUME NEW j \in (1 .. Count) \ left', job.sizes[j] # 0 PROVE Ends(j) <= Ends(i)
    OBVIOUS
  <2>1. CASE j = i
    BY <1>5, <2>1
  <2>2. CASE j # i
    <3>1. j \in (1 .. Count) \ left
      BY <1>9, <2>2
    <3> QED BY <1>2, <1>5, <1>6, <3>1
  <2> QED BY <2>1, <2>2
<1>12. Ends(i) \in Words /\ Ends(i) <= payload_size
  <2>1. payload_size < Modulus
    BY ContainerAssumption DEF WriterSound, WriterTyped, Working, Words
  <2> QED BY <1>5, <1>6, <2>1 DEF Words
<1>13. Count' = Count /\ payload_size' = payload_size /\ job' = job /\ at' = at /\ \A j \in 1 .. Count : Ends(j)' = Ends(j)
  BY <1>1 DEF Count, Ends
<1>14. /\ end' \in Words /\ end' <= payload_size'
       /\ left' = {j \in 1 .. Count' : job'.sizes[j] # 0 /\ end' <= at'[j]}
       /\ \A j \in (1 .. Count') \ left' : job'.sizes[j] = 0 \/ Ends(j)' <= end'
  <2>1. {j \in 1 .. Count : job.sizes[j] # 0 /\ Ends(i) <= at[j]} = {j \in 1 .. Count' : job'.sizes[j] # 0 /\ end' <= at'[j]}
    BY <1>9, <1>13
  <2> QED BY <1>9, <1>10, <1>11, <1>12, <1>13, <2>1
<1> QED BY <1>1, <1>2, <1>9, <1>13, <1>14 DEF Accepting, Appending

LEMMA OwnSweepDone ==
  ASSUME WriterSound, Accepting, wstep = "done", UNCHANGED writer, SweepDone
  PROVE  Accepting'
<1> USE DEF Founded, Counted, Full, Swept, Placed
<1>1. UNCHANGED <<wstep, job, placed, at, offset, payload_size, bytes, hashed>> /\ step = "sweep" /\ left = {}
  BY DEF writer, output, SweepDone
<1>2. /\ info.payload = payload_size /\ end \in Words
      /\ \A i \in (1 .. Count) \ left : job.sizes[i] = 0 \/ Ends(i) <= end
  BY <1>1 DEF Accepting
<1>3. \A j \in 1 .. Count : at[j] \in Nat /\ job.sizes[j] \in Nat /\ Ends(j) = at[j] + job.sizes[j]
  BY AllStreamed DEF Words
<1>4. Span(end, info.payload) = {}
  <2> SUFFICES ASSUME NEW x \in Words, end <= x, x < payload_size PROVE FALSE
    BY <1>2 DEF Span
  <2>1. PICK j \in 1 .. Count : at[j] <= x /\ x < Ends(j)
    BY AllStreamed
  <2>2. x \in Nat /\ end \in Nat
    BY <1>2 DEF Words
  <2>3. job.sizes[j] # 0
    BY <1>3, <2>1, <2>2
  <2> QED BY <1>1, <1>2, <1>3, <2>1, <2>2, <2>3
<1>5. step' = "place" /\ UNCHANGED <<disk, size, info, count, entries, end, left, slots>>
  BY <1>4 DEF SweepDone, Zeroed
<1>6. Count' = Count
  BY <1>1 DEF Count
<1> QED BY <1>1, <1>5, <1>6 DEF Accepting, Appending

\* The reader computes the ends of the regions that the writer appended.
LEMMA OwnEnds ==
  ASSUME WriterSound, wstep = "done", info.payload = payload_size, count = Count
  PROVE  /\ IndexSize = IndexBytes /\ IndexEnd = MetadataAt /\ MetadataAt \in Words
         /\ MetadataEnd(job.metadata) = CoverAt /\ CoverAt \in Words
         /\ CoverEnd(job.metadata, job.cover) = Contents
         /\ MetadataAt + job.metadata = CoverAt /\ CoverAt + job.cover = Contents
<1>0. WriterTyped /\ wstep \in Working
  BY DEF WriterSound, Working
<1>1. /\ payload_size \in Nat /\ IndexBytes \in Nat /\ job.metadata \in Nat /\ job.cover \in Nat /\ Modulus \in Nat
      /\ MetadataAt \in Nat /\ MetadataAt = payload_size + IndexBytes
      /\ CoverAt \in Nat /\ CoverAt = MetadataAt + job.metadata
      /\ Contents \in Nat /\ Contents = CoverAt + job.cover
  BY <1>0, SizeFacts, RegionFacts
<1>2. Contents \in Words
  BY Geometry
<1>3. /\ payload_size \in Words /\ IndexBytes \in Words /\ job.metadata \in Words /\ job.cover \in Words
      /\ MetadataAt \in Words /\ CoverAt \in Words
      /\ payload_size + IndexBytes < Modulus /\ MetadataAt + job.metadata < Modulus /\ CoverAt + job.cover < Modulus
  BY <1>1, <1>2 DEF Words
<1>4. IndexSize = IndexBytes
  BY DEF IndexSize, IndexBytes
<1>5. IndexEnd = MetadataAt
  BY <1>1, <1>3, <1>4, Sums DEF IndexEnd
<1>6. MetadataEnd(job.metadata) = CoverAt
  BY <1>1, <1>3, <1>5, Sums DEF MetadataEnd
<1>7. CoverEnd(job.metadata, job.cover) = Contents
  BY <1>1, <1>3, <1>6, Sums DEF CoverEnd
<1> QED BY <1>1, <1>3, <1>4, <1>5, <1>6, <1>7

LEMMA OwnPlace ==
  ASSUME WriterSound, Accepting, wstep = "done", UNCHANGED writer, PlaceRegions
  PROVE  Accepting'
<1> USE DEF Founded, Counted, Full, Swept, Placed
<1>1. UNCHANGED <<wstep, job, placed, at, offset, payload_size, bytes, hashed>> /\ step = "place"
  BY DEF writer, output, PlaceRegions
<1>2. /\ info.payload = payload_size /\ info.capacity = job.capacity /\ count = Count
      /\ info \in [payload : Words, metadata : Words, cover : Words, capacity : Words]
  BY <1>1 DEF Accepting
<1>3. Immutable = Bottom /\ MutableAt = Bottom /\ Bottom \in Words /\ Contents <= Bottom
  BY <1>2, OwnPlaces, Geometry
<1> DEFINE last == CoverEnd(job.metadata, job.cover)
           padding == IF info.capacity = 0 THEN {} ELSE Span(last, AlignUp(last))
<1>4. /\ last = Contents /\ IndexEnd = MetadataAt /\ MetadataEnd(job.metadata) = CoverAt
      /\ MetadataAt \in Words /\ CoverAt \in Words
      /\ MetadataAt + job.metadata = CoverAt /\ CoverAt + job.cover = Contents
  BY <1>2, OwnEnds
<1>5. IF RegionsFit(job.metadata, job.cover) /\ Follows(last) /\ Zeroed(padding)
      THEN /\ step' = IF info.capacity = 0 THEN "ready" ELSE "mutable"
           /\ info' = [info EXCEPT !.metadata = job.metadata, !.cover = job.cover]
           /\ end' = last
           /\ zero' = zero \cup padding
           /\ UNCHANGED <<disk, size, count, entries, left, slots>>
      ELSE Refuse
  <2>1. Found(disk.metadata, Words) = {job.metadata} /\ Found(disk.cover, Words) = {job.cover}
    BY OnDisk DEF Found
  <2> QED BY <2>1 DEF PlaceRegions
<1>6. /\ job.metadata \in Nat /\ job.cover \in Nat /\ MetadataAt \in Nat /\ CoverAt \in Nat /\ Bottom \in Nat
      /\ job.metadata \in Words /\ job.cover \in Words
  <2>1. WriterTyped /\ wstep \in Working
    BY DEF WriterSound, Working
  <2>2. job \in Job
    BY <2>1, SizeFacts
  <2> QED BY <1>3, <1>4, <2>2 DEF Job, Words
<1>7. RegionsFit(job.metadata, job.cover)
  <2>1. MetadataAt <= Bottom /\ CoverAt <= Bottom
    BY <1>3, <1>4, <1>6
  <2>2. Sub(Bottom, MetadataAt) = Bottom - MetadataAt /\ Sub(Bottom, CoverAt) = Bottom - CoverAt
    BY <1>3, <1>4, <2>1, Sums
  <2>3. job.metadata <= Bottom - MetadataAt /\ job.cover <= Bottom - CoverAt
    BY <1>3, <1>4, <1>6
  <2> QED BY <1>3, <1>4, <2>2, <2>3 DEF RegionsFit
<1>8. job.capacity # 0 => Contents <= Modulus - Align /\ AlignUp(Contents) = Bottom
  BY DEF WriterSound, Following, Bottom
<1>9. Follows(last)
  <2>1. CASE job.capacity = 0
    <3>1. Immutable = FooterAt /\ Contents = Bottom
      BY <1>2, <2>1, Geometry DEF Immutable
    <3> QED BY <1>2, <1>3, <1>4, <2>1, <3>1 DEF Follows
  <2>2. CASE job.capacity # 0
    BY <1>2, <1>3, <1>4, <1>8, <2>2 DEF Follows
  <2> QED BY <2>1, <2>2
<1>10. Zeroed(padding)
  <2>1. CASE job.capacity = 0
    BY <1>2, <2>1 DEF Zeroed
  <2>2. CASE job.capacity # 0
    <3>1. padding = Span(Contents, Bottom)
      BY <1>2, <1>4, <1>8, <2>2
    <3> QED BY <3>1, OnDisk DEF Zeroed
  <2> QED BY <2>1, <2>2
<1> HIDE DEF last, padding
<1>11. /\ step' = IF info.capacity = 0 THEN "ready" ELSE "mutable"
       /\ info' = [info EXCEPT !.metadata = job.metadata, !.cover = job.cover]
       /\ UNCHANGED <<disk, size, count, entries, left, slots>>
  BY <1>5, <1>7, <1>9, <1>10
<1>12. /\ info' \in [payload : Words, metadata : Words, cover : Words, capacity : Words]
       /\ info'.payload = payload_size /\ info'.capacity = job.capacity
       /\ info'.metadata = job.metadata /\ info'.cover = job.cover
  BY <1>2, <1>6, <1>11
<1>13. Count' = Count /\ step' \in {"ready", "mutable"} /\ (step' = "ready" => job.capacity = 0)
  BY <1>1, <1>2, <1>11 DEF Count
<1> QED BY <1>1, <1>11, <1>12, <1>13 DEF Accepting, Appending

LEMMA OwnMutable ==
  ASSUME WriterSound, Accepting, wstep = "done", UNCHANGED writer, ParseMutable
  PROVE  Accepting'
<1> USE DEF Founded, Counted, Full, Swept, Placed
<1>1. /\ UNCHANGED <<wstep, job, placed, at, offset, payload_size, bytes, hashed>> /\ step = "mutable" /\ step' = "ready"
      /\ UNCHANGED <<disk, size, info, count, entries, end, left, zero>>
  BY DEF writer, output, ParseMutable
<1>2. info.capacity = job.capacity
  BY <1>1 DEF Accepting
<1>3. slots' = IF HeaderOk(job.slots) THEN job.slots ELSE 0
  <2>1. Found(disk.slots, SlotCounts) = {job.slots} /\ Found(TRUE, BOOLEAN) = {TRUE}
    BY OnDisk DEF Found
  <2> QED BY <2>1 DEF ParseMutable
<1>4. job.capacity # 0 => HeaderOk(job.slots)
  BY <1>2 DEF WriterSound, WriterTyped, Working, SettingsOk, HeaderOk
<1>5. Count' = Count
  BY <1>1 DEF Count
<1> QED BY <1>1, <1>3, <1>4, <1>5 DEF Accepting, Appending

LEMMA OwnFail ==
  ASSUME Accepting, wstep = "done", UNCHANGED writer, Fail
  PROVE  Accepting'
<1>1. wstep' = "done" /\ step' = "failed" /\ info' = NoInfo
  BY DEF writer, Fail
<1>2. step' \notin Founded \cup {"footer"} /\ step' \notin Counted \cup Full \cup Placed
  BY <1>1 DEF Founded, Counted, Full, Swept, Placed
<1>3. wstep' \notin Appending \cup {"start", "abandoned"} /\ step' \notin {"footer", "index", "entries", "sweep", "ready"}
  BY <1>1 DEF Appending
<1> QED BY <1>1, <1>2, <1>3, Nothing DEF Accepting

\* The reader leaves the file alone, and waits for the writer.
LEMMA ReaderAside ==
  ASSUME WriterSound, Accepting, ReaderNext
  PROVE  UNCHANGED <<disk, size>> /\ wstep \in {"none", "done"}
<1>1. UNCHANGED <<disk, size>>
  BY DEF ReaderNext, ParseFooter, ParseIndex, ParseEntry, EntriesDone, SweepEntry, SweepDone,
         PlaceRegions, ParseMutable, Unsound, Fail, Refuse
<1>2. step # "none"
  BY DEF ReaderNext, ParseFooter, ParseIndex, ParseEntry, EntriesDone, SweepEntry, SweepDone,
         PlaceRegions, ParseMutable, Unsound, Fail
<1> QED BY <1>1, <1>2 DEF Accepting, WriterSound, WriterTyped, Working

LEMMA WriterStep == WriterSound /\ Accepting /\ [Next]_vars => WriterSound' /\ Accepting'
<1> SUFFICES ASSUME WriterSound, Accepting, [Next]_vars PROVE WriterSound' /\ Accepting'
  OBVIOUS
<1>1. CASE WriterNext
  <2>1. CASE \E j \in Jobs : Start(j)
    BY <2>1, StartStep
  <2>2. CASE StreamEntry
    BY <2>2, StreamStep
  <2>3. CASE WriteIndex
    BY <2>3, IndexWritten
  <2>4. CASE WriteMetadata
    BY <2>4, MetadataWritten
  <2>5. CASE WriteCover
    BY <2>5, CoverWritten
  <2>6. CASE WritePadding
    BY <2>6, PaddingWritten
  <2>7. CASE WriteMutable
    BY <2>7, MutableWritten
  <2>8. CASE WriteFooter
    BY <2>8, FooterWritten
  <2>9. CASE Abandon
    BY <2>9, AbandonStep
  <2> QED BY <1>1, <2>1, <2>2, <2>3, <2>4, <2>5, <2>6, <2>7, <2>8, <2>9 DEF WriterNext
<1>2. CASE ReaderNext /\ UNCHANGED writer
  <2>1. UNCHANGED <<disk, size>> /\ wstep \in {"none", "done"} /\ wstep' = wstep
    BY <1>2, ReaderAside DEF writer
  <2>2. WriterSound'
    <3>1. UNCHANGED <<disk, size, writer>>
      BY <1>2, <2>1
    <3> QED BY <3>1, WriterRests
  <2>3. CASE wstep = "none"
    BY <2>1, <2>2, <2>3 DEF Accepting, Appending
  <2>4. CASE wstep = "done"
    <3>1. ~Unsound
      <4>1. disk # Foreign
        BY <2>4, OnDisk
      <4> QED BY <4>1 DEF Unsound
    <3>2. CASE ParseFooter
      BY <1>2, <2>2, <2>4, <3>2, OwnFooter
    <3>3. CASE ParseIndex
      BY <1>2, <2>2, <2>4, <3>3, OwnIndex
    <3>4. CASE ParseEntry
      BY <1>2, <2>2, <2>4, <3>4, OwnEntry
    <3>5. CASE EntriesDone
      BY <1>2, <2>2, <2>4, <3>5, OwnEntriesDone
    <3>6. CASE SweepEntry
      BY <1>2, <2>2, <2>4, <3>6, OwnSweep
    <3>7. CASE SweepDone
      BY <1>2, <2>2, <2>4, <3>7, OwnSweepDone
    <3>8. CASE PlaceRegions
      BY <1>2, <2>2, <2>4, <3>8, OwnPlace
    <3>9. CASE ParseMutable
      BY <1>2, <2>2, <2>4, <3>9, OwnMutable
    <3>10. CASE Fail
      BY <1>2, <2>2, <2>4, <3>10, OwnFail
    <3> QED BY <1>2, <3>1, <3>2, <3>3, <3>4, <3>5, <3>6, <3>7, <3>8, <3>9, <3>10 DEF ReaderNext
  <2> QED BY <2>1, <2>2, <2>3, <2>4
<1>3. CASE UNCHANGED vars
  <2>1. UNCHANGED <<disk, size, step, info, count, entries, end, left, slots, zero, writer>>
    BY <1>3 DEF vars, reader, parsed
  <2>2. WriterSound'
    BY <2>1, WriterRests
  <2>3. UNCHANGED <<wstep, job, placed, at, offset, payload_size, bytes, hashed>>
    BY <2>1 DEF writer, output
  <2>4. Accepting'
    <3>1. Fresh => Fresh'
      BY <2>1 DEF Fresh
    <3>2. Count' = Count /\ \A i \in 1 .. Count : Ends(i)' = Ends(i)
      BY <2>3 DEF Count, Ends
    <3> QED BY <2>1, <2>3, <3>1, <3>2 DEF Accepting
  <2> QED BY <2>2, <2>4
<1> QED BY <1>1, <1>2, <1>3 DEF Next

\* Who reads a region finds what lies there.
LEMMA FoundAgain ==
  ASSUME NEW b \in Seq(Byte), NEW what \in Parts, NEW i \in Nat, NEW from \in Nat, NEW n \in Nat,
         Lies(b, what, i, from, n)
  PROVE  SubSeq(b, from + 1, from + n) = Tags(what, i, n)
<1> DEFINE s == SubSeq(b, from + 1, from + n)  t == Tags(what, i, n)
<1>1. Len(b) \in Nat /\ from + n <= Len(b) /\ \A k \in 1 .. n : b[from + k] = <<what, i, k>>
  <2>1. Len(b) \in Nat
    OBVIOUS
  <2> QED BY <2>1, Zenon DEF Lies
<1>2. from + 1 \in Int /\ from + n \in Int /\ \A k \in from + 1 .. from + n : b[k] \in Byte
  BY <1>1
<1>3. /\ s \in Seq(Byte) /\ Len(s) = IF from + 1 <= from + n THEN (from + n) - (from + 1) + 1 ELSE 0
      /\ \A k \in 1 .. (from + n) - (from + 1) + 1 : s[k] = b[(from + 1) + k - 1]
  <2>1. PICK p \in Int, q \in Int : p = from + 1 /\ q = from + n /\ \A k \in p .. q : b[k] \in Byte
    BY <1>2
  <2>2. /\ SubSeq(b, p, q) \in Seq(Byte) /\ Len(SubSeq(b, p, q)) = IF p <= q THEN q - p + 1 ELSE 0
        /\ \A k \in 1 .. q - p + 1 : SubSeq(b, p, q)[k] = b[p + k - 1]
    BY <2>1, SubSeqProperties
  <2> QED BY <2>1, <2>2, Zenon
<1>4. t \in Seq(Byte) /\ Len(t) = n /\ \A k \in 1 .. n : t[k] = <<what, i, k>>
  BY TagFacts
<1> HIDE DEF s, t
<1>5. Len(s) = n
  <2>1. Len(s) = IF from + 1 <= from + n THEN (from + n) - (from + 1) + 1 ELSE 0
    BY <1>3
  <2> QED BY <2>1
<1>6. ASSUME NEW k \in 1 .. n PROVE s[k] = t[k]
  <2>1. s[k] = b[(from + 1) + k - 1] /\ (from + 1) + k - 1 = from + k
    BY <1>3
  <2> QED BY <1>1, <1>4, <2>1
<1>7. s = t
  BY <1>3, <1>4, <1>5, <1>6, SeqEqual
<1> QED BY <1>7 DEF s, t

LEMMA WriterHolds == Spec => [](WriterSound /\ Accepting)
<1>1. Init => WriterSound /\ Accepting
  BY InitWriter
<1>2. (WriterSound /\ Accepting) /\ [Next]_vars => (WriterSound /\ Accepting)'
  BY WriterStep
<1> QED BY <1>1, <1>2, PTL DEF Spec

\* What romx_writer_write_io_entries completes, romx_reader_create accepts, and
\* every entry and region is found to hold what the caller gave for it
\* (src/src/writer.c:500-700, src/src/reader.c).
THEOREM WrittenIsRead == Spec => []RoundTrip
<1>1. WriterSound /\ Accepting => RoundTrip
  <2> SUFFICES ASSUME WriterSound, Accepting, wstep = "done" PROVE RoundTrip
    BY DEF RoundTrip
  <2>1. step # "refused"
    BY DEF Accepting, Founded, Counted, Full, Swept, Placed
  <2>2. size = Len(bytes)
    BY DEF WriterSound, Finished
  <2> SUFFICES ASSUME step = "ready"
               PROVE  /\ count = Len(job.sizes)
                      /\ \A i \in 1 .. count : Content(EntryRegion(i)) = Tags("entry", i, job.sizes[i])
                      /\ {i \in 1 .. count : entries[i].start} = {job.start}
                      /\ Content(MetadataRegion) = Tags("metadata", 0, job.metadata)
                      /\ Content(CoverRegion) = Tags("cover", 0, job.cover)
                      /\ job.capacity # 0 => /\ slots = job.slots
                                             /\ Content(Region(MutableAt, Align)) = Tags("header", 0, Align)
    BY <2>1, <2>2 DEF RoundTrip
  <2>3. WriterTyped /\ Following /\ wstep \in Working
    BY DEF WriterSound, Working
  <2>4. step \in Founded /\ step \in Counted /\ step \in Full /\ step \in Placed
    BY DEF Founded, Counted, Full, Swept, Placed
  <2>5. /\ count = Count /\ DOMAIN entries = 1 .. Count
        /\ info.payload = payload_size /\ info.capacity = job.capacity
        /\ info.metadata = job.metadata /\ info.cover = job.cover
        /\ job.capacity # 0 => slots = job.slots
    BY <2>4 DEF Accepting
  <2>6. /\ bytes \in Seq(Byte) /\ Len(bytes) \in Nat
        /\ job.metadata \in Nat /\ job.cover \in Nat /\ Align \in Nat /\ Count \in Nat
        /\ MetadataAt \in Nat /\ CoverAt \in Nat
        /\ {"entry", "metadata", "cover", "header"} \subseteq Parts
    BY <2>3, SizeFacts, RegionFacts DEF WriterTyped, Parts
  <2>7. \A i \in 1 .. Count : entries[i].at = at[i] /\ entries[i].n = job.sizes[i] /\ (entries[i].start <=> i = job.start)
    BY <2>4, <2>5, ReadBack
  <2>8. ASSUME NEW i \in 1 .. Count PROVE Content(EntryRegion(i)) = Tags("entry", i, job.sizes[i])
    <3>1. at[i] \in Nat /\ job.sizes[i] \in Nat /\ i \in Nat /\ Lies(bytes, "entry", i, at[i], job.sizes[i])
      BY AllStreamed DEF Words
    <3>2. SubSeq(bytes, at[i] + 1, at[i] + job.sizes[i]) = Tags("entry", i, job.sizes[i])
      <4>1. "entry" \in Parts /\ bytes \in Seq(Byte)
        BY <2>6
      <4>2. PICK a \in Nat, n \in Nat : a = at[i] /\ n = job.sizes[i] /\ Lies(bytes, "entry", i, a, n)
        BY <3>1
      <4>3. SubSeq(bytes, a + 1, a + n) = Tags("entry", i, n)
        BY <3>1, <4>1, <4>2, FoundAgain
      <4> QED BY <4>2, <4>3
    <3>3. EntryRegion(i).at = at[i] /\ EntryRegion(i).n = job.sizes[i]
      BY <2>7 DEF EntryRegion, Region
    <3> QED BY <3>2, <3>3 DEF Content
  <2>9. {i \in 1 .. count : entries[i].start} = {job.start}
    <3>1. job.start \in 1 .. Count
      BY AllStreamed
    <3> QED BY <2>5, <2>7, <3>1, Zenon
  <2>10. IndexEnd = MetadataAt /\ MetadataEnd(job.metadata) = CoverAt
    BY <2>5, OwnEnds
  <2>11. Content(MetadataRegion) = Tags("metadata", 0, job.metadata)
    <3>1. PICK a \in Nat : a = IF job.metadata = 0 THEN 0 ELSE MetadataAt
      BY <2>6
    <3>2. Lies(bytes, "metadata", 0, MetadataAt, job.metadata)
      BY <2>3 DEF Following
    <3>3. Lies(bytes, "metadata", 0, a, job.metadata)
      BY <2>6, <3>1, <3>2 DEF Lies
    <3>4. SubSeq(bytes, a + 1, a + job.metadata) = Tags("metadata", 0, job.metadata)
      BY <2>6, <3>3, FoundAgain
    <3>5. MetadataRegion.at = a /\ MetadataRegion.n = job.metadata
      BY <2>5, <2>10, <3>1 DEF MetadataRegion, Region
    <3> QED BY <3>4, <3>5 DEF Content
  <2>12. Content(CoverRegion) = Tags("cover", 0, job.cover)
    <3>1. PICK a \in Nat : a = IF job.cover = 0 THEN 0 ELSE CoverAt
      BY <2>6
    <3>2. Lies(bytes, "cover", 0, CoverAt, job.cover)
      BY <2>3 DEF Following
    <3>3. Lies(bytes, "cover", 0, a, job.cover)
      BY <2>6, <3>1, <3>2 DEF Lies
    <3>4. SubSeq(bytes, a + 1, a + job.cover) = Tags("cover", 0, job.cover)
      BY <2>6, <3>3, FoundAgain
    <3>5. CoverRegion.at = a /\ CoverRegion.n = job.cover
      BY <2>5, <2>10, <3>1 DEF CoverRegion, Region
    <3> QED BY <3>4, <3>5 DEF Content
  <2>13. job.capacity # 0 => Content(Region(MutableAt, Align)) = Tags("header", 0, Align)
    <3> SUFFICES ASSUME job.capacity # 0 PROVE Content(Region(MutableAt, Align)) = Tags("header", 0, Align)
      OBVIOUS
    <3>1. MutableAt = Bottom /\ Bottom \in Nat
      BY <2>5, OwnPlaces, Geometry DEF Words
    <3>2. Lies(bytes, "header", 0, Bottom, Align)
      BY <2>3 DEF Following
    <3>3. SubSeq(bytes, Bottom + 1, Bottom + Align) = Tags("header", 0, Align)
      BY <2>6, <3>1, <3>2, FoundAgain
    <3> QED BY <3>1, <3>3 DEF Content, Region
  <2> QED BY <2>5, <2>8, <2>9, <2>11, <2>12, <2>13 DEF Count
<1> QED BY <1>1, WriterHolds, PTL

\* The hash that the writer stores is over the bytes that a reader takes to be
\* immutable, and over no others (src/src/writer.c:588-672, src/src/reader.c).
THEOREM HashIsOfImmutable == Spec => []HashCoversImmutable
<1>1. WriterSound /\ Accepting => HashCoversImmutable
  <2> SUFFICES ASSUME WriterSound, Accepting, wstep = "done", step = "ready" PROVE hashed = Content(ImmutableRegion)
    BY DEF HashCoversImmutable
  <2>1. WriterTyped /\ Following /\ Finished /\ wstep \in Working
    BY DEF WriterSound, Working
  <2>2. info.capacity = job.capacity
    BY DEF Accepting, Founded, Counted, Full, Swept, Placed
  <2>3. ImmutableRegion.at = 0 /\ ImmutableRegion.n = Bottom
    BY <2>2, OwnPlaces DEF ImmutableRegion, Region
  <2>4. /\ hashed \in Seq(Byte) /\ bytes \in Seq(Byte) /\ Len(hashed) = Bottom /\ Bottom \in Nat /\ Len(bytes) \in Nat
        /\ \A k \in 1 .. Bottom : hashed[k] = bytes[k]
    BY <2>1, Geometry, SizeFacts DEF WriterTyped, Following, Words
  <2>5. Bottom <= Len(bytes)
    <3>1. size = Len(bytes) /\ Bottom = size - FooterSize - job.capacity /\ FooterSize \in Nat /\ job.capacity \in Nat
      BY <2>1, Geometry, SizeFacts DEF Finished
    <3> QED BY <2>4, <3>1
  <2> DEFINE s == SubSeq(bytes, 1, Bottom)
  <2>6. /\ s \in Seq(Byte) /\ Len(s) = Bottom - 1 + 1
        /\ \A k \in 1 .. Bottom - 1 + 1 : s[k] = bytes[1 + k - 1]
    <3>1. 1 \in 1 .. Len(bytes) + 1 /\ Bottom \in 1 - 1 .. Len(bytes)
      BY <2>4, <2>5
    <3> QED BY <2>4, <3>1, SubSeqProperties
  <2> HIDE DEF s
  <2>7. hashed = s
    <3>1. Len(s) = Bottom
      BY <2>4, <2>6
    <3>2. ASSUME NEW k \in 1 .. Bottom PROVE s[k] = hashed[k]
      <4>1. k \in 1 .. Bottom - 1 + 1 /\ 1 + k - 1 = k
        BY <2>4
      <4> QED BY <2>4, <2>6, <4>1
    <3> QED BY <2>4, <2>6, <3>1, <3>2, SeqEqual
  <2>8. Content(ImmutableRegion) = SubSeq(bytes, 1, Bottom)
    BY <2>3, <2>4 DEF Content
  <2> QED BY <2>7, <2>8 DEF s
<1> QED BY <1>1, WriterHolds, PTL
=============================================================================
